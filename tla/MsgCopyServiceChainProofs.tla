----------------------- MODULE MsgCopyServiceChainProofs -----------------------
(***************************************************************************)
(* The service with listeners that make calls from OnStopCopy, and with    *)
(* folders in a maildir store: calls nest to any depth.                    *)
(***************************************************************************)
EXTENDS MsgCopyServiceQueueProofs, WellFoundedInduction

(***************************************************************************)
(* Callers copy the messages of one folder, or a file, which may replace a *)
(* message.                                                                *)
(***************************************************************************)
OneEntry(c) ==
  \/ c.method = "messages" /\ \A k \in DOMAIN c.from : c.from[k] = c.src
  \/ c.method = "files" /\ c.from \in {<<>>, <<NoFolder>>}

OneEntryCalls == \A script \in Scripts, i \in Id : OneEntry(script[i])

(***************************************************************************)
(* No two requests have the same source and destination: otherwise         *)
(* NotifyCompletion takes the one for the other.                           *)
(***************************************************************************)
NoTwinCalls ==
  \A script \in Scripts, i, k \in Id :
    i # k => script[k].src # script[i].src \/ script[k].dst # script[i].dst

(***************************************************************************)
(* The frames below the running call are listeners that have made a call;  *)
(* what is left of a NotifyCompletion that has cleared its request already;*)
(* maildir stores that have copied and will tell the listener; and copies  *)
(* of files that replaced a message and will look at what NotifyCompletion *)
(* returned.                                                               *)
(***************************************************************************)
EndsOf(i, fr) == call[i].src = fr.sup /\ Dst(i) = fr.dst

Arrived(i, c) == c[i] = Pieces(i)

IsStoreReturn(fr) == fr.kind = "store CopyMessages returns"
IsFileReturn(fr) == fr.kind = "CopyFileMessage returns"

Settled(fr, n, q, c) ==
  \/ fr.kind = "NotifyCompletion" /\ \E i \in 1..n : EndsOf(i, fr) /\ i \notin q
  \/ IsStoreReturn(fr) /\ Maildir # {} /\ fr.owner \in 1..n /\ Arrived(fr.owner, c)
  \/ IsFileReturn(fr) /\ ~OneSourceCalls /\ fr.owner \in (1..n) \ q
  \/ fr.kind = "result" /\ ~OneSourceCalls
  \/ fr.kind = "OnStopCopy"

AllSettled(s, n, q, c) == \A p \in DOMAIN s : Settled(s[p], n, q, c)

(***************************************************************************)
(* The first request of each destination waits, unless it is in flight,    *)
(* for one of the frames that will run DoNextCopy: there are as many of    *)
(* these.  A frame is known by its depth from the bottom of the stack.     *)
(***************************************************************************)
Wakers(s) ==
  {n \in 0..(Len(s) - 1) : s[Len(s) - n].kind \in {"NotifyCompletion", "DoNextCopy"}}

Heads(q, st) == {i \in q : First(i, q) /\ st[i] = 0}

Enough(s, q, st) == Cardinality(Heads(q, st)) <= Cardinality(Wakers(s))

(***************************************************************************)
(* The inductive invariant.  The running call either leaves all copies in  *)
(* flight to their folders, or copies request i, or completes it.  A file  *)
(* that replaces a message may delete the state of another copy.  Nothing  *)
(* more is heard of a request whose CopyMessages returned an error and     *)
(* reported none.                                                          *)
(***************************************************************************)
OthersBusy(i) ==
  OneSourceCalls =>
    \A k \in m_copyRequests \ unreported : starts[k] > 0 /\ k # i => Busy(Dst(k))

Idle ==
  /\ OthersBusy(0)
  /\ Enough(stack, m_copyRequests, starts)
  /\ stack # <<>> =>
       /\ \/ Top.kind \in {"DoNextCopy", "OnStopCopy"}
          \/ Settled(Top, issued, m_copyRequests, copied)
       /\ AllSettled(Below, issued, m_copyRequests, copied)

Attends(i) ==
  /\ InFlight(i) /\ i \notin unreported /\ ~Busy(Dst(i)) /\ OthersBusy(i)
  /\ Enough(Below, m_copyRequests, starts)
  /\ AllSettled(Below, issued, m_copyRequests \ {i}, copied)

Copying(i) ==
  /\ Attends(i)
  /\ AllSettled(Below, issued, m_copyRequests, copied)
  /\ \/ /\ Running("CopyMessages")
        /\ Top.owner = i /\ EndsOf(i, Top) /\ Top.entry \in Sources(i)
     \/ Running("CopyFileMessage") /\ Top.owner = i /\ call[i].method = "files"

Completing(i) ==
  /\ Attends(i)
  /\ Running("NotifyCompletion") /\ EndsOf(i, Top)
  /\ Top.orig = Cardinality(m_copyRequests)
  /\ Top.ok => Arrived(i, copied)

OwnerHasEntry ==
  /\ OwnerInFlight
  /\ \A f \in Folder : Busy(f) =>
       /\ mCopyState[f].entry \in Sources(mCopyState[f].owner)
       /\ mCopyState[f].owner \notin unreported

ToldInv ==
  /\ TypeOK
  /\ Unissued
  /\ StartedIsProcessed
  /\ FirstInFlight
  /\ CopiedPieces
  /\ OkMeansCopied
  /\ UnreportedStarted
  /\ Maildir = {} => StopsOnce /\ StartsOnce

ChainInv ==
  /\ ToldInv
  /\ \/ stack = <<DestroyFrame>>
     \/ OwnerHasEntry /\ (Idle \/ \E i \in m_copyRequests : Copying(i) \/ Completing(i))

LEMMA OneEntryPieces ==
  ASSUME OneEntryCalls, TypeOK, NEW i \in Id, ~NothingSelected(call[i])
  PROVE  \/ /\ call[i].method = "files"
            /\ \/ Sources(i) = {}
               \/ Sources(i) = {1} /\ call[i].from[1] = NoFolder /\ ~OneSourceCalls
         \/ /\ call[i].method = "messages"
            /\ \E k \in Nat : Sources(i) = {k} /\ call[i].from[k] = call[i].src
  <1>1. OneEntry(call[i]) /\ call[i].from \in Seq(Folder \cup {NoFolder}) /\ call \in Scripts
    BY CallFields DEF OneEntryCalls, TypeOK
  <1>2. CASE call[i].method = "files" /\ call[i].from = <<>>
    BY <1>2 DEF Sources
  <1>3. CASE call[i].method = "files" /\ call[i].from = <<NoFolder>>
    <2>1. DOMAIN call[i].from = {1} /\ call[i].from[1] = NoFolder
      BY <1>3
    <2>2. Sources(i) = {1}
      BY <2>1 DEF Sources
    <2>3. ~OneSource(call[i])
      BY <1>3 DEF OneSource
    <2>4. ~OneSourceCalls
      BY <1>1, <2>3 DEF OneSourceCalls
    <2> QED
      BY <1>3, <2>1, <2>2, <2>4
  <1>4. CASE /\ call[i].method = "messages"
             /\ \A k \in DOMAIN call[i].from : call[i].from[k] = call[i].src
    <2>1. PICK from : from = call[i].from /\ from \in Seq(Folder \cup {NoFolder}) /\ from # <<>>
      BY <1>1, <1>4 DEF NothingSelected
    <2>2. Len(from) \in DOMAIN from /\ DOMAIN from = 1..Len(from) /\ Len(from) \in Nat
      BY <2>1
    <2>3. \A k, l \in DOMAIN from : from[k] = from[l]
      BY <1>4, <2>1
    <2>4. {k \in DOMAIN from : \A l \in DOMAIN from : l > k => from[l] # from[k]} = {Len(from)}
      BY <2>2, <2>3
    <2>5. Sources(i) = {Len(from)}
      BY <2>1, <2>4 DEF Sources
    <2> QED
      BY <1>4, <2>1, <2>2, <2>5
  <1> QED
    BY <1>1, <1>2, <1>3, <1>4 DEF OneEntry

LEMMA OneSourceIsEntry == OneSourceCalls => OneEntryCalls
  BY DEF OneSourceCalls, OneSource, OneEntryCalls, OneEntry

-----------------------------------------------------------------------------
(***************************************************************************)
(* Counting frames and waiting requests.                                   *)
(***************************************************************************)
LEMMA WakersPush ==
  ASSUME NEW s \in Seq(Frame), NEW fr \in Frame
  PROVE  /\ IsFiniteSet(Wakers(s)) /\ Cardinality(Wakers(s)) \in Nat
         /\ Cardinality(Wakers(Push(fr, s))) =
              Cardinality(Wakers(s)) +
                (IF fr.kind \in {"NotifyCompletion", "DoNextCopy"} THEN 1 ELSE 0)
  <1>1. /\ Len(s) \in Nat
        /\ Len(Push(fr, s)) = Len(s) + 1
        /\ Push(fr, s)[1] = fr
        /\ \A n \in 0..(Len(s) - 1) : Push(fr, s)[Len(s) + 1 - n] = s[Len(s) - n]
    BY DEF Push
  <1>2. IsFiniteSet(Wakers(s)) /\ Cardinality(Wakers(s)) \in Nat
    <2>1. IsFiniteSet(0..(Len(s) - 1)) /\ Wakers(s) \subseteq 0..(Len(s) - 1)
      BY <1>1, FS_Interval DEF Wakers
    <2> QED
      BY <2>1, FS_Subset, FS_CardinalityType
  <1> DEFINE wakes == {"NotifyCompletion", "DoNextCopy"}
             len == Len(s)
             t == Push(fr, s)
  <1> HIDE DEF wakes, len, t
  <1>3. /\ len \in Nat /\ t[1] = fr
        /\ Wakers(t) = {n \in 0..len : t[len + 1 - n].kind \in wakes}
        /\ Wakers(s) = {n \in 0..(len - 1) : s[len - n].kind \in wakes}
        /\ \A n \in 0..(len - 1) : t[len + 1 - n] = s[len - n]
    <2>1. /\ len \in Nat /\ t[1] = fr /\ Len(t) = len + 1 /\ Len(s) = len
          /\ \A n \in 0..(len - 1) : t[len + 1 - n] = s[len - n]
      BY <1>1 DEF t, len
    <2>2. Len(t) - 1 = len
      BY <2>1
    <2> QED
      BY <2>1, <2>2 DEF Wakers, wakes
  <1>4. \A n \in 0..len : n = len \/ n \in 0..(len - 1)
    BY <1>3
  <1>5. len \in 0..len /\ len \notin 0..(len - 1) /\ len + 1 - len = 1 /\ 0..(len - 1) \subseteq 0..len
    BY <1>3
  <1>6. \A n \in 0..len : n \in Wakers(t) <=> n \in Wakers(s) \/ (n = len /\ fr.kind \in wakes)
    <2> SUFFICES ASSUME NEW n \in 0..len
                 PROVE  n \in Wakers(t) <=> n \in Wakers(s) \/ (n = len /\ fr.kind \in wakes)
      OBVIOUS
    <2>1. CASE n = len
      BY <1>3, <1>5, <2>1
    <2>2. CASE n \in 0..(len - 1)
      BY <1>3, <1>5, <2>2
    <2> QED
      BY <1>4, <2>1, <2>2
  <1>7. Wakers(t) \subseteq 0..len /\ Wakers(s) \subseteq 0..len /\ len \notin Wakers(s)
    BY <1>3, <1>5
  <1>8. ASSUME fr.kind \in wakes
        PROVE  Cardinality(Wakers(t)) = Cardinality(Wakers(s)) + 1
    <2>1. Wakers(t) = Wakers(s) \cup {len}
      BY <1>5, <1>6, <1>7, <1>8
    <2> QED
      BY <1>2, <1>7, <1>8, <2>1, FS_AddElement
  <1>9. ASSUME fr.kind \notin wakes
        PROVE  Cardinality(Wakers(t)) = Cardinality(Wakers(s))
    <2>1. Wakers(t) = Wakers(s)
      BY <1>6, <1>7, <1>9
    <2> QED
      BY <1>2, <1>9, <2>1
  <1> QED
    BY <1>2, <1>8, <1>9 DEF wakes, t

LEMMA HeadsFinite ==
  ASSUME NEW q, IsFiniteSet(q), NEW st
  PROVE  IsFiniteSet(Heads(q, st)) /\ Cardinality(Heads(q, st)) \in Nat
  <1>1. Heads(q, st) \subseteq q
    BY DEF Heads
  <1> QED
    BY <1>1, FS_Subset, FS_CardinalityType

(***************************************************************************)
(* A request that starts is no longer waiting; one that leaves the queue   *)
(* makes way for at most one other; a new one waits only if it is first.   *)
(***************************************************************************)
LEMMA HeadsStart ==
  ASSUME NEW q, IsFiniteSet(q), NEW st, NEW i \in Heads(q, st), NEW st2,
         st2[i] # 0, \A k \in q \ {i} : st2[k] = st[k]
  PROVE  Cardinality(Heads(q, st2)) = Cardinality(Heads(q, st)) - 1
  <1>1. Heads(q, st2) = Heads(q, st) \ {i}
    BY DEF Heads
  <1> QED
    BY <1>1, HeadsFinite, FS_RemoveElement

LEMMA HeadsLeave ==
  ASSUME NEW q \in SUBSET Nat, IsFiniteSet(q), NEW st, NEW i \in q
  PROVE  Cardinality(Heads(q \ {i}, st)) <= Cardinality(Heads(q, st)) + 1
  <1> DEFINE old == Heads(q, st)
             new == Heads(q \ {i}, st)
             next == {k \in new : Dst(k) = Dst(i)}
  <1>1. new \subseteq old \cup next
    BY DEF Heads, First
  <1>2. \A k, j \in next : k = j
    <2> SUFFICES ASSUME NEW k \in next, NEW j \in next, k # j PROVE FALSE
      OBVIOUS
    <2>1. /\ k \in Nat /\ j \in Nat
          /\ k \in q \ {i} /\ j \in q \ {i} /\ Dst(k) = Dst(j)
          /\ First(k, q \ {i}) /\ First(j, q \ {i})
      BY DEF Heads
    <2>2. k < j \/ j < k
      BY <2>1
    <2> QED
      BY <2>1, <2>2 DEF First
  <1>3. IsFiniteSet(q \ {i}) /\ IsFiniteSet(old) /\ Cardinality(old) \in Nat
    BY HeadsFinite, FS_RemoveElement
  <1>4. IsFiniteSet(new) /\ Cardinality(new) \in Nat
    BY <1>3, HeadsFinite
  <1> HIDE DEF old, new, next
  <1>5. CASE next = {}
    <2>1. Cardinality(new) <= Cardinality(old)
      BY <1>1, <1>3, <1>5, FS_Subset
    <2> QED
      BY <1>3, <1>4, <2>1 DEF old, new
  <1>6. CASE next # {}
    <2>1. PICK k : k \in next
      BY <1>6
    <2>2. new \subseteq old \cup {k}
      BY <1>1, <1>2, <2>1
    <2>3. /\ IsFiniteSet(old \cup {k})
          /\ Cardinality(old \cup {k}) \in {Cardinality(old), Cardinality(old) + 1}
      <3>1. CASE k \in old
        <4>1. old \cup {k} = old
          BY <3>1
        <4> QED
          BY <1>3, <4>1
      <3>2. CASE k \notin old
        BY <1>3, <3>2, FS_AddElement
      <3> QED
        BY <3>1, <3>2
    <2>4. Cardinality(new) <= Cardinality(old \cup {k})
      BY <2>2, <2>3, FS_Subset
    <2> QED
      BY <1>3, <1>4, <2>3, <2>4 DEF old, new
  <1> QED
    BY <1>5, <1>6

LEMMA HeadsCall ==
  ASSUME NEW q \in SUBSET Nat, IsFiniteSet(q), NEW st, NEW i \in Nat,
         \A k \in q : k < i
  PROVE  /\ Cardinality(Heads(q \cup {i}, st)) <= Cardinality(Heads(q, st)) + 1
         /\ (\E k \in q : Dst(k) = Dst(i)) =>
              Cardinality(Heads(q \cup {i}, st)) <= Cardinality(Heads(q, st))
  <1>1. i \notin q
    OBVIOUS
  <1>2. Heads(q \cup {i}, st) \subseteq Heads(q, st) \cup {i}
    BY DEF Heads, First
  <1>3. (\E k \in q : Dst(k) = Dst(i)) => Heads(q \cup {i}, st) \subseteq Heads(q, st)
    BY DEF Heads, First
  <1>4. IsFiniteSet(Heads(q, st)) /\ Cardinality(Heads(q, st)) \in Nat
    BY HeadsFinite
  <1>5. IsFiniteSet(q \cup {i})
    BY <1>1, FS_AddElement
  <1>6. IsFiniteSet(Heads(q \cup {i}, st)) /\ Cardinality(Heads(q \cup {i}, st)) \in Nat
    BY <1>5, HeadsFinite
  <1>7. i \notin Heads(q, st)
    BY <1>1 DEF Heads
  <1>8. /\ IsFiniteSet(Heads(q, st) \cup {i})
        /\ Cardinality(Heads(q, st) \cup {i}) = Cardinality(Heads(q, st)) + 1
    BY <1>4, <1>7, FS_AddElement
  <1>9. Cardinality(Heads(q \cup {i}, st)) <= Cardinality(Heads(q, st)) + 1
    <2>1. Cardinality(Heads(q \cup {i}, st)) <= Cardinality(Heads(q, st) \cup {i})
      BY <1>2, <1>8, FS_Subset
    <2> QED
      BY <1>8, <2>1
  <1>10. ASSUME \E k \in q : Dst(k) = Dst(i)
         PROVE  Cardinality(Heads(q \cup {i}, st)) <= Cardinality(Heads(q, st))
    BY <1>3, <1>4, <1>10, FS_Subset
  <1> QED
    BY <1>9, <1>10

-----------------------------------------------------------------------------
(***************************************************************************)
(* ToldInv, which says nothing of the calls in progress.                   *)
(***************************************************************************)
LEMMA ToldFacts ==
  ASSUME TypeOK
  PROVE  /\ IsFiniteSet(m_copyRequests) /\ Cardinality(m_copyRequests) \in Nat
         /\ m_copyRequests \subseteq Nat /\ m_copyRequests \subseteq Id
         /\ m_copyRequests \subseteq 1..issued /\ 0 \notin m_copyRequests
         /\ issued \in Nat
         /\ Id \subseteq Nat /\ 0 \notin Id
         /\ call \in Scripts
         /\ \A i \in Id : Dst(i) \in Folder
         /\ starts \in [Id -> Nat] /\ stops \in [Id -> Nat] /\ copied \in [Id -> SUBSET Nat]
         /\ DOMAIN sourceDone = Id /\ DOMAIN mCopyState = Folder /\ DOMAIN result = Id
  <1>1. \A i \in Id : Dst(i) \in Folder
    BY CallFields DEF TypeOK, Dst
  <1>2. m_copyRequests \subseteq 1..issued /\ issued \in Nat
    BY MaxRequestsAssumption DEF TypeOK
  <1>3. Id \subseteq Nat /\ 0 \notin Id
    BY MaxRequestsAssumption DEF Id
  <1> QED
    BY <1>1, <1>2, <1>3, QueueFinite DEF TypeOK

LEMMA ToldFactsNext ==
  ASSUME TypeOK'
  PROVE  IsFiniteSet(m_copyRequests') /\ stack' \in Seq(Frame)
  <1>1. IsFiniteSet(1..issued')
    BY FS_Interval, MaxRequestsAssumption DEF TypeOK
  <1> QED
    BY <1>1, FS_Subset DEF TypeOK

LEMMA ToldInit == Init => ToldInv
  BY SafeInit, ReportInit DEF SafeInv, ReportInv, ToldInv, Init, UnreportedStarted

LEMMA ToldKept ==
  ASSUME ToldInv, TypeOK', UNCHANGED <<call, queueVars, stops, result>>,
         \A i \in Id : copied[i] \subseteq copied'[i] /\ copied'[i] \subseteq Pieces(i),
         \A i \in Id : starts'[i] > 0 <=> starts[i] > 0,
         Maildir = {} => starts' = starts, unreported' \subseteq unreported
  PROVE  ToldInv'
  <1>1. UNCHANGED <<call, issued, m_copyRequests, m_processed, sourceDone, stops, result>>
    BY DEF queueVars
  <1>2. /\ starts \in [Id -> Nat] /\ starts' \in [Id -> Nat]
        /\ m_copyRequests \subseteq Id
    BY ToldFacts DEF ToldInv, TypeOK
  <1>3. \A i \in Id : starts'[i] = 0 <=> starts[i] = 0
    BY <1>2
  <1>4. /\ \A k : Dst(k)' = Dst(k) /\ Pieces(k)' = Pieces(k)
        /\ \A k : Processed(k)' <=> Processed(k)
    <2>1. \A k : Sources(k)' = Sources(k) /\ Pieces(k)' = Pieces(k) /\ Dst(k)' = Dst(k)
      BY SamePieces
    <2> QED
      BY <1>1, <2>1 DEF Processed, AllSourcesDone
  <1>5. Unissued'
    BY <1>1, <1>3 DEF ToldInv, Unissued
  <1>6. StartedIsProcessed'
    BY <1>1, <1>2, <1>4 DEF ToldInv, StartedIsProcessed
  <1>7. FirstInFlight'
    BY <1>1, <1>2, <1>3, <1>4 DEF ToldInv, FirstInFlight
  <1>8. CopiedPieces'
    BY <1>4 DEF CopiedPieces
  <1>9. OkMeansCopied'
    BY <1>1, <1>4 DEF ToldInv, OkMeansCopied, NothingSelected
  <1>10. Maildir = {} => StopsOnce' /\ StartsOnce'
    BY <1>1 DEF ToldInv, StopsOnce, StartsOnce
  <1>11. UnreportedStarted'
    BY DEF ToldInv, TypeOK, UnreportedStarted
  <1> QED
    BY <1>5, <1>6, <1>7, <1>8, <1>9, <1>10, <1>11 DEF ToldInv

LEMMA ToldSame ==
  ASSUME ToldInv, TypeOK', UNCHANGED <<call, queueVars, listenerVars, copied, unreported>>
  PROVE  ToldInv'
  <1>1. UNCHANGED <<starts, stops, result, copied, unreported>>
    BY DEF listenerVars
  <1> QED
    BY <1>1, ToldKept DEF ToldInv, CopiedPieces

(***************************************************************************)
(* A request leaves the queue, told the truth.                             *)
(***************************************************************************)
LEMMA ToldClear ==
  ASSUME ToldInv, TypeOK', NEW i \in m_copyRequests, NEW ok \in BOOLEAN, NEW s,
         ClearRequest(i, ok, s), UNCHANGED <<call, copied, unreported>>,
         ok => starts[i] > 0 /\ Arrived(i, copied)
  PROVE  /\ ToldInv'
         /\ m_copyRequests' = m_copyRequests \ {i}
         /\ Cardinality(m_copyRequests') = Cardinality(m_copyRequests) - 1
         /\ UNCHANGED <<issued, starts>>
  <1>1. /\ m_copyRequests' = m_copyRequests \ {i}
        /\ stops' = [stops EXCEPT ![i] = @ + 1]
        /\ result' = [result EXCEPT ![i] = IF ok THEN "ok" ELSE "failed"]
        /\ UNCHANGED <<issued, m_processed, sourceDone, starts>>
    BY DEF ClearRequest, TellStopped
  <1>2. /\ i \in Id /\ i \in 1..issued /\ i <= issued
        /\ stops \in [Id -> Nat] /\ starts \in [Id -> Nat] /\ DOMAIN result = Id
    BY ToldFacts DEF ToldInv
  <1>3. \A k : Dst(k)' = Dst(k) /\ Pieces(k)' = Pieces(k) /\ (Processed(k)' <=> Processed(k))
    <2>1. \A k : Sources(k)' = Sources(k) /\ Pieces(k)' = Pieces(k) /\ Dst(k)' = Dst(k)
      BY SamePieces
    <2> QED
      BY <1>1, <2>1 DEF Processed, AllSourcesDone
  <1>4. Unissued' /\ FirstInFlight'
    BY <1>1, <1>3 DEF ToldInv, Unissued, FirstInFlight
  <1>5. StartedIsProcessed'
    BY <1>1, <1>3 DEF ToldInv, StartedIsProcessed
  <1>6. CopiedPieces'
    BY <1>3 DEF ToldInv, CopiedPieces
  <1>7. OkMeansCopied'
    <2> SUFFICES ASSUME NEW k \in Id, result'[k] = "ok", ~NothingSelected(call[k])
                 PROVE  copied[k] = Pieces(k)
      BY <1>3 DEF OkMeansCopied
    <2>1. CASE k = i
      BY <1>1, <1>2, <2>1 DEF Arrived
    <2>2. CASE k # i
      BY <1>1, <1>2, <2>2 DEF ToldInv, OkMeansCopied
    <2> QED
      BY <2>1, <2>2
  <1>8. ASSUME Maildir = {} PROVE StopsOnce' /\ StartsOnce'
    <2>1. StopsOnce /\ StartsOnce
      BY <1>8 DEF ToldInv
    <2>2. stops[i] = 0
      BY <1>2, <2>1 DEF StopsOnce
    <2>3. StopsOnce'
      BY <1>1, <1>2, <2>1, <2>2 DEF StopsOnce
    <2>4. ok => starts[i] = 1
      BY <1>2, <2>1 DEF StartsOnce
    <2>5. StartsOnce'
      BY <1>1, <1>2, <2>1, <2>4 DEF StartsOnce
    <2> QED
      BY <2>3, <2>5
  <1>9. Cardinality(m_copyRequests') = Cardinality(m_copyRequests) - 1
    <2>1. IsFiniteSet(m_copyRequests)
      BY ToldFacts DEF ToldInv
    <2> QED
      BY <1>1, <2>1, FS_RemoveElement
  <1>10. UnreportedStarted'
    BY <1>1 DEF ToldInv, UnreportedStarted
  <1> QED
    BY <1>1, <1>4, <1>5, <1>6, <1>7, <1>8, <1>9, <1>10 DEF ToldInv

(***************************************************************************)
(* The listener of a copy between maildirs is told by the store as well.   *)
(***************************************************************************)
LEMMA ToldByStore ==
  ASSUME ToldInv, TypeOK', NEW i \in Id, NEW s, TellStopped(i, TRUE, s),
         UNCHANGED <<call, queueVars, starts, copied, unreported>>,
         Maildir # {}, Arrived(i, copied)
  PROVE  ToldInv'
  <1>1. UNCHANGED <<call, issued, m_copyRequests, m_processed, sourceDone, starts, copied>>
    BY DEF queueVars
  <1>2. result' = [result EXCEPT ![i] = "ok"] /\ DOMAIN result = Id
    BY ToldFacts DEF TellStopped, ToldInv
  <1>3. \A k : Dst(k)' = Dst(k) /\ Pieces(k)' = Pieces(k) /\ (Processed(k)' <=> Processed(k))
    <2>1. \A k : Sources(k)' = Sources(k) /\ Pieces(k)' = Pieces(k) /\ Dst(k)' = Dst(k)
      BY SamePieces
    <2> QED
      BY <1>1, <2>1 DEF Processed, AllSourcesDone
  <1>4. Unissued' /\ FirstInFlight'
    BY <1>1, <1>3 DEF ToldInv, Unissued, FirstInFlight
  <1>5. StartedIsProcessed'
    BY <1>1, <1>3 DEF ToldInv, StartedIsProcessed
  <1>6. CopiedPieces'
    BY <1>1, <1>3 DEF ToldInv, CopiedPieces
  <1>7. OkMeansCopied'
    <2> SUFFICES ASSUME NEW k \in Id, result'[k] = "ok", ~NothingSelected(call[k])
                 PROVE  copied[k] = Pieces(k)
      BY <1>1, <1>3 DEF OkMeansCopied
    <2> QED
      BY <1>2 DEF ToldInv, OkMeansCopied, Arrived
  <1>8. UnreportedStarted'
    BY <1>1 DEF ToldInv, UnreportedStarted
  <1> QED
    BY <1>4, <1>5, <1>6, <1>7, <1>8 DEF ToldInv

(***************************************************************************)
(* A call: the next request is new to everything.                          *)
(***************************************************************************)
LEMMA NextCall ==
  ASSUME ToldInv, NEW s, MakeCall(s), NEW i, i = issued + 1
  PROVE  /\ i \in Id /\ i \in Nat /\ i > 0 /\ issued \in Nat /\ issued' = i
         /\ i \notin m_copyRequests
         /\ \A k \in m_copyRequests : k < i /\ k # i
         /\ starts[i] = 0 /\ sourceDone[i] = {} /\ i \notin m_processed
         /\ UNCHANGED <<call, mCopyState, copied, unreported>> /\ i \notin unreported
         /\ \A k \in Id : k > i => k # i /\ k > issued
         /\ \A k \in Id : k # i => (k <= i <=> k <= issued)
         /\ Maildir = {} => stops[i] = 0
  <1>1. /\ issued < MaxRequests /\ issued' = issued + 1
        /\ UNCHANGED <<call, mCopyState, copied, unreported>>
    BY DEF MakeCall
  <1>2. issued \in Nat /\ m_copyRequests \subseteq 1..issued
    BY ToldFacts DEF ToldInv
  <1>3. i \in Id /\ i \in Nat /\ i > 0 /\ i > issued /\ \A k \in Id : k \in Nat
    BY <1>1, <1>2, MaxRequestsAssumption DEF Id
  <1>4. /\ i \notin m_copyRequests
        /\ \A k \in m_copyRequests : k < i /\ k # i
    BY <1>2
  <1>5. starts[i] = 0 /\ sourceDone[i] = {} /\ i \notin m_processed
    BY <1>3 DEF ToldInv, Unissued
  <1>6. Maildir = {} => stops[i] = 0
    <2>1. ~(i <= issued)
      BY <1>2
    <2> QED
      BY <1>3, <2>1 DEF ToldInv, StopsOnce
  <1>7. /\ \A k \in Id : k > i => k # i /\ k > issued
        /\ \A k \in Id : k # i => (k <= i <=> k <= issued)
    BY <1>2, <1>3
  <1>8. i \notin unreported
    BY <1>5 DEF ToldInv, UnreportedStarted
  <1> QED
    BY <1>1, <1>2, <1>3, <1>4, <1>5, <1>6, <1>7, <1>8

LEMMA ToldNothing ==
  ASSUME ToldInv, TypeOK', NEW s, MakeCall(s), NothingSelected(call[issued + 1])
  PROVE  /\ ToldInv'
         /\ UNCHANGED <<call, mCopyState, copied, m_copyRequests, unreported>>
         /\ \A k \in m_copyRequests : starts'[k] = starts[k]
         /\ \E i : TellStopped(i, TRUE, s)
  <1>1. PICK i : i = issued + 1
    OBVIOUS
  <1>2. /\ i \in Id /\ issued' = i
        /\ i \notin m_copyRequests
        /\ \A k \in m_copyRequests : k < i /\ k # i
        /\ starts[i] = 0 /\ sourceDone[i] = {} /\ i \notin m_processed
        /\ UNCHANGED <<call, mCopyState, copied, unreported>> /\ i \notin unreported
        /\ \A k \in Id : k > i => k # i /\ k > issued
        /\ \A k \in Id : k # i => (k <= i <=> k <= issued)
        /\ i <= i
        /\ Maildir = {} => stops[i] = 0
    BY <1>1, NextCall
  <1>3. /\ UNCHANGED <<m_copyRequests, m_processed, sourceDone>>
        /\ starts' = [starts EXCEPT ![i] = @ + 1]
        /\ TellStopped(i, TRUE, s)
    BY <1>1 DEF MakeCall, NothingToCopy
  <1>4. /\ stops' = [stops EXCEPT ![i] = @ + 1]
        /\ result' = [result EXCEPT ![i] = "ok"]
    BY <1>3 DEF TellStopped
  <1>5. /\ starts \in [Id -> Nat] /\ stops \in [Id -> Nat] /\ DOMAIN result = Id
        /\ m_copyRequests \subseteq Id
    BY ToldFacts DEF ToldInv
  <1>6. \A k : Dst(k)' = Dst(k) /\ Pieces(k)' = Pieces(k) /\ (Processed(k)' <=> Processed(k))
    <2>1. \A k : Sources(k)' = Sources(k) /\ Pieces(k)' = Pieces(k) /\ Dst(k)' = Dst(k)
      BY <1>2, SamePieces
    <2> QED
      BY <1>3, <2>1 DEF Processed, AllSourcesDone
  <1>7. \A k \in Id : k # i => /\ starts'[k] = starts[k] /\ stops'[k] = stops[k]
                              /\ result'[k] = result[k]
    BY <1>3, <1>4, <1>5
  <1>8. Unissued'
    BY <1>2, <1>3, <1>7 DEF ToldInv, Unissued
  <1>9. StartedIsProcessed' /\ FirstInFlight'
    BY <1>2, <1>3, <1>5, <1>6, <1>7 DEF ToldInv, StartedIsProcessed, FirstInFlight
  <1>10. CopiedPieces'
    BY <1>2, <1>6 DEF ToldInv, CopiedPieces
  <1>11. OkMeansCopied'
    BY <1>1, <1>2, <1>6, <1>7 DEF ToldInv, OkMeansCopied
  <1>12. ASSUME Maildir = {} PROVE StopsOnce' /\ StartsOnce'
    <2>1. StopsOnce /\ StartsOnce
      BY <1>12 DEF ToldInv
    <2>2. stops'[i] = 1 /\ starts'[i] = 1
      BY <1>2, <1>3, <1>4, <1>5, <1>12
    <2>3. StopsOnce'
      BY <1>2, <1>3, <1>7, <2>1, <2>2 DEF StopsOnce
    <2>4. StartsOnce'
      BY <1>7, <2>1, <2>2 DEF StartsOnce
    <2> QED
      BY <2>3, <2>4
  <1>13. UnreportedStarted'
    BY <1>2, <1>7 DEF ToldInv, TypeOK, UnreportedStarted
  <1> QED
    BY <1>2, <1>3, <1>7, <1>5, <1>8, <1>9, <1>10, <1>11, <1>12, <1>13 DEF ToldInv

LEMMA ToldCall ==
  ASSUME OneEntryCalls, ToldInv, TypeOK', NEW s, MakeCall(s), ~NothingSelected(call[issued + 1])
  PROVE  /\ ToldInv'
         /\ UNCHANGED <<call, mCopyState, copied, starts, unreported>>
         /\ \E i \in Nat :
              /\ i = issued + 1 /\ \A k \in m_copyRequests : k < i
              /\ starts[i] = 0
              /\ m_copyRequests' = m_copyRequests \cup {i}
              /\ \/ stack' = Push(DoNextCopyFrame, s)
                 \/ stack' = s /\ \E k \in m_copyRequests : Dst(k) = Dst(i)
  <1>1. PICK i : i = issued + 1
    OBVIOUS
  <1>2. /\ i \in Id /\ i \in Nat /\ issued' = i
        /\ i \notin m_copyRequests
        /\ \A k \in m_copyRequests : k < i /\ k # i
        /\ starts[i] = 0 /\ sourceDone[i] = {} /\ i \notin m_processed
        /\ UNCHANGED <<call, mCopyState, copied, unreported>> /\ i \notin unreported
        /\ \A k \in Id : k > i => k # i /\ k > issued
        /\ \A k \in Id : k # i => (k <= i <=> k <= issued)
        /\ Maildir = {} => stops[i] = 0
    BY <1>1, NextCall
  <1>3. /\ m_copyRequests' = m_copyRequests \cup {i}
        /\ sourceDone' = [sourceDone EXCEPT ![i] = AddNewCopySource(i)]
        /\ stack' = IF QueueRequest(i) THEN Push(DoNextCopyFrame, s) ELSE s
        /\ UNCHANGED <<m_processed, starts, stops, result>>
    BY <1>1 DEF MakeCall, DoCopy, listenerVars
  <1>4. /\ DOMAIN sourceDone = Id /\ m_copyRequests \subseteq Id /\ call \in Scripts
        /\ m_copyRequests \subseteq Nat
        /\ ~NothingSelected(call[i])
    BY <1>1, ToldFacts DEF ToldInv
  <1>5. \A k : Sources(k)' = Sources(k) /\ Pieces(k)' = Pieces(k) /\ Dst(k)' = Dst(k)
    BY <1>2, SamePieces
  <1>6. \/ /\ call[i].method = "files"
           /\ Sources(i) = {} \/ (Sources(i) = {1} /\ call[i].from[1] = NoFolder)
        \/ /\ call[i].method = "messages"
           /\ \E k \in Nat : Sources(i) = {k} /\ call[i].from[k] = call[i].src
    BY <1>2, <1>4, OneEntryPieces DEF ToldInv
  <1>7. AddNewCopySource(i) = {}
    <2>1. CASE Sources(i) = {}
      BY <2>1 DEF AddNewCopySource
    <2>2. CASE /\ call[i].method = "messages"
               /\ \E k \in Nat : Sources(i) = {k} /\ call[i].from[k] = call[i].src
      <3>1. PICK k \in Nat : Sources(i) = {k} /\ call[i].from[k] = call[i].src
        BY <2>2
      <3>2. call[i].src # call[i].dst
        BY <1>2, <1>4, <2>2, WellFormedCalls
      <3> QED
        BY <3>1, <3>2 DEF AddNewCopySource
    <2>3. CASE Sources(i) = {1} /\ call[i].from[1] = NoFolder
      <3>1. call[i].dst # NoFolder
        BY <1>2, <1>4, CallFields, FolderAssumption
      <3> QED
        BY <2>3, <3>1 DEF AddNewCopySource
    <2> QED
      BY <1>6, <2>1, <2>2, <2>3
  <1>8. sourceDone' = sourceDone
    <2>1. sourceDone \in [Id -> SUBSET Nat]
      BY DEF ToldInv, TypeOK
    <2> QED
      BY <1>2, <1>3, <1>7, <2>1
  <1>9. /\ \A k : Processed(k)' <=> Processed(k)
        /\ ~Processed(i)
    <2>1. \A k : Processed(k)' <=> Processed(k)
      BY <1>3, <1>5, <1>8 DEF Processed, AllSourcesDone
    <2> QED
      BY <1>2, <1>6, <2>1 DEF Processed, AllSourcesDone
  <1>10. Unissued'
    BY <1>2, <1>3, <1>8 DEF ToldInv, Unissued
  <1>11. Maildir = {} => StopsOnce'
    BY <1>2, <1>3 DEF ToldInv, StopsOnce
  <1>12. StartsOnce => StartsOnce'
    BY <1>3 DEF StartsOnce
  <1>13. StartedIsProcessed'
    <2>1. ~(starts[i] > 0)
      BY <1>2
    <2> QED
      BY <1>2, <1>3, <1>4, <1>9, <2>1 DEF ToldInv, StartedIsProcessed
  <1>14. FirstInFlight'
    <2> SUFFICES ASSUME NEW j \in m_copyRequests', NEW k \in m_copyRequests',
                        k < j, Dst(k) = Dst(j)
                 PROVE  starts[j] = 0
      BY <1>3, <1>5 DEF FirstInFlight
    <2>1. CASE j = i
      BY <1>2, <2>1
    <2>2. CASE j # i
      <3>1. j \in m_copyRequests /\ k # i
        BY <1>2, <1>3, <1>4, <2>2
      <3> QED
        BY <1>3, <3>1 DEF ToldInv, FirstInFlight
    <2> QED
      BY <2>1, <2>2
  <1>15. CopiedPieces' /\ OkMeansCopied'
    BY <1>2, <1>3, <1>5 DEF ToldInv, CopiedPieces, OkMeansCopied
  <1>16. ASSUME ~QueueRequest(i) PROVE \E k \in m_copyRequests : Dst(k) = Dst(i)
    BY <1>6, <1>16 DEF QueueRequest
  <1>17. ToldInv'
    <2>1. UnreportedStarted'
      BY <1>2, <1>3 DEF ToldInv, UnreportedStarted
    <2> QED
      BY <1>10, <1>11, <1>12, <1>13, <1>14, <1>15, <2>1 DEF ToldInv
  <1>18. \/ stack' = Push(DoNextCopyFrame, s)
         \/ stack' = s /\ \E k \in m_copyRequests : Dst(k) = Dst(i)
    BY <1>3, <1>16
  <1> QED
    BY <1>1, <1>2, <1>3, <1>17, <1>18

LEMMA ToldStart ==
  ASSUME OneEntryCalls, ToldInv, TypeOK', DoNextCopyStarts
  PROVE  /\ ToldInv'
         /\ UNCHANGED <<call, issued, m_copyRequests, mCopyState, copied, unreported>>
         /\ \E i \in m_copyRequests :
              /\ First(i, m_copyRequests) /\ starts[i] = 0
              /\ starts'[i] > 0 /\ \A k \in m_copyRequests \ {i} : starts'[k] = starts[k]
              /\ \/ \E k \in Sources(i) :
                      stack' = Push(CopyMessagesFrame(i, k, call[i].src, Dst(i)), Below)
                 \/ /\ call[i].method = "files"
                    /\ stack' = Push(CopyFileMessageFrame(i), Below)
  <1>1. PICK i \in m_copyRequests :
          /\ NextToStart(i)
          /\ starts' = [starts EXCEPT ![i] = @ + 1]
          /\ m_processed' = MarkStarted(i)
          /\ StartSource(i) \/ StartPlainFile(i)
    BY DEF DoNextCopyStarts
  <1>2. UNCHANGED <<call, issued, m_copyRequests, mCopyState, copied, stops, result, unreported>>
    BY DEF DoNextCopyStarts
  <1>3. /\ i \in Id /\ i \in Nat /\ i \in 1..issued
        /\ m_copyRequests \subseteq Id /\ m_copyRequests \subseteq Nat
        /\ starts \in [Id -> Nat]
        /\ DOMAIN sourceDone = Id
        /\ ~NothingSelected(call[i])
    BY ToldFacts DEF ToldInv, StartedIsProcessed
  <1>4. starts[i] = 0
    <2>1. ~(starts[i] > 0)
      BY <1>1 DEF NextToStart, Startable, ToldInv, StartedIsProcessed
    <2> QED
      BY <1>3, <2>1
  <1>5. First(i, m_copyRequests)
    <2>1. \A k \in m_copyRequests : k < i => Dst(k) # Dst(i)
      BY <1>1, <1>3, FirstOfTarget DEF ToldInv
    <2> QED
      BY <2>1 DEF First
  <1>6. \/ call[i].method = "files" /\ (Sources(i) = {} \/ Sources(i) = {1})
        \/ /\ call[i].method = "messages"
           /\ \E k \in Nat : Sources(i) = {k} /\ call[i].from[k] = call[i].src
    BY <1>3, OneEntryPieces DEF ToldInv
  <1>7. /\ \A k \in m_copyRequests : k # i => starts'[k] = starts[k]
        /\ \A k \in Id : k # i => starts'[k] = starts[k]
        /\ starts'[i] = 1 /\ 1 > 0
    BY <1>1, <1>3, <1>4
  <1>8. \A k : Dst(k)' = Dst(k) /\ Sources(k)' = Sources(k) /\ Pieces(k)' = Pieces(k)
    BY <1>2, SamePieces
  <1>9. \A k \in Id : k # i => sourceDone'[k] = sourceDone[k] /\ (k \in m_processed' <=> k \in m_processed)
    BY <1>1, <1>3 DEF MarkStarted, StartSource, StartPlainFile
  <1>10. \/ \E k \in Sources(i) :
             /\ stack' = Push(CopyMessagesFrame(i, k, call[i].src, Dst(i)), Below)
             /\ Sources(i) = {k} /\ k \in sourceDone'[i]
         \/ /\ call[i].method = "files" /\ i \in m_processed'
            /\ stack' = Push(CopyFileMessageFrame(i), Below)
    <2>1. CASE call[i].method = "files"
      BY <1>1, <2>1 DEF StartSource, StartPlainFile, MarkStarted
    <2>2. CASE /\ call[i].method = "messages"
               /\ \E k \in Nat : Sources(i) = {k} /\ call[i].from[k] = call[i].src
      <3>1. PICK k \in Nat : Sources(i) = {k} /\ call[i].from[k] = call[i].src
        BY <2>2
      <3>2. /\ stack' = Push(CopyMessagesFrame(i, k, call[i].from[k], Dst(i)), Below)
            /\ sourceDone' = [sourceDone EXCEPT ![i] = @ \cup {k}]
        BY <1>1, <2>2, <3>1 DEF StartSource, StartPlainFile
      <3> QED
        BY <1>3, <3>1, <3>2
    <2> QED
      BY <1>6, <2>1, <2>2
  <1>11. Processed(i)'
    BY <1>8, <1>10 DEF Processed, AllSourcesDone
  <1>12. \A k \in m_copyRequests : k # i => (Processed(k)' <=> Processed(k))
    BY <1>3, <1>8, <1>9 DEF Processed, AllSourcesDone
  <1>13. StartedIsProcessed'
    BY <1>2, <1>7, <1>11, <1>12 DEF ToldInv, StartedIsProcessed
  <1>14. FirstInFlight'
    <2> SUFFICES ASSUME NEW j \in m_copyRequests, NEW k \in m_copyRequests,
                        k < j, Dst(k) = Dst(j)
                 PROVE  starts'[j] = 0
      BY <1>2, <1>8 DEF FirstInFlight
    <2>1. j # i
      BY <1>5 DEF First
    <2> QED
      BY <1>7, <2>1 DEF ToldInv, FirstInFlight
  <1>15. Unissued'
    <2>1. \A k \in Id : k > issued => k # i
      BY <1>3, ToldFacts DEF ToldInv
    <2> SUFFICES ASSUME NEW k \in Id, k > issued
                 PROVE  starts'[k] = 0 /\ sourceDone'[k] = {} /\ k \notin m_processed'
      BY <1>2 DEF Unissued
    <2>2. starts[k] = 0 /\ sourceDone[k] = {} /\ k \notin m_processed /\ k # i
      BY <2>1 DEF ToldInv, Unissued
    <2> QED
      BY <1>7, <1>9, <2>2
  <1>16. CopiedPieces' /\ OkMeansCopied'
    BY <1>2, <1>8 DEF ToldInv, CopiedPieces, OkMeansCopied
  <1>17. Maildir = {} => StopsOnce' /\ StartsOnce'
    <2>1. StopsOnce => StopsOnce'
      BY <1>2 DEF StopsOnce
    <2>2. StartsOnce => StartsOnce'
      BY <1>2, <1>4, <1>7 DEF StartsOnce
    <2> QED
      BY <2>1, <2>2 DEF ToldInv
  <1>18. ToldInv'
    <2>1. UnreportedStarted'
      BY <1>2, <1>7 DEF ToldInv, TypeOK, UnreportedStarted
    <2> QED
      BY <1>13, <1>14, <1>15, <1>16, <1>17, <2>1 DEF ToldInv
  <1> QED
    BY <1>2, <1>4, <1>5, <1>7, <1>10, <1>18

-----------------------------------------------------------------------------
(***************************************************************************)
(* The frames below the running call.                                      *)
(***************************************************************************)
LEMMA SettledKind ==
  ASSUME NEW fr, NEW n, NEW q, NEW c, Settled(fr, n, q, c)
  PROVE  /\ fr.kind \notin {"CopyFolder returns", "DoNextCopy", "CopyMessages",
                           "CopyFileMessage", "CopyFolder", "destructor"}
         /\ fr.kind = "NotifyCompletion" =>
              fr.kind \notin {"result", "OnStopCopy"} /\ ~IsStoreReturn(fr) /\ ~IsFileReturn(fr)
         /\ IsStoreReturn(fr) =>
              /\ fr.kind \notin {"result", "OnStopCopy", "NotifyCompletion"}
              /\ ~IsFileReturn(fr)
         /\ IsFileReturn(fr) => fr.kind \notin {"result", "OnStopCopy", "NotifyCompletion"}
  <1>1. \/ fr.kind = "NotifyCompletion" \/ fr.kind = "store CopyMessages returns"
        \/ fr.kind = "CopyFileMessage returns" \/ fr.kind = "result" \/ fr.kind = "OnStopCopy"
    BY DEF Settled, IsStoreReturn, IsFileReturn
  <1> QED
    BY <1>1 DEF IsStoreReturn, IsFileReturn

LEMMA SettledGrows ==
  ASSUME NEW s, NEW n \in Nat, NEW q, NEW c, NEW n2 \in Nat, NEW q2, NEW c2,
         AllSettled(s, n, q, c), n <= n2,
         \A i \in 1..n : i \notin q => i \notin q2,
         \A i \in 1..n : Arrived(i, c) => Arrived(i, c2)
  PROVE  AllSettled(s, n2, q2, c2)
  <1> SUFFICES ASSUME NEW p \in DOMAIN s PROVE Settled(s[p], n2, q2, c2)
    BY DEF AllSettled
  <1>1. PICK fr : fr = s[p]
    OBVIOUS
  <1>2. Settled(fr, n, q, c)
    BY <1>1 DEF AllSettled
  <1>3. \A i \in 1..n : i \in 1..n2
    OBVIOUS
  <1>4. CASE fr.kind = "NotifyCompletion" /\ \E i \in 1..n : EndsOf(i, fr) /\ i \notin q
    BY <1>1, <1>3, <1>4 DEF Settled
  <1>5. CASE IsStoreReturn(fr) /\ Maildir # {} /\ fr.owner \in 1..n /\ Arrived(fr.owner, c)
    BY <1>1, <1>3, <1>5 DEF Settled
  <1>6. CASE IsFileReturn(fr) /\ ~OneSourceCalls /\ fr.owner \in (1..n) \ q
    BY <1>1, <1>3, <1>6 DEF Settled
  <1>7. CASE fr.kind = "result" /\ ~OneSourceCalls
    BY <1>1, <1>7 DEF Settled
  <1>8. CASE fr.kind = "OnStopCopy"
    BY <1>1, <1>8 DEF Settled
  <1> QED
    BY <1>2, <1>4, <1>5, <1>6, <1>7, <1>8 DEF Settled

LEMMA SettledPush ==
  ASSUME NEW s \in Seq(Frame), NEW fr \in Frame, NEW n, NEW q, NEW c,
         AllSettled(s, n, q, c), Settled(fr, n, q, c)
  PROVE  AllSettled(Push(fr, s), n, q, c)
  <1>1. PICK t : t = Push(fr, s)
    OBVIOUS
  <1>2. /\ t[1] = fr
        /\ \A p \in DOMAIN t : p = 1 \/ (p - 1 \in DOMAIN s /\ t[p] = s[p - 1])
    BY <1>1, PushFields
  <1> QED
    BY <1>1, <1>2 DEF AllSettled

LEMMA SettledPop ==
  ASSUME NEW s \in Seq(Frame), s # <<>>, NEW n, NEW q, NEW c, AllSettled(s, n, q, c)
  PROVE  Settled(Head(s), n, q, c) /\ AllSettled(Tail(s), n, q, c)
  <1>1. /\ 1 \in DOMAIN s /\ Head(s) = s[1]
        /\ \A p \in DOMAIN Tail(s) : p + 1 \in DOMAIN s /\ Tail(s)[p] = s[p + 1]
    OBVIOUS
  <1> QED
    BY <1>1 DEF AllSettled

LEMMA NoneSettled == \A n, q, c : AllSettled(<<>>, n, q, c)
  BY DEF AllSettled

(***************************************************************************)
(* A NotifyCompletion that has cleared its request clears no other.        *)
(***************************************************************************)
LEMMA NoMatch ==
  ASSUME NoTwinCalls, TypeOK, NEW fr, NEW c, fr.kind = "NotifyCompletion",
         Settled(fr, issued, m_copyRequests, c),
         NEW i \in m_copyRequests, EndsOf(i, fr)
  PROVE  FALSE
  <1>1. PICK k \in 1..issued : EndsOf(k, fr) /\ k \notin m_copyRequests
    BY SettledKind DEF Settled, IsStoreReturn, IsFileReturn
  <1>2. k \in Id /\ i \in Id /\ call \in Scripts
    <2>1. issued \in 0..MaxRequests
      BY DEF TypeOK
    <2> QED
      BY <2>1, ToldFacts, MaxRequestsAssumption DEF Id
  <1> QED
    BY <1>1, <1>2 DEF EndsOf, NoTwinCalls, Dst

LEMMA EnoughPush ==
  ASSUME NEW s \in Seq(Frame), NEW fr \in Frame, NEW q, IsFiniteSet(q), NEW st,
         Enough(s, q, st)
  PROVE  Enough(Push(fr, s), q, st)
  <1>1. PICK h \in Nat : h = Cardinality(Heads(q, st))
    BY HeadsFinite
  <1>2. PICK w \in Nat : w = Cardinality(Wakers(s))
    BY WakersPush
  <1>3. Cardinality(Wakers(Push(fr, s))) = w + 1 \/ Cardinality(Wakers(Push(fr, s))) = w
    BY <1>2, WakersPush
  <1> QED
    BY <1>1, <1>2, <1>3 DEF Enough

LEMMA YieldingSettled ==
  ASSUME NEW s \in Seq(Frame), NEW n, NEW q, NEW c, AllSettled(s, n, q, c), NEW ok \in BOOLEAN
  PROVE  /\ Yielding(ok, s) \in Seq(Frame)
         /\ AllSettled(Yielding(ok, s), n, q, c)
         /\ \A q2, st : IsFiniteSet(q2) /\ Enough(s, q2, st) => Enough(Yielding(ok, s), q2, st)
         /\ \/ Yielding(ok, s) = s
            \/ ~OneSourceCalls /\ Yielding(ok, s) = Push(ResultFrame(ok), s)
  <1>1. PICK fr \in Frame : fr = ResultFrame(ok) /\ fr.kind = "result"
    BY FrameTypes DEF ResultFrame
  <1>2. \/ Yielding(ok, s) = s
        \/ s # <<>> /\ IsFileReturn(Head(s)) /\ Yielding(ok, s) = Push(fr, s)
    <2>1. s # <<>> => Head(s).kind # "CopyFolder returns"
      BY SettledPop, SettledKind
    <2> QED
      BY <1>1, <2>1 DEF Yielding, IsFileReturn
  <1>3. CASE Yielding(ok, s) = s
    BY <1>3
  <1>4. CASE s # <<>> /\ IsFileReturn(Head(s)) /\ Yielding(ok, s) = Push(fr, s)
    <2>1. Settled(Head(s), n, q, c)
      BY <1>4, SettledPop
    <2>2. ~OneSourceCalls
      BY <1>4, <2>1, SettledKind DEF Settled
    <2>3. Settled(fr, n, q, c)
      BY <1>1, <2>2 DEF Settled
    <2> QED
      BY <1>1, <1>4, <2>2, <2>3, PushType, SettledPush, EnoughPush
  <1> QED
    BY <1>2, <1>3, <1>4

LEMMA NoHeads ==
  ASSUME NEW s \in Seq(Frame), NEW q, NEW st, Heads(q, st) = {}
  PROVE  Enough(s, q, st)
  <1>1. Cardinality({}) = 0
    BY FS_EmptySet
  <1> QED
    BY <1>1, WakersPush, FrameTypes DEF Enough

LEMMA SameHeads ==
  ASSUME NEW q, NEW st, NEW st2, \A k \in q : st2[k] = 0 <=> st[k] = 0
  PROVE  /\ Heads(q, st2) = Heads(q, st)
         /\ \A s : Enough(s, q, st2) <=> Enough(s, q, st)
  <1>1. Heads(q, st2) = Heads(q, st)
    BY DEF Heads
  <1> QED
    BY <1>1 DEF Enough

(***************************************************************************)
(* The state that a step leads to.                                         *)
(***************************************************************************)
LEMMA StackNext ==
  ASSUME call' = call
  PROVE  /\ \A fr, n, q, c : Settled(fr, n, q, c)' <=> Settled(fr, n, q, c)
         /\ \A s, n, q, c : AllSettled(s, n, q, c)' <=> AllSettled(s, n, q, c)
         /\ \A s, q, st : Enough(s, q, st)' <=> Enough(s, q, st)
  <1>1. \A fr, n, q, c : Settled(fr, n, q, c)' <=> Settled(fr, n, q, c)
    BY DEF Settled, EndsOf, Arrived, IsStoreReturn, IsFileReturn, Pieces, Sources, Dst
  <1>2. \A s, n, q, c : AllSettled(s, n, q, c)' <=> AllSettled(s, n, q, c)
    BY <1>1 DEF AllSettled
  <1>3. \A q, st : Heads(q, st)' = Heads(q, st)
    BY DEF Heads, First, Dst
  <1>4. \A s, q, st : Enough(s, q, st)' <=> Enough(s, q, st)
    BY <1>3 DEF Enough
  <1> QED
    BY <1>1, <1>2, <1>4

LEMMA PushedTop ==
  ASSUME NEW s, NEW fr, s \in Seq(Frame), stack' = Push(fr, s)
  PROVE  /\ stack' # <<>> /\ Top' = fr /\ Below' = s
         /\ \A kind : Running(kind)' <=> fr.kind = kind
  <1>1. Push(fr, s) # <<>> /\ Head(Push(fr, s)) = fr /\ Tail(Push(fr, s)) = s
    BY DEF Push
  <1> QED
    BY <1>1 DEF Top, Below, Running

LEMMA IdleNext ==
  ASSUME call' = call, TypeOK', NEW s \in Seq(Frame), OthersBusy(0)',
         AllSettled(s, issued', m_copyRequests', copied'),
         \/ stack' = s
         \/ \E fr \in {DoNextCopyFrame, ListenerFrame} : stack' = Push(fr, s),
         Enough(stack', m_copyRequests', starts')
  PROVE  Idle'
  <1>1. Enough(stack, m_copyRequests, starts)'
    BY StackNext
  <1>2. ASSUME stack' # <<>>
        PROVE  /\ \/ Top'.kind \in {"DoNextCopy", "OnStopCopy"}
                  \/ Settled(Top', issued', m_copyRequests', copied')
               /\ AllSettled(Below', issued', m_copyRequests', copied')
    <2>1. CASE stack' = s
      BY <1>2, <2>1, SettledPop DEF Top, Below
    <2>2. ASSUME NEW fr \in {DoNextCopyFrame, ListenerFrame}, stack' = Push(fr, s)
          PROVE  <1>2!2
      <3>1. Top' = fr /\ Below' = s
        BY <2>2, PushedTop
      <3>2. fr.kind \in {"DoNextCopy", "OnStopCopy"}
        BY DEF DoNextCopyFrame, ListenerFrame
      <3> QED
        BY <3>1, <3>2
    <2> QED
      BY <2>1, <2>2
  <1>3. stack' # <<>> =>
          /\ \/ Top'.kind \in {"DoNextCopy", "OnStopCopy"}
             \/ Settled(Top, issued, m_copyRequests, copied)'
          /\ AllSettled(Below, issued, m_copyRequests, copied)'
    BY <1>2, StackNext
  <1> QED
    BY <1>1, <1>3 DEF Idle

LEMMA IdleTold ==
  ASSUME call' = call, TypeOK', NEW s \in Seq(Frame), OthersBusy(0)',
         AllSettled(s, issued', m_copyRequests', copied'),
         Enough(s, m_copyRequests', starts'),
         NEW i, NEW ok, TellStopped(i, ok, s)
  PROVE  Idle'
  <1>1. stack' = s \/ stack' = Push(ListenerFrame, s)
    BY DEF TellStopped
  <1>2. Enough(Push(ListenerFrame, s), m_copyRequests', starts')
    <2>1. IsFiniteSet(m_copyRequests')
      BY ToldFactsNext
    <2> QED
      BY <2>1, FrameTypes, EnoughPush
  <1>3. Enough(stack', m_copyRequests', starts')
    BY <1>1, <1>2
  <1> QED
    BY <1>1, <1>3, IdleNext

LEMMA AttendsNext ==
  ASSUME call' = call, NEW s \in Seq(Frame), NEW fr, stack' = Push(fr, s),
         Enough(s, m_copyRequests', starts'),
         NEW i \in m_copyRequests', starts'[i] > 0, i \notin unreported',
         ~Busy(Dst(i))', OthersBusy(i)',
         AllSettled(s, issued', m_copyRequests' \ {i}, copied')
  PROVE  Attends(i)'
  <1>1. Below' = s
    BY PushedTop
  <1>2. /\ Enough(Below, m_copyRequests, starts)'
        /\ AllSettled(Below, issued, m_copyRequests \ {i}, copied)'
    BY <1>1, StackNext
  <1>3. InFlight(i)'
    BY DEF InFlight
  <1> QED
    BY <1>2, <1>3 DEF Attends

LEMMA OwnersNext ==
  ASSUME OwnerHasEntry, TypeOK, call' = call,
         \A f \in Folder : Busy(f)' => mCopyState'[f] = mCopyState[f],
         \A i \in m_copyRequests : starts[i] > 0 /\ Busy(Dst(i))' =>
            i \in m_copyRequests' /\ starts'[i] > 0 /\ (i \in unreported' => i \in unreported)
  PROVE  OwnerHasEntry'
  <1>1. \A k : Dst(k)' = Dst(k) /\ Sources(k)' = Sources(k)
    BY SamePieces
  <1>2. \A f \in Folder : Busy(f)' => Busy(f)
    BY DEF Busy
  <1>3. OwnerInFlight'
    <2> SUFFICES ASSUME NEW f \in Folder, NEW k \in Id \cup {0},
                        Busy(f)', mCopyState'[f].owner = k
                 PROVE  InFlight(k)' /\ Dst(k)' = f /\ call'[k].src = mCopyState'[f].srcSupport
      BY DEF OwnerInFlight
    <2>1. mCopyState'[f] = mCopyState[f] /\ Busy(f)
      BY <1>2
    <2>2. InFlight(k) /\ Dst(k) = f /\ call[k].src = mCopyState[f].srcSupport
      BY <2>1 DEF OwnerHasEntry, OwnerInFlight
    <2>3. Busy(Dst(k))'
      BY <1>1, <2>2 DEF Busy
    <2>4. InFlight(k)'
      BY <2>2, <2>3 DEF InFlight
    <2> QED
      BY <1>1, <2>1, <2>2, <2>4
  <1>4. ASSUME NEW f \in Folder, Busy(f)'
        PROVE  /\ (mCopyState[f].entry \in Sources(mCopyState[f].owner))'
               /\ mCopyState'[f].owner \notin unreported'
    <2>1. mCopyState'[f] = mCopyState[f] /\ Busy(f)
      BY <1>2, <1>4
    <2>2. /\ mCopyState'[f].entry \in Sources(mCopyState'[f].owner)
          /\ mCopyState[f].owner \notin unreported
      BY <2>1 DEF OwnerHasEntry
    <2>3. PICK k \in Id \cup {0} : k = mCopyState[f].owner
      BY DEF TypeOK
    <2>4. k \in m_copyRequests /\ starts[k] > 0 /\ Dst(k) = f
      BY <2>1, <2>3 DEF OwnerHasEntry, OwnerInFlight, InFlight
    <2>5. Busy(Dst(k))'
      BY <1>1, <1>4, <2>4 DEF Busy
    <2>6. k \notin unreported'
      BY <2>2, <2>3, <2>4, <2>5
    <2> QED
      BY <1>1, <2>1, <2>2, <2>3, <2>6
  <1> QED
    BY <1>3, <1>4 DEF OwnerHasEntry

(***************************************************************************)
(* A copy that completes leaves its request to NotifyCompletion.           *)
(***************************************************************************)
LEMMA ChainCompletes ==
  ASSUME ToldInv, ToldInv', OwnerHasEntry, UNCHANGED <<call, issued, m_copyRequests, unreported>>,
         NEW i \in m_copyRequests, starts[i] > 0, i \notin unreported, OthersBusy(i),
         NEW s \in Seq(Frame), AllSettled(s, issued, m_copyRequests \ {i}, copied'),
         Enough(s, m_copyRequests, starts),
         NEW ok \in BOOLEAN, ok => Arrived(i, copied'),
         OnCopyCompleted(call[i].src, Dst(i), ok, s),
         \A k \in m_copyRequests : starts'[k] > 0 <=> starts[k] > 0
  PROVE  ChainInv'
  <1>1. /\ i \in Id /\ Dst(i) \in Folder /\ DOMAIN mCopyState = Folder
        /\ m_copyRequests \subseteq Id
        /\ \A k \in m_copyRequests : Dst(k) \in Folder
        /\ starts \in [Id -> Nat] /\ starts' \in [Id -> Nat]
    BY ToldFacts DEF ToldInv, TypeOK
  <1>2. /\ \A k : Dst(k)' = Dst(k) /\ Pieces(k)' = Pieces(k)
        /\ \A k, fr : EndsOf(k, fr)' <=> EndsOf(k, fr)
        /\ \A k : Arrived(k, copied)' <=> Arrived(k, copied')
    BY SamePieces DEF EndsOf, Arrived
  <1>3. PICK fr : fr = NotifyFrame(call[i].src, Dst(i), ok, Cardinality(m_copyRequests))
    OBVIOUS
  <1>4. /\ fr.kind = "NotifyCompletion" /\ fr.ok = ok
        /\ fr.orig = Cardinality(m_copyRequests)
        /\ EndsOf(i, fr)
    BY <1>3 DEF NotifyFrame, EndsOf
  <1>5. /\ stack' = Push(fr, s)
        /\ mCopyState' = [mCopyState EXCEPT ![Dst(i)] = NoCopyState]
    BY <1>3 DEF OnCopyCompleted
  <1>6. /\ ~Busy(Dst(i))'
        /\ \A f \in Folder : Busy(f)' => mCopyState'[f] = mCopyState[f]
        /\ \A f \in Folder : f # Dst(i) => (Busy(f)' <=> Busy(f))
    BY <1>1, <1>2, <1>5 DEF Busy
  <1>7. OthersBusy(i)'
    <2> SUFFICES ASSUME OneSourceCalls, NEW k \in m_copyRequests \ unreported,
                        starts[k] > 0, k # i
                 PROVE  Busy(Dst(k))'
      BY DEF OthersBusy
    <2>1. Dst(k) # Dst(i)
      BY OneInFlight DEF ToldInv
    <2>2. Busy(Dst(k)) /\ Dst(k) \in Folder
      BY <1>1 DEF OthersBusy
    <2> QED
      BY <1>2, <1>6, <2>1, <2>2 DEF Busy
  <1>8. OwnerHasEntry'
    BY <1>2, <1>6, OwnersNext DEF ToldInv
  <1>9. Enough(s, m_copyRequests', starts')
    <2>1. \A k \in m_copyRequests : starts'[k] = 0 <=> starts[k] = 0
      BY <1>1
    <2> QED
      BY <2>1, SameHeads
  <1>10. Attends(i)'
    BY <1>5, <1>6, <1>7, <1>9, AttendsNext
  <1>11. Running("NotifyCompletion")' /\ Top' = fr
    BY <1>4, <1>5, PushedTop
  <1>12. Completing(i)'
    <2>1. EndsOf(i, Top)'
      BY <1>2, <1>4, <1>11 DEF EndsOf
    <2>2. Top'.orig = Cardinality(m_copyRequests') /\ (Top'.ok => Arrived(i, copied)')
      BY <1>2, <1>4, <1>11
    <2> QED
      BY <1>10, <1>11, <2>1, <2>2 DEF Completing
  <1> QED
    BY <1>8, <1>12 DEF ChainInv

-----------------------------------------------------------------------------
(***************************************************************************)
(* The steps, by the call that runs.                                       *)
(***************************************************************************)
LEMMA ChainTop ==
  ASSUME ChainInv, NEW kind, Running(kind), kind # "destructor"
  PROVE  /\ ToldInv /\ TypeOK /\ OwnerHasEntry
         /\ stack = Push(Top, Below) /\ Top \in Frame /\ Below \in Seq(Frame)
         /\ Top.kind = kind
         /\ kind = "NotifyCompletion" \/ AllSettled(Below, issued, m_copyRequests, copied)
         /\ \/ /\ Idle
               /\ AllSettled(Below, issued, m_copyRequests, copied)
               /\ \/ kind \in {"DoNextCopy", "OnStopCopy"}
                  \/ Settled(Top, issued, m_copyRequests, copied)
            \/ /\ kind \in {"CopyMessages", "CopyFileMessage"}
               /\ \E i \in m_copyRequests : Copying(i)
            \/ /\ kind = "NotifyCompletion"
               /\ \E i \in m_copyRequests : Completing(i)
  <1>1. stack \in Seq(Frame) /\ stack # <<>> /\ Top.kind = kind
    BY DEF ChainInv, ToldInv, TypeOK, Running, Top
  <1>2. stack = Push(Top, Below) /\ Top \in Frame /\ Below \in Seq(Frame)
    BY <1>1 DEF Push, Top, Below
  <1>3. stack # <<DestroyFrame>>
    BY <1>1 DEF DestroyFrame, Top
  <1>4. ToldInv /\ OwnerHasEntry /\ (Idle \/ \E i \in m_copyRequests : Copying(i) \/ Completing(i))
    BY <1>3 DEF ChainInv
  <1>5. CASE Idle
    BY <1>1, <1>2, <1>4, <1>5 DEF Idle, ToldInv
  <1>6. ASSUME NEW i \in m_copyRequests, Copying(i)
        PROVE  /\ kind \in {"CopyMessages", "CopyFileMessage"}
               /\ AllSettled(Below, issued, m_copyRequests, copied)
    BY <1>1, <1>6 DEF Copying, Running, Top
  <1>7. ASSUME NEW i \in m_copyRequests, Completing(i)
        PROVE  kind = "NotifyCompletion"
    BY <1>1, <1>7 DEF Completing, Running, Top
  <1> QED
    BY <1>1, <1>2, <1>4, <1>5, <1>6, <1>7 DEF ToldInv

LEMMA EnoughBelow ==
  ASSUME NEW s \in Seq(Frame), NEW fr \in Frame, NEW q, IsFiniteSet(q), NEW st,
         Enough(Push(fr, s), q, st)
  PROVE  /\ fr.kind \notin {"NotifyCompletion", "DoNextCopy"} => Enough(s, q, st)
         /\ Cardinality(Heads(q, st)) <= Cardinality(Wakers(s)) + 1
  <1>1. PICK h \in Nat : h = Cardinality(Heads(q, st))
    BY HeadsFinite
  <1>2. PICK w \in Nat : w = Cardinality(Wakers(s))
    BY WakersPush
  <1>3. PICK p : p = Cardinality(Wakers(Push(fr, s)))
    OBVIOUS
  <1>4. /\ fr.kind \notin {"NotifyCompletion", "DoNextCopy"} => p = w
        /\ p = w + 1 \/ p = w
    BY <1>2, <1>3, WakersPush
  <1>5. h <= p
    BY <1>1, <1>3 DEF Enough
  <1> QED
    BY <1>1, <1>2, <1>4, <1>5 DEF Enough

LEMMA ChainIdle ==
  ASSUME ChainInv, NEW kind, Running(kind), kind \in {"DoNextCopy", "OnStopCopy"}
  PROVE  /\ Idle
         /\ kind = "OnStopCopy" => Enough(Below, m_copyRequests, starts)
         /\ Cardinality(Heads(m_copyRequests, starts)) <= Cardinality(Wakers(Below)) + 1
  <1>1. /\ Idle
        /\ Top \in Frame /\ Below \in Seq(Frame) /\ TypeOK
        /\ Enough(Push(Top, Below), m_copyRequests, starts)
        /\ Top.kind = kind
    BY ChainTop DEF Idle
  <1>2. IsFiniteSet(m_copyRequests)
    BY <1>1, ToldFacts
  <1> QED
    BY <1>1, <1>2, EnoughBelow

LEMMA BusyKept ==
  ASSUME OthersBusy(0), TypeOK, UNCHANGED <<call, mCopyState, unreported>>,
         \A k \in m_copyRequests' : starts'[k] > 0 => k \in m_copyRequests /\ starts[k] > 0
  PROVE  OthersBusy(0)'
  <1>1. \A k : Dst(k)' = Dst(k) /\ (Busy(Dst(k))' <=> Busy(Dst(k)))
    BY SamePieces DEF Busy
  <1>2. 0 \notin m_copyRequests
    BY ToldFacts
  <1> QED
    BY <1>1, <1>2 DEF OthersBusy

LEMMA OwnersKept ==
  ASSUME OwnerHasEntry, TypeOK, UNCHANGED <<call, mCopyState, unreported>>,
         \A i \in m_copyRequests : starts[i] > 0 => i \in m_copyRequests' /\ starts'[i] > 0
  PROVE  OwnerHasEntry'
  BY OwnersNext

LEMMA ChainReturns ==
  ASSUME ChainInv, ToldInv', NEW kind, Running(kind), kind \in {"DoNextCopy", "OnStopCopy"},
         stack' = Below, UNCHANGED <<call, queueVars, mCopyState, starts, copied, unreported>>,
         Enough(Below, m_copyRequests, starts)
  PROVE  ChainInv'
  <1>1. UNCHANGED <<issued, m_copyRequests>>
    BY DEF queueVars
  <1>2. /\ Idle /\ OwnerHasEntry /\ TypeOK /\ Below \in Seq(Frame)
        /\ AllSettled(Below, issued', m_copyRequests', copied')
    BY <1>1, ChainTop, ChainIdle
  <1>3. OthersBusy(0)'
    BY <1>1, <1>2, BusyKept DEF Idle
  <1>4. Idle'
    BY <1>1, <1>2, <1>3, IdleNext DEF ToldInv
  <1>5. OwnerHasEntry'
    BY <1>1, <1>2, OwnersKept
  <1> QED
    BY <1>4, <1>5 DEF ChainInv

LEMMA ChainFindsNone ==
  ASSUME ChainInv, TypeOK', DoNextCopyFindsNone
  PROVE  ChainInv'
  <1>1. /\ Running("DoNextCopy") /\ stack' = Below
        /\ UNCHANGED <<call, queueVars, listenerVars, mCopyState, starts, copied, unreported>>
        /\ \A i \in m_copyRequests : ~Startable(i)
    BY DEF DoNextCopyFindsNone, Return, listenerVars
  <1>2. ToldInv /\ TypeOK /\ Below \in Seq(Frame)
    BY <1>1, ChainTop
  <1>3. Heads(m_copyRequests, starts) = {}
    <2> SUFFICES ASSUME NEW i \in Heads(m_copyRequests, starts) PROVE FALSE
      OBVIOUS
    <2>1. i \in m_copyRequests /\ First(i, m_copyRequests) /\ ~(starts[i] > 0)
      BY DEF Heads
    <2>2. ~Processed(i) /\ ~ActiveTarget(i)
      BY <1>2, <2>1 DEF ToldInv, StartedIsProcessed, ActiveTarget, First
    <2> QED
      BY <1>1, <2>1, <2>2 DEF Startable
  <1>4. Enough(Below, m_copyRequests, starts)
    BY <1>2, <1>3, NoHeads
  <1>5. ToldInv'
    BY <1>1, <1>2, ToldSame
  <1> QED
    BY <1>1, <1>4, <1>5, ChainReturns

LEMMA ChainListenerReturns ==
  ASSUME ChainInv, TypeOK', ListenerReturns
  PROVE  ChainInv'
  <1>1. /\ Running("OnStopCopy") /\ stack' = Below
        /\ UNCHANGED <<call, queueVars, listenerVars, mCopyState, starts, copied, unreported>>
    BY DEF ListenerReturns, Return, listenerVars
  <1>2. ToldInv'
    BY <1>1, ToldSame DEF ChainInv
  <1> QED
    BY <1>1, <1>2, ChainIdle, ChainReturns

LEMMA ChainMakesCall ==
  ASSUME OneEntryCalls, ToldInv, OwnerHasEntry, OthersBusy(0), TypeOK',
         NEW s \in Seq(Frame), AllSettled(s, issued, m_copyRequests, copied),
         Enough(s, m_copyRequests, starts), MakeCall(s)
  PROVE  ChainInv'
  <1>1. /\ TypeOK /\ issued \in Nat /\ issued' = issued + 1
        /\ issued + 1 \notin 1..issued /\ issued <= issued + 1
        /\ m_copyRequests \subseteq Nat /\ m_copyRequests \subseteq 1..issued
        /\ IsFiniteSet(m_copyRequests)
    BY ToldFacts DEF ToldInv, MakeCall
  <1>2. CASE NothingSelected(call[issued + 1])
    <2>1. /\ ToldInv'
          /\ UNCHANGED <<call, mCopyState, copied, m_copyRequests, unreported>>
          /\ \A k \in m_copyRequests : starts'[k] = starts[k]
          /\ \E i : TellStopped(i, TRUE, s)
      BY <1>2, ToldNothing
    <2>2. AllSettled(s, issued', m_copyRequests', copied')
      <3>1. PICK n \in Nat : n = issued /\ issued' \in Nat /\ n <= issued'
        BY <1>1
      <3> QED
        BY <2>1, <3>1, SettledGrows
    <2>3. Enough(s, m_copyRequests', starts')
      <3>1. \A k \in m_copyRequests : starts'[k] = 0 <=> starts[k] = 0
        BY <2>1
      <3> QED
        BY <2>1, <3>1, SameHeads
    <2>4. OthersBusy(0)'
      BY <1>1, <2>1, BusyKept
    <2>5. Idle'
      BY <2>1, <2>2, <2>3, <2>4, IdleTold
    <2>6. OwnerHasEntry'
      BY <1>1, <2>1, OwnersKept
    <2> QED
      BY <2>1, <2>5, <2>6 DEF ChainInv
  <1>3. CASE ~NothingSelected(call[issued + 1])
    <2>1. /\ ToldInv'
          /\ UNCHANGED <<call, mCopyState, copied, starts, unreported>>
      BY <1>3, ToldCall
    <2>2. PICK i \in Nat :
            /\ i = issued + 1 /\ \A k \in m_copyRequests : k < i
            /\ starts[i] = 0
            /\ m_copyRequests' = m_copyRequests \cup {i}
            /\ \/ stack' = Push(DoNextCopyFrame, s)
               \/ stack' = s /\ \E k \in m_copyRequests : Dst(k) = Dst(i)
      BY <1>3, ToldCall
    <2>3. AllSettled(s, issued', m_copyRequests', copied')
      <3>1. PICK n \in Nat : n = issued /\ issued' \in Nat /\ n <= issued'
        BY <1>1
      <3>2. \A k \in 1..n : k \notin m_copyRequests => k \notin m_copyRequests'
        BY <1>1, <2>2, <3>1
      <3> QED
        BY <2>1, <3>1, <3>2, SettledGrows
    <2>4. Enough(stack', m_copyRequests', starts')
      <3>1. PICK h \in Nat : h = Cardinality(Heads(m_copyRequests, starts))
        BY <1>1, HeadsFinite
      <3>2. PICK w \in Nat : w = Cardinality(Wakers(s))
        BY WakersPush, FrameTypes
      <3>3. h <= w
        BY <3>1, <3>2 DEF Enough
      <3>4. PICK h2 \in Nat : h2 = Cardinality(Heads(m_copyRequests \cup {i}, starts))
        <4>1. IsFiniteSet(m_copyRequests \cup {i})
          BY <2>1, <2>2, ToldFactsNext
        <4> QED
          BY <4>1, HeadsFinite
      <3>5. /\ h2 <= h + 1
            /\ (\E k \in m_copyRequests : Dst(k) = Dst(i)) => h2 <= h
        BY <1>1, <2>2, <3>1, <3>4, HeadsCall
      <3>6. CASE stack' = Push(DoNextCopyFrame, s)
        <4>1. Cardinality(Wakers(Push(DoNextCopyFrame, s))) = w + 1
          <5>1. DoNextCopyFrame.kind = "DoNextCopy" /\ DoNextCopyFrame \in Frame
            BY FrameTypes DEF DoNextCopyFrame
          <5> QED
            BY <3>2, <5>1, WakersPush
        <4> QED
          BY <2>1, <2>2, <3>3, <3>4, <3>5, <3>6, <4>1 DEF Enough
      <3>7. CASE stack' = s /\ \E k \in m_copyRequests : Dst(k) = Dst(i)
        <4>1. h2 <= w
          BY <3>3, <3>5, <3>7
        <4> QED
          BY <2>1, <2>2, <3>2, <3>4, <3>7, <4>1 DEF Enough
      <3> QED
        BY <2>2, <3>6, <3>7
    <2>5. OthersBusy(0)'
      <3>1. \A k \in m_copyRequests' : starts'[k] > 0 => k \in m_copyRequests /\ starts[k] > 0
        BY <2>1, <2>2
      <3> QED
        BY <1>1, <2>1, <3>1, BusyKept
    <2>6. Idle'
      BY <2>1, <2>2, <2>3, <2>4, <2>5, IdleNext
    <2>7. OwnerHasEntry'
      BY <1>1, <2>1, <2>2, OwnersKept
    <2> QED
      BY <2>1, <2>6, <2>7 DEF ChainInv
  <1> QED
    BY <1>2, <1>3

(***************************************************************************)
(* With no call in progress.                                               *)
(***************************************************************************)
LEMMA ChainRest ==
  ASSUME ChainInv, stack = <<>>
  PROVE  ToldInv /\ OwnerHasEntry /\ Idle /\ OthersBusy(0) /\ Enough(<<>>, m_copyRequests, starts)
  <1>1. stack # <<DestroyFrame>> /\ \A kind : ~Running(kind)
    BY DEF Running
  <1>2. ToldInv /\ OwnerHasEntry /\ Idle
    BY <1>1 DEF ChainInv, Copying, Completing
  <1> QED
    BY <1>2 DEF Idle

LEMMA ChainUserCall ==
  ASSUME OneEntryCalls, ChainInv, TypeOK', UserCall
  PROVE  ChainInv'
  <1>1. stack = <<>> /\ MakeCall(<<>>)
    BY DEF UserCall
  <1>2. <<>> \in Seq(Frame)
    OBVIOUS
  <1> QED
    BY <1>1, <1>2, ChainRest, ChainMakesCall, NoneSettled

LEMMA ChainListenerCalls ==
  ASSUME OneEntryCalls, ChainInv, TypeOK', ListenerCalls
  PROVE  ChainInv'
  <1>1. Running("OnStopCopy") /\ MakeCall(stack)
    BY DEF ListenerCalls
  <1>2. /\ ToldInv /\ OwnerHasEntry /\ Idle /\ OthersBusy(0)
        /\ stack = Push(Top, Below) /\ Top \in Frame /\ Below \in Seq(Frame)
        /\ Top.kind = "OnStopCopy"
        /\ AllSettled(Below, issued, m_copyRequests, copied)
        /\ Enough(stack, m_copyRequests, starts)
    BY <1>1, ChainTop, ChainIdle DEF Idle
  <1>3. Settled(Top, issued, m_copyRequests, copied)
    BY <1>2 DEF Settled
  <1>4. stack \in Seq(Frame) /\ AllSettled(stack, issued, m_copyRequests, copied)
    BY <1>2, <1>3, PushType, SettledPush
  <1> QED
    BY <1>1, <1>2, <1>4, ChainMakesCall

LEMMA ChainStarts ==
  ASSUME OneEntryCalls, ChainInv, TypeOK', DoNextCopyStarts
  PROVE  ChainInv'
  <1>1. Running("DoNextCopy")
    BY DEF DoNextCopyStarts
  <1>2. /\ ToldInv /\ TypeOK /\ OwnerHasEntry /\ Idle /\ OthersBusy(0)
        /\ Below \in Seq(Frame)
        /\ AllSettled(Below, issued, m_copyRequests, copied)
        /\ Cardinality(Heads(m_copyRequests, starts)) <= Cardinality(Wakers(Below)) + 1
    BY <1>1, ChainTop, ChainIdle DEF Idle
  <1>3. /\ ToldInv'
        /\ UNCHANGED <<call, issued, m_copyRequests, mCopyState, copied, unreported>>
    BY <1>2, ToldStart
  <1>4. PICK i \in m_copyRequests :
          /\ First(i, m_copyRequests) /\ starts[i] = 0
          /\ starts'[i] > 0 /\ \A k \in m_copyRequests \ {i} : starts'[k] = starts[k]
          /\ \/ \E k \in Sources(i) :
                  stack' = Push(CopyMessagesFrame(i, k, call[i].src, Dst(i)), Below)
             \/ call[i].method = "files" /\ stack' = Push(CopyFileMessageFrame(i), Below)
    BY <1>2, ToldStart
  <1>5. /\ m_copyRequests \subseteq Id /\ m_copyRequests \subseteq Nat
        /\ issued \in Nat /\ issued <= issued
        /\ IsFiniteSet(m_copyRequests) /\ i \in Id /\ Dst(i) \in Folder
        /\ starts \in [Id -> Nat] /\ starts' \in [Id -> Nat]
        /\ 0 \notin m_copyRequests /\ i \notin unreported
    <2>1. i \notin unreported
      <3>1. ~(starts[i] > 0)
        BY <1>4
      <3> QED
        BY <1>2, <3>1 DEF ToldInv, UnreportedStarted
    <2> QED
      BY <1>2, <1>3, <2>1, ToldFacts DEF ToldInv, TypeOK
  <1>6. \A k : Dst(k)' = Dst(k) /\ Sources(k)' = Sources(k) /\ (Busy(Dst(k))' <=> Busy(Dst(k)))
    BY <1>3, SamePieces DEF Busy
  <1>7. ~Busy(Dst(i))
    <2> SUFFICES ASSUME Busy(Dst(i)) PROVE FALSE
      OBVIOUS
    <2>1. PICK k \in Id \cup {0} : mCopyState[Dst(i)].owner = k
      BY <1>2, <1>5 DEF TypeOK
    <2>2. k \in m_copyRequests /\ starts[k] > 0 /\ Dst(k) = Dst(i)
      BY <1>5, <2>1, <1>2 DEF OwnerHasEntry, OwnerInFlight, InFlight
    <2>3. k # i
      BY <1>4, <2>2
    <2>4. ~(k < i)
      BY <1>4, <2>2 DEF First
    <2>5. i < k
      BY <1>5, <2>2, <2>3, <2>4
    <2> QED
      BY <1>2, <2>2, <2>5 DEF ToldInv, FirstInFlight
  <1>8. Enough(Below, m_copyRequests', starts')
    <2>1. PICK h \in Nat : h = Cardinality(Heads(m_copyRequests, starts))
      BY <1>5, HeadsFinite
    <2>2. PICK w \in Nat : w = Cardinality(Wakers(Below))
      BY <1>2, WakersPush, FrameTypes
    <2>3. Cardinality(Heads(m_copyRequests, starts')) = h - 1
      <3>1. i \in Heads(m_copyRequests, starts) /\ starts'[i] # 0
        BY <1>4, <1>5 DEF Heads
      <3> QED
        BY <1>4, <1>5, <2>1, <3>1, HeadsStart
    <2>4. h <= w + 1
      BY <1>2, <2>1, <2>2
    <2> QED
      BY <1>3, <2>1, <2>2, <2>3, <2>4 DEF Enough
  <1>9. OthersBusy(i)'
    BY <1>2, <1>3, <1>4, <1>5, <1>6 DEF OthersBusy
  <1>10. /\ AllSettled(Below, issued', m_copyRequests', copied')
         /\ AllSettled(Below, issued', m_copyRequests' \ {i}, copied')
    BY <1>2, <1>3, <1>5, SettledGrows
  <1>11. OwnerHasEntry'
    <2>1. \A k \in m_copyRequests : starts[k] > 0 => k \in m_copyRequests' /\ starts'[k] > 0
      BY <1>3, <1>4
    <2> QED
      BY <1>2, <1>3, <2>1, OwnersKept
  <1>12. \A fr : stack' = Push(fr, Below) => Attends(i)'
    BY <1>2, <1>3, <1>4, <1>5, <1>6, <1>7, <1>8, <1>9, <1>10, AttendsNext
  <1>13. Copying(i)'
    <2>1. ASSUME NEW k \in Sources(i),
                 stack' = Push(CopyMessagesFrame(i, k, call[i].src, Dst(i)), Below)
          PROVE  Copying(i)'
      <3>1. PICK fr : fr = CopyMessagesFrame(i, k, call[i].src, Dst(i))
        OBVIOUS
      <3>2. /\ fr.kind = "CopyMessages" /\ fr.owner = i /\ fr.entry = k
            /\ fr.sup = call[i].src /\ fr.dst = Dst(i)
        BY <3>1 DEF CopyMessagesFrame
      <3>3. Running("CopyMessages")' /\ Top' = fr
        BY <1>2, <2>1, <3>1, <3>2, PushedTop
      <3>4. EndsOf(i, Top)'
        BY <1>3, <1>6, <3>2, <3>3 DEF EndsOf
      <3>5. Top'.entry \in Sources(i)'
        BY <1>6, <3>2, <3>3
      <3>6. AllSettled(Below, issued, m_copyRequests, copied)'
        BY <1>2, <1>10, <2>1, <3>1, PushedTop, StackNext, <1>3
      <3> QED
        BY <1>12, <2>1, <3>2, <3>3, <3>4, <3>5, <3>6 DEF Copying
    <2>2. ASSUME call[i].method = "files", stack' = Push(CopyFileMessageFrame(i), Below)
          PROVE  Copying(i)'
      <3>1. PICK fr : fr = CopyFileMessageFrame(i)
        OBVIOUS
      <3>2. fr.kind = "CopyFileMessage" /\ fr.owner = i
        BY <3>1 DEF CopyFileMessageFrame
      <3>3. Running("CopyFileMessage")' /\ Top' = fr
        BY <1>2, <2>2, <3>1, <3>2, PushedTop
      <3>4. AllSettled(Below, issued, m_copyRequests, copied)'
        BY <1>2, <1>10, <2>2, <3>1, PushedTop, StackNext, <1>3
      <3> QED
        BY <1>3, <1>12, <2>2, <3>2, <3>3, <3>4 DEF Copying
    <2> QED
      BY <1>4, <2>1, <2>2
  <1> QED
    BY <1>3, <1>11, <1>13 DEF ChainInv

(***************************************************************************)
(* The folder copies, and is done at once or streams.                      *)
(***************************************************************************)
LEMMA ChainCopy ==
  ASSUME ChainInv, NEW kind, Running(kind), kind \in {"CopyMessages", "CopyFileMessage"}
  PROVE  /\ Top.owner \in m_copyRequests
         /\ Copying(Top.owner)
         /\ kind = "CopyMessages" =>
              EndsOf(Top.owner, Top) /\ Top.entry \in Sources(Top.owner)
         /\ kind = "CopyFileMessage" => call[Top.owner].method = "files"
  <1>1. Top.kind = kind /\ kind \notin {"DoNextCopy", "OnStopCopy", "NotifyCompletion", "destructor"}
    BY DEF Running, Top
  <1>2. ~Settled(Top, issued, m_copyRequests, copied)
    BY <1>1, SettledKind DEF IsStoreReturn
  <1>3. PICK i \in m_copyRequests : Copying(i)
    BY <1>1, <1>2, ChainTop
  <1>4. Top.owner = i
    BY <1>3 DEF Copying
  <1> QED
    BY <1>1, <1>3, <1>4 DEF Copying, Running, Top

LEMMA ChainCopies ==
  ASSUME OneEntryCalls, ChainInv, TypeOK',
         \/ CopyMessagesFails \/ CopyFileFails \/ CopyFileCopies \/ MaildirCopies
  PROVE  ChainInv'
  <1>1. PICK kind \in {"CopyMessages", "CopyFileMessage"} :
          /\ Running(kind)
          /\ CopyMessagesFails \/ MaildirCopies => kind = "CopyMessages"
          /\ CopyFileFails \/ CopyFileCopies => kind = "CopyFileMessage"
    <2>1. CASE CopyMessagesFails \/ MaildirCopies
      <3>1. Running("CopyMessages") /\ ~(CopyFileFails \/ CopyFileCopies)
        BY <2>1 DEF CopyMessagesFails, MaildirCopies, CopyFileFails, CopyFileCopies, Running
      <3> QED
        BY <3>1
    <2>2. CASE CopyFileFails \/ CopyFileCopies
      <3>1. Running("CopyFileMessage") /\ ~(CopyMessagesFails \/ MaildirCopies)
        BY <2>2 DEF CopyMessagesFails, MaildirCopies, CopyFileFails, CopyFileCopies, Running
      <3> QED
        BY <3>1
    <2> QED
      BY <2>1, <2>2
  <1>2. PICK i \in m_copyRequests :
          /\ i = Top.owner /\ Copying(i)
          /\ kind = "CopyMessages" => EndsOf(i, Top) /\ Top.entry \in Sources(i)
    BY <1>1, ChainCopy
  <1>3. /\ ToldInv /\ TypeOK /\ OwnerHasEntry /\ Below \in Seq(Frame)
        /\ AllSettled(Below, issued, m_copyRequests, copied)
    BY <1>1, ChainTop
  <1>4. /\ starts[i] > 0 /\ i \notin unreported /\ OthersBusy(i)
        /\ Enough(Below, m_copyRequests, starts)
        /\ unreported' = unreported
    BY <1>2 DEF Copying, Attends, InFlight,
                CopyMessagesFails, CopyFileFails, CopyFileCopies, MaildirCopies
  <1>5. /\ i \in Id /\ i \in 1..issued /\ issued \in Nat /\ issued <= issued
        /\ m_copyRequests \subseteq Id /\ IsFiniteSet(m_copyRequests)
        /\ copied \in [Id -> SUBSET Nat] /\ starts \in [Id -> Nat]
        /\ ~NothingSelected(call[i])
    BY <1>3, ToldFacts DEF ToldInv, StartedIsProcessed
  <1>6. /\ Sources(i) = {} \/ \E k : Sources(i) = {k}
        /\ kind = "CopyFileMessage" => Sources(i) = {} \/ ~OneSourceCalls
    <2>1. \/ /\ call[i].method = "files"
             /\ Sources(i) = {} \/ (Sources(i) = {1} /\ ~OneSourceCalls)
          \/ /\ call[i].method = "messages"
             /\ \E k \in Nat : Sources(i) = {k} /\ call[i].from[k] = call[i].src
      BY <1>3, <1>5, OneEntryPieces
    <2>2. kind = "CopyFileMessage" => call[i].method = "files"
      BY <1>1, <1>2, ChainCopy
    <2> QED
      BY <2>1, <2>2
  <1>7. ASSUME NEW s \in Seq(Frame), AllSettled(s, issued, m_copyRequests, copied'),
               Enough(s, m_copyRequests, starts), NEW ok \in BOOLEAN
        PROVE  /\ Yielding(ok, s) \in Seq(Frame)
               /\ AllSettled(Yielding(ok, s), issued, m_copyRequests, copied')
               /\ AllSettled(Yielding(ok, s), issued, m_copyRequests \ {i}, copied')
               /\ Enough(Yielding(ok, s), m_copyRequests, starts)
    <2>1. /\ Yielding(ok, s) \in Seq(Frame)
          /\ AllSettled(Yielding(ok, s), issued, m_copyRequests, copied')
          /\ Enough(Yielding(ok, s), m_copyRequests, starts)
      BY <1>5, <1>7, YieldingSettled
    <2>2. AllSettled(Yielding(ok, s), issued, m_copyRequests \ {i}, copied')
      BY <1>5, <2>1, SettledGrows
    <2> QED
      BY <2>1, <2>2
  <1>8. CASE CopyMessagesFails \/ CopyFileFails
    <2>1. UNCHANGED <<call, queueVars, listenerVars, copied, issued, m_copyRequests, starts>>
      BY <1>8 DEF CopyMessagesFails, CopyFileFails, listenerVars, queueVars
    <2>2. PICK s \in {Below, Yielding(TRUE, Below), Yielding(FALSE, Below)} :
            OnCopyCompleted(call[i].src, Dst(i), FALSE, s)
      <3>1. CASE CopyMessagesFails
        <4>1. Top.sup = call[i].src /\ Top.dst = Dst(i)
          BY <1>1, <1>2, <3>1 DEF EndsOf
        <4> QED
          BY <3>1, <4>1 DEF CopyMessagesFails
      <3>2. CASE CopyFileFails
        BY <1>2, <3>2 DEF CopyFileFails
      <3> QED
        BY <1>8, <3>1, <3>2
    <2>3. ToldInv'
      BY <1>3, <1>4, <2>1, ToldSame
    <2>4. /\ s \in Seq(Frame)
          /\ AllSettled(s, issued, m_copyRequests \ {i}, copied')
          /\ Enough(s, m_copyRequests, starts)
      <3>1. AllSettled(Below, issued, m_copyRequests \ {i}, copied)
        BY <1>2 DEF Copying, Attends
      <3> QED
        BY <1>3, <1>4, <1>7, <2>1, <2>2, <3>1
    <2> QED
      BY <1>3, <1>4, <2>1, <2>2, <2>3, <2>4, ChainCompletes
  <1>9. ASSUME copied' = [copied EXCEPT ![i] = Pieces(i)]
        PROVE  /\ \A k \in Id : copied[k] \subseteq copied'[k] /\ copied'[k] \subseteq Pieces(k)
               /\ \A k \in Id : Arrived(k, copied) => Arrived(k, copied')
               /\ Arrived(i, copied')
               /\ AllSettled(Below, issued, m_copyRequests, copied')
               /\ AllSettled(Below, issued, m_copyRequests \ {i}, copied')
    <2>1. \A k \in Id : copied'[k] = IF k = i THEN Pieces(i) ELSE copied[k]
      BY <1>5, <1>9
    <2>2. \A k \in Id : copied[k] \subseteq copied'[k] /\ copied'[k] \subseteq Pieces(k)
      BY <1>3, <2>1 DEF ToldInv, CopiedPieces
    <2>3. Arrived(i, copied') /\ \A k \in Id : Arrived(k, copied) => Arrived(k, copied')
      BY <1>5, <2>1 DEF Arrived
    <2>4. 1..issued \subseteq Id
      BY <1>3, MaxRequestsAssumption DEF TypeOK, Id
    <2>5. AllSettled(Below, issued, m_copyRequests, copied')
      BY <1>3, <1>5, <2>3, <2>4, SettledGrows
    <2>6. AllSettled(Below, issued, m_copyRequests \ {i}, copied')
      BY <1>5, <2>5, SettledGrows
    <2> QED
      BY <2>2, <2>3, <2>5, <2>6
  <1>10. CASE CopyFileCopies
    <2>1. /\ copied' = [copied EXCEPT ![i] = Pieces(i)]
          /\ UNCHANGED <<call, queueVars, listenerVars, starts, stops, result>>
      BY <1>2, <1>10 DEF CopyFileCopies, listenerVars
    <2>2. ToldInv'
      BY <1>3, <1>4, <1>9, <2>1, ToldKept
    <2>3. UNCHANGED <<issued, m_copyRequests>>
      BY <2>1 DEF queueVars
    <2>4. CASE Sources(i) = {}
      <3>1. OnCopyCompleted(call[i].src, Dst(i), TRUE, Yielding(TRUE, Below))
        BY <1>2, <1>10, <2>4 DEF CopyFileCopies
      <3>2. /\ Yielding(TRUE, Below) \in Seq(Frame)
            /\ AllSettled(Yielding(TRUE, Below), issued, m_copyRequests \ {i}, copied')
            /\ Enough(Yielding(TRUE, Below), m_copyRequests, starts)
        BY <1>3, <1>4, <1>7, <1>9, <2>1
      <3> QED
        BY <1>3, <1>4, <1>9, <2>1, <2>2, <2>3, <3>1, <3>2, ChainCompletes
    <2>5. CASE Sources(i) # {}
      <3>1. PICK fr : fr = CopyFileReturn(i)
        OBVIOUS
      <3>2. OnCopyCompleted(call[i].src, Dst(i), TRUE, Push(fr, Below))
        BY <1>2, <1>10, <2>5, <3>1 DEF CopyFileCopies
      <3>3. fr \in Frame /\ IsFileReturn(fr) /\ fr.owner = i
        BY <1>5, <3>1, FrameTypes DEF CopyFileReturn, IsFileReturn
      <3>4. ~OneSourceCalls
        BY <1>1, <1>6, <1>10, <2>5
      <3>5. Settled(fr, issued, m_copyRequests \ {i}, copied')
        BY <1>5, <3>3, <3>4 DEF Settled
      <3>6. /\ Push(fr, Below) \in Seq(Frame)
            /\ AllSettled(Push(fr, Below), issued, m_copyRequests \ {i}, copied')
            /\ Enough(Push(fr, Below), m_copyRequests, starts)
        BY <1>3, <1>4, <1>5, <1>9, <2>1, <3>3, <3>5, PushType, SettledPush, EnoughPush
      <3> QED
        BY <1>3, <1>4, <1>9, <2>1, <2>2, <2>3, <3>2, <3>6, ChainCompletes
    <2> QED
      BY <2>4, <2>5
  <1>11. CASE MaildirCopies
    <2>1. /\ copied' = [copied EXCEPT ![i] = @ \cup {Top.entry}]
          /\ starts' = [starts EXCEPT ![i] = @ + 1]
          /\ UNCHANGED <<call, queueVars, stops, result>>
          /\ Maildir # {}
      BY <1>2, <1>11 DEF MaildirCopies
    <2>2. copied' = [copied EXCEPT ![i] = Pieces(i)]
      <3>1. Top.entry \in Sources(i)
        BY <1>1, <1>2, <1>11
      <3>2. Pieces(i) = {Top.entry}
        BY <1>6, <3>1 DEF Pieces
      <3>3. copied[i] \cup {Top.entry} = Pieces(i)
        BY <1>3, <1>5, <3>2 DEF ToldInv, CopiedPieces
      <3> QED
        BY <2>1, <1>5, <3>3
    <2>3. /\ \A k \in Id : starts'[k] > 0 <=> starts[k] > 0
          /\ \A k \in m_copyRequests : starts'[k] > 0 <=> starts[k] > 0
      BY <1>4, <1>5, <2>1
    <2>4. ToldInv'
      BY <1>3, <1>4, <1>9, <2>1, <2>2, <2>3, ToldKept
    <2>5. PICK y \in Seq(Frame) :
            /\ y = Yielding(TRUE, Below)
            /\ AllSettled(y, issued, m_copyRequests \ {i}, copied')
            /\ Enough(y, m_copyRequests, starts)
      BY <1>3, <1>4, <1>7, <1>9, <2>2
    <2>6. PICK fr \in Frame :
            fr = MaildirReturn(i) /\ Settled(fr, issued, m_copyRequests \ {i}, copied')
      <3>1. MaildirReturn(i) \in Frame
        BY <1>5, FrameTypes
      <3>2. IsStoreReturn(MaildirReturn(i)) /\ MaildirReturn(i).owner = i
        BY DEF MaildirReturn, IsStoreReturn
      <3>3. Settled(MaildirReturn(i), issued, m_copyRequests \ {i}, copied')
        BY <1>5, <1>9, <2>1, <2>2, <3>2 DEF Settled
      <3> QED
        BY <3>1, <3>3
    <2>7. /\ Push(fr, y) \in Seq(Frame)
          /\ AllSettled(Push(fr, y), issued, m_copyRequests \ {i}, copied')
          /\ Enough(Push(fr, y), m_copyRequests, starts)
      BY <1>5, <2>5, <2>6, PushType, SettledPush, EnoughPush
    <2>8. OnCopyCompleted(call[i].src, Dst(i), TRUE, Push(fr, y))
      <3>1. Top.sup = call[i].src /\ Top.dst = Dst(i)
        BY <1>1, <1>2, <1>11 DEF EndsOf
      <3> QED
        BY <1>2, <1>11, <2>5, <2>6, <3>1 DEF MaildirCopies
    <2>9. UNCHANGED <<issued, m_copyRequests>>
      BY <2>1 DEF queueVars
    <2> QED
      BY <1>3, <1>4, <1>9, <2>1, <2>2, <2>3, <2>4, <2>7, <2>8, <2>9, ChainCompletes
  <1> QED
    BY <1>8, <1>10, <1>11

LEMMA ChainStreamEnds ==
  ASSUME OneEntryCalls, ChainInv, TypeOK', NEW f \in Folder, CopyEnds(f)
  PROVE  ChainInv'
  <1>1. PICK ok \in BOOLEAN : StreamEnds(f, ok)
    BY DEF CopyEnds
  <1>2. stack = <<>> /\ Busy(f)
    BY DEF CopyEnds
  <1>3. ToldInv /\ TypeOK /\ OwnerHasEntry /\ OthersBusy(0) /\ Enough(<<>>, m_copyRequests, starts)
    BY <1>2, ChainRest DEF ToldInv
  <1>4. PICK i, e : i \in Id \cup {0} /\ i = mCopyState[f].owner /\ e = mCopyState[f].entry
    BY <1>3 DEF TypeOK
  <1>5. /\ i \in m_copyRequests /\ starts[i] > 0
        /\ Dst(i) = f /\ call[i].src = mCopyState[f].srcSupport
        /\ e \in Sources(i) /\ i \notin unreported
    BY <1>2, <1>3, <1>4 DEF OwnerHasEntry, OwnerInFlight, InFlight
  <1>6. /\ copied' = IF ok THEN [copied EXCEPT ![i] = @ \cup {e}] ELSE copied
        /\ OnCopyCompleted(call[i].src, Dst(i), ok, <<>>)
        /\ UNCHANGED <<call, queueVars, starts, stops, result, unreported>>
    BY <1>1, <1>4, <1>5 DEF StreamEnds, listenerVars
  <1>7. /\ i \in Id /\ m_copyRequests \subseteq Id
        /\ copied \in [Id -> SUBSET Nat]
        /\ ~NothingSelected(call[i])
    BY <1>3, <1>5, ToldFacts DEF ToldInv, StartedIsProcessed
  <1>8. UNCHANGED <<issued, m_copyRequests>>
    BY <1>6 DEF queueVars
  <1>9. OthersBusy(i) /\ <<>> \in Seq(Frame)
    BY <1>3, ToldFacts DEF OthersBusy
  <1>10. AllSettled(<<>>, issued, m_copyRequests \ {i}, copied')
    BY NoneSettled
  <1>11. \A k \in Id : copied[k] \subseteq copied'[k] /\ copied'[k] \subseteq Pieces(k)
    <2>1. e \in Pieces(i)
      BY <1>5 DEF Pieces
    <2>2. \A k \in Id : copied[k] \subseteq Pieces(k)
      BY <1>3 DEF ToldInv, CopiedPieces
    <2> QED
      BY <1>6, <1>7, <2>1, <2>2
  <1>12. ok => Arrived(i, copied')
    <2> SUFFICES ASSUME ok PROVE Arrived(i, copied')
      OBVIOUS
    <2>1. Pieces(i) = {e}
      <3>1. Sources(i) = {} \/ \E k \in Nat : Sources(i) = {k}
        BY <1>3, <1>7, OneEntryPieces
      <3> QED
        BY <1>5, <3>1 DEF Pieces
    <2>2. e \in copied'[i]
      BY <1>6, <1>7
    <2> QED
      BY <1>7, <1>11, <2>1, <2>2 DEF Arrived
  <1>13. ToldInv'
    BY <1>3, <1>6, <1>11, ToldKept
  <1> QED
    BY <1>3, <1>5, <1>6, <1>8, <1>9, <1>10, <1>12, <1>13, ChainCompletes

LEMMA ChainStream ==
  ASSUME ChainInv, TypeOK', InitCopyState
  PROVE  ChainInv'
  <1>1. /\ Running("CopyMessages") /\ ~Busy(Top.dst) /\ stack' = Below
        /\ mCopyState' = [mCopyState EXCEPT ![Top.dst] =
                      [owner |-> Top.owner, entry |-> Top.entry, srcSupport |-> Top.sup]]
        /\ UNCHANGED <<call, queueVars, listenerVars, copied, unreported>>
    BY DEF InitCopyState, Return
  <1>2. UNCHANGED <<issued, m_copyRequests, starts>>
    BY <1>1 DEF queueVars, listenerVars
  <1>3. /\ ToldInv /\ TypeOK /\ OwnerHasEntry /\ Below \in Seq(Frame)
        /\ AllSettled(Below, issued, m_copyRequests, copied)
    BY <1>1, ChainTop
  <1>4. PICK i, e, sup :
          /\ i \in m_copyRequests
          /\ i = Top.owner /\ e = Top.entry /\ sup = Top.sup
          /\ Copying(i) /\ EndsOf(i, Top) /\ e \in Sources(i)
    BY <1>1, ChainCopy
  <1>5. PICK dst : dst = Top.dst /\ dst = Dst(i) /\ sup = call[i].src
    BY <1>4 DEF EndsOf
  <1>6. /\ starts[i] > 0 /\ i \notin unreported /\ OthersBusy(i)
        /\ Enough(Below, m_copyRequests, starts)
    BY <1>4 DEF Copying, Attends, InFlight
  <1>7. /\ i \in Id /\ i # 0 /\ m_copyRequests \subseteq Id
        /\ dst \in Folder /\ DOMAIN mCopyState = Folder
        /\ \A k \in m_copyRequests : Dst(k) \in Folder
    BY <1>3, <1>4, <1>5, ToldFacts
  <1>8. /\ \A k : Dst(k)' = Dst(k) /\ Sources(k)' = Sources(k)
        /\ mCopyState'[dst] = [owner |-> i, entry |-> e, srcSupport |-> sup]
        /\ \A f \in Folder \ {dst} : mCopyState'[f] = mCopyState[f] /\ (Busy(f)' <=> Busy(f))
        /\ Busy(dst)'
    <2>1. \A k : Dst(k)' = Dst(k) /\ Sources(k)' = Sources(k)
      BY <1>1, SamePieces
    <2>2. /\ mCopyState'[dst] = [owner |-> i, entry |-> e, srcSupport |-> sup]
          /\ \A f \in Folder \ {dst} : mCopyState'[f] = mCopyState[f]
      BY <1>1, <1>4, <1>5, <1>7
    <2> QED
      BY <1>7, <2>1, <2>2 DEF Busy, NoCopyState
  <1>9. OthersBusy(0)'
    <2> SUFFICES ASSUME OneSourceCalls, NEW k \in m_copyRequests \ unreported, starts[k] > 0
                 PROVE  Busy(Dst(k))'
      BY <1>1, <1>2 DEF OthersBusy
    <2>1. CASE k = i
      BY <1>5, <1>8, <2>1 DEF Busy
    <2>2. CASE k # i
      <3>1. Busy(Dst(k)) /\ Dst(k) \in Folder
        BY <1>6, <1>7, <2>2 DEF OthersBusy
      <3> QED
        BY <1>8, <3>1 DEF Busy
    <2> QED
      BY <2>1, <2>2
  <1>10. ToldInv'
    BY <1>1, <1>3, ToldSame
  <1>11. Idle'
    BY <1>1, <1>2, <1>3, <1>6, <1>9, IdleNext
  <1>12. OwnerInFlight'
    <2> SUFFICES ASSUME NEW f \in Folder, NEW k \in Id \cup {0},
                        Busy(f)', mCopyState'[f].owner = k
                 PROVE  InFlight(k)' /\ Dst(k)' = f /\ call'[k].src = mCopyState'[f].srcSupport
      BY DEF OwnerInFlight
    <2>1. CASE f = dst
      BY <1>1, <1>2, <1>4, <1>5, <1>6, <1>8, <2>1 DEF InFlight
    <2>2. CASE f # dst
      <3>1. InFlight(k) /\ Dst(k) = f /\ call[k].src = mCopyState[f].srcSupport
        BY <1>3, <1>8, <2>2 DEF OwnerHasEntry, OwnerInFlight
      <3> QED
        BY <1>1, <1>2, <1>8, <2>2, <3>1 DEF InFlight
    <2> QED
      BY <2>1, <2>2
  <1>13. ASSUME NEW f \in Folder, Busy(f)'
         PROVE  /\ (mCopyState[f].entry \in Sources(mCopyState[f].owner))'
                /\ mCopyState'[f].owner \notin unreported'
    <2>1. /\ mCopyState'[f].entry \in Sources(mCopyState'[f].owner)
          /\ mCopyState'[f].owner \notin unreported
      <3>1. CASE f = dst
        BY <1>4, <1>6, <1>8, <3>1
      <3>2. CASE f # dst
        BY <1>3, <1>8, <1>13, <3>2 DEF OwnerHasEntry
      <3> QED
        BY <3>1, <3>2
    <2> QED
      BY <1>1, <1>8, <2>1
  <1>14. OwnerHasEntry'
    BY <1>12, <1>13 DEF OwnerHasEntry
  <1> QED
    BY <1>10, <1>11, <1>14 DEF ChainInv

(***************************************************************************)
(* CopyMessages returns an error and tells nobody: the request stays, with *)
(* no copy that will report it.                                            *)
(***************************************************************************)
LEMMA ChainErrs ==
  ASSUME ChainInv, TypeOK', CopyMessagesErrs
  PROVE  ChainInv'
  <1>1. /\ Running("CopyMessages") /\ stack' = Below
        /\ UNCHANGED <<call, queueVars, listenerVars, mCopyState, copied>>
    BY DEF CopyMessagesErrs, Return
  <1>2. UNCHANGED <<issued, m_copyRequests, starts, stops, result>>
    BY <1>1 DEF queueVars, listenerVars
  <1>3. /\ ToldInv /\ TypeOK /\ OwnerHasEntry /\ Below \in Seq(Frame)
        /\ AllSettled(Below, issued, m_copyRequests, copied)
    BY <1>1, ChainTop
  <1>4. PICK i \in m_copyRequests : i = Top.owner /\ Copying(i)
    BY <1>1, ChainCopy
  <1>5. unreported' = unreported \cup {i}
    BY <1>4 DEF CopyMessagesErrs
  <1>6. /\ starts[i] > 0 /\ ~Busy(Dst(i)) /\ OthersBusy(i)
        /\ Enough(Below, m_copyRequests, starts)
    BY <1>4 DEF Copying, Attends, InFlight
  <1>7. ToldInv'
    <2>1. UnreportedStarted'
      BY <1>2, <1>3, <1>5, <1>6 DEF ToldInv, UnreportedStarted
    <2>2. /\ \A k : Dst(k)' = Dst(k) /\ Pieces(k)' = Pieces(k)
          /\ \A k : Processed(k)' <=> Processed(k)
      <3>1. \A k : Sources(k)' = Sources(k) /\ Pieces(k)' = Pieces(k) /\ Dst(k)' = Dst(k)
        BY <1>1, SamePieces
      <3> QED
        BY <1>1, <3>1 DEF Processed, AllSourcesDone, queueVars
    <2>3. Unissued' /\ StartedIsProcessed' /\ FirstInFlight'
      BY <1>1, <1>2, <1>3, <2>2
      DEF ToldInv, Unissued, StartedIsProcessed, FirstInFlight, queueVars
    <2>4. CopiedPieces' /\ OkMeansCopied'
      BY <1>1, <1>2, <1>3, <2>2 DEF ToldInv, CopiedPieces, OkMeansCopied
    <2>5. Maildir = {} => StopsOnce' /\ StartsOnce'
      BY <1>2, <1>3 DEF ToldInv, StopsOnce, StartsOnce
    <2> QED
      BY <2>1, <2>3, <2>4, <2>5 DEF ToldInv
  <1>8. OthersBusy(0)'
    <2>1. \A k : Busy(Dst(k))' <=> Busy(Dst(k))
      BY <1>1, SamePieces DEF Busy
    <2> QED
      BY <1>2, <1>5, <1>6, <2>1 DEF OthersBusy
  <1>9. Idle'
    BY <1>1, <1>2, <1>3, <1>6, <1>8, IdleNext
  <1>10. OwnerHasEntry'
    <2>1. ASSUME NEW k \in m_copyRequests, starts[k] > 0, Busy(Dst(k))'
          PROVE  k \in unreported' => k \in unreported
      <3>1. Busy(Dst(k))
        BY <1>1, <2>1, SamePieces DEF Busy
      <3>2. k # i
        BY <1>6, <3>1
      <3> QED
        BY <1>5, <3>2
    <2> QED
      BY <1>1, <1>2, <1>3, <2>1, OwnersNext
  <1> QED
    BY <1>7, <1>9, <1>10 DEF ChainInv

LEMMA ChainStoreTells ==
  ASSUME ChainInv, TypeOK', MaildirStops
  PROVE  ChainInv'
  <1>1. PICK kind : kind = Top.kind /\ Running(kind) /\ IsStoreReturn(Top)
    BY DEF MaildirStops, IsStoreReturn, Running, Top
  <1>2. /\ TellStopped(Top.owner, TRUE, Below)
        /\ UNCHANGED <<call, queueVars, mCopyState, starts, copied, issued, m_copyRequests,
                       unreported>>
    BY DEF MaildirStops, queueVars
  <1>3. /\ kind \notin {"destructor", "DoNextCopy", "OnStopCopy", "CopyMessages",
                       "CopyFileMessage", "NotifyCompletion", "result"}
        /\ ~IsFileReturn(Top)
    BY <1>1 DEF IsStoreReturn, IsFileReturn
  <1>4. /\ ToldInv /\ TypeOK /\ OwnerHasEntry /\ Top \in Frame /\ Below \in Seq(Frame)
        /\ stack = Push(Top, Below)
        /\ AllSettled(Below, issued, m_copyRequests, copied)
        /\ Idle /\ Settled(Top, issued, m_copyRequests, copied)
    BY <1>1, <1>3, ChainTop
  <1>5. PICK i : i = Top.owner /\ i \in 1..issued /\ Maildir # {} /\ Arrived(i, copied)
    BY <1>1, <1>3, <1>4 DEF Settled
  <1>6. i \in Id
    BY <1>4, <1>5, MaxRequestsAssumption DEF TypeOK, Id
  <1>7. ToldInv'
    BY <1>2, <1>4, <1>5, <1>6, ToldByStore
  <1>8. Enough(Below, m_copyRequests, starts)
    <2>1. Enough(Push(Top, Below), m_copyRequests, starts)
      BY <1>4 DEF Idle
    <2>2. IsFiniteSet(m_copyRequests)
      BY <1>4, ToldFacts
    <2> QED
      BY <1>1, <1>3, <1>4, <2>1, <2>2, EnoughBelow
  <1>9. OthersBusy(0)'
    BY <1>2, <1>4, BusyKept DEF Idle
  <1>10. Idle'
    BY <1>2, <1>4, <1>8, <1>9, IdleTold
  <1>11. OwnerHasEntry'
    BY <1>2, <1>4, OwnersKept
  <1> QED
    BY <1>7, <1>10, <1>11 DEF ChainInv

(***************************************************************************)
(* NotifyCompletion clears the request it is for, and no other; when it    *)
(* is done, that request has left the queue.                               *)
(***************************************************************************)
LEMMA QueuedRequest ==
  ASSUME OneEntryCalls, ToldInv, NEW i \in m_copyRequests
  PROVE  /\ call[i].method # "folders"
         /\ i \in Id
         /\ starts[i] > 0 => i \in m_processed \/ AllSourcesDone(i)
         /\ \A sup, dst : SameEnds(i, sup, dst) <=> call[i].src = sup /\ Dst(i) = dst
         /\ \A sup, dst : Matches(i, sup, dst) <=> SameEnds(i, sup, dst)
  <1>1. TypeOK /\ i \in Id /\ ~NothingSelected(call[i])
    BY ToldFacts DEF ToldInv, StartedIsProcessed
  <1>2. call[i].method # "folders"
    BY <1>1, OneEntryPieces
  <1>3. starts[i] > 0 => i \in m_processed \/ AllSourcesDone(i)
    BY DEF ToldInv, StartedIsProcessed, Processed
  <1> QED
    BY <1>1, <1>2, <1>3 DEF SameEnds, Matches

LEMMA TheOneCompleting ==
  ASSUME NoTwinCalls, ChainInv, Running("NotifyCompletion"),
         NEW i \in m_copyRequests, EndsOf(i, Top)
  PROVE  Completing(i)
  <1>1. TypeOK /\ Top.kind = "NotifyCompletion"
    BY ChainTop
  <1>2. ~Settled(Top, issued, m_copyRequests, copied)
    BY <1>1, NoMatch
  <1>3. PICK k \in m_copyRequests : Completing(k)
    BY <1>2, ChainTop
  <1>4. k = i
    <2>1. EndsOf(k, Top)
      BY <1>3 DEF Completing
    <2>2. k \in Id /\ i \in Id /\ call \in Scripts
      BY <1>1, ToldFacts
    <2> QED
      BY <2>1, <2>2 DEF EndsOf, NoTwinCalls, Dst
  <1> QED
    BY <1>3, <1>4

LEMMA ChainCompletion ==
  ASSUME NoTwinCalls, OneEntryCalls, ChainInv, Running("NotifyCompletion"),
         NEW i \in m_copyRequests, FindRequest(i, Top.sup, Top.dst)
  PROVE  Completing(i)
  <1>1. SameEnds(i, Top.sup, Top.dst) /\ ToldInv
    BY ChainTop DEF FindRequest
  <1>2. EndsOf(i, Top)
    BY <1>1, QueuedRequest DEF EndsOf
  <1> QED
    BY <1>2, TheOneCompleting

LEMMA CompletingIsFound ==
  ASSUME OneEntryCalls, ToldInv, NEW i \in m_copyRequests, Completing(i)
  PROVE  Clearable(i)
  <1>1. starts[i] > 0 /\ EndsOf(i, Top) /\ Top.orig = Cardinality(m_copyRequests) /\ TypeOK
    BY DEF Completing, Attends, InFlight, ToldInv
  <1>2. /\ IsFiniteSet(m_copyRequests) /\ Cardinality(m_copyRequests) \in Nat
        /\ m_copyRequests \subseteq Nat /\ IndexOf(i) \in Nat
    BY <1>1, ToldFacts, QueueFinite
  <1>3. Matches(i, Top.sup, Top.dst) /\ SameEnds(i, Top.sup, Top.dst)
    BY <1>1, QueuedRequest DEF EndsOf
  <1>4. ASSUME NEW k \in m_copyRequests, k < i, Matches(k, Top.sup, Top.dst) PROVE FALSE
    <2>1. Dst(k) = Top.dst
      BY <1>4, QueuedRequest
    <2>2. starts[i] = 0
      BY <1>1, <1>4, <2>1 DEF EndsOf, ToldInv, FirstInFlight
    <2> QED
      BY <1>1, <2>2
  <1>5. FindRequest(i, Top.sup, Top.dst)
    BY <1>3, <1>4 DEF FindRequest
  <1>6. IndexOf(i) < Top.orig
    <2>1. i \notin {k \in m_copyRequests : k < i}
      BY <1>2
    <2>2. Cardinality(m_copyRequests \ {i}) = Cardinality(m_copyRequests) - 1
      BY <1>2, FS_RemoveElement
    <2>3. /\ {k \in m_copyRequests : k < i} \subseteq m_copyRequests \ {i}
          /\ IsFiniteSet(m_copyRequests \ {i})
      BY <1>2, <2>1, FS_RemoveElement
    <2>4. Cardinality({k \in m_copyRequests : k < i}) <= Cardinality(m_copyRequests \ {i})
      BY <2>3, FS_Subset
    <2> QED
      BY <1>1, <1>2, <2>2, <2>4 DEF IndexOf
  <1>7. i \in m_processed \/ AllSourcesDone(i)
    BY <1>1, QueuedRequest
  <1> QED
    BY <1>5, <1>6, <1>7 DEF Clearable

LEMMA ChainClears ==
  ASSUME NoTwinCalls, OneEntryCalls, ChainInv, TypeOK', NotifyCompletionClears
  PROVE  ChainInv'
  <1>1. Running("NotifyCompletion") /\ UNCHANGED <<call, mCopyState, copied, unreported>>
    BY DEF NotifyCompletionClears
  <1>2. PICK i \in m_copyRequests :
          /\ FindRequest(i, Top.sup, Top.dst)
          /\ ClearRequest(i, Top.ok, Push(NotifyFrame(Top.sup, Top.dst, Top.ok, Top.orig - 1), Below))
    BY DEF NotifyCompletionClears, Clearable
  <1>3. Completing(i)
    BY <1>1, <1>2, ChainCompletion
  <1>4. /\ ToldInv /\ TypeOK /\ OwnerHasEntry /\ Below \in Seq(Frame)
        /\ AllSettled(Below, issued, m_copyRequests \ {i}, copied)
    BY <1>1, <1>3, ChainTop DEF Completing, Attends
  <1>5. PICK sup \in Support, dst \in Folder, ok \in BOOLEAN, orig \in Nat :
          /\ sup = Top.sup /\ dst = Top.dst /\ ok = Top.ok /\ orig = Top.orig
    BY <1>1, <1>4, TopType
  <1>6. /\ starts[i] > 0 /\ ~Busy(Dst(i)) /\ OthersBusy(i)
        /\ Enough(Below, m_copyRequests, starts)
        /\ EndsOf(i, Top) /\ orig = Cardinality(m_copyRequests)
        /\ ok => Arrived(i, copied)
    BY <1>3, <1>5 DEF Completing, Attends, InFlight
  <1>7. PICK fr : fr = NotifyFrame(sup, dst, ok, orig - 1)
    OBVIOUS
  <1>8. ClearRequest(i, ok, Push(fr, Below))
    BY <1>2, <1>5, <1>7
  <1>9. /\ ToldInv'
        /\ m_copyRequests' = m_copyRequests \ {i}
        /\ UNCHANGED <<issued, starts>>
    BY <1>1, <1>4, <1>6, <1>8, ToldClear
  <1>10. /\ IsFiniteSet(m_copyRequests) /\ m_copyRequests \subseteq Nat
         /\ i \in 1..issued /\ issued \in Nat /\ issued <= issued
         /\ 0 \notin m_copyRequests
    BY <1>4, ToldFacts
  <1>11. fr \in Frame /\ fr.kind = "NotifyCompletion"
    <2>1. orig - 1 \in Nat
      <3>1. orig # 0
        BY <1>6, <1>10, FS_EmptySet
      <3> QED
        BY <3>1
    <2> QED
      BY <1>7, <2>1, FrameTypes DEF NotifyFrame
  <1>12. Settled(fr, issued, m_copyRequests', copied)
    <2>1. EndsOf(i, fr)
      BY <1>5, <1>6, <1>7 DEF EndsOf, NotifyFrame
    <2> QED
      BY <1>9, <1>10, <1>11, <2>1 DEF Settled
  <1>13. AllSettled(Push(fr, Below), issued, m_copyRequests', copied)
    <2>1. AllSettled(Below, issued, m_copyRequests', copied)
      BY <1>4, <1>9
    <2> QED
      BY <1>4, <1>11, <1>12, <2>1, SettledPush
  <1>14. Enough(Push(fr, Below), m_copyRequests', starts)
    <2>1. PICK h \in Nat : h = Cardinality(Heads(m_copyRequests, starts))
      BY <1>10, HeadsFinite
    <2>2. PICK w \in Nat : w = Cardinality(Wakers(Below))
      BY <1>4, <1>11, WakersPush
    <2>3. h <= w
      BY <1>6, <2>1, <2>2 DEF Enough
    <2>4. Cardinality(Wakers(Push(fr, Below))) = w + 1
      BY <1>4, <1>11, <2>2, WakersPush
    <2>5. PICK h2 \in Nat : h2 = Cardinality(Heads(m_copyRequests \ {i}, starts))
      BY <1>9, ToldFactsNext, HeadsFinite
    <2>6. h2 <= h + 1
      BY <1>10, <2>1, <2>5, HeadsLeave
    <2> QED
      BY <1>9, <2>3, <2>4, <2>5, <2>6 DEF Enough
  <1>15. OthersBusy(0)'
    <2>1. \A k : Busy(Dst(k))' <=> Busy(Dst(k))
      BY <1>1, SamePieces DEF Busy
    <2> QED
      BY <1>1, <1>6, <1>9, <2>1 DEF OthersBusy
  <1>16. Idle'
    <2>1. Push(fr, Below) \in Seq(Frame)
      BY <1>4, <1>11, PushType
    <2>2. TellStopped(i, ok, Push(fr, Below))
      BY <1>8 DEF ClearRequest
    <2>3. AllSettled(Push(fr, Below), issued', m_copyRequests', copied')
      BY <1>1, <1>9, <1>13
    <2>4. Enough(Push(fr, Below), m_copyRequests', starts')
      BY <1>9, <1>14
    <2> QED
      BY <1>1, <1>15, <2>1, <2>2, <2>3, <2>4, IdleTold
  <1>17. OwnerHasEntry'
    <2>1. \A f \in Folder : Busy(f)' => mCopyState'[f] = mCopyState[f]
      BY <1>1
    <2>2. ASSUME NEW k \in m_copyRequests, starts[k] > 0, Busy(Dst(k))'
          PROVE  k \in m_copyRequests' /\ starts'[k] > 0 /\ (k \in unreported' => k \in unreported)
      <3>1. Busy(Dst(k))
        BY <1>1, <2>2, SamePieces DEF Busy
      <3>2. k # i
        BY <1>6, <3>1
      <3> QED
        BY <1>1, <1>9, <2>2, <3>2
    <2> QED
      BY <1>1, <1>4, <2>1, <2>2, OwnersNext
  <1> QED
    BY <1>9, <1>16, <1>17 DEF ChainInv

LEMMA ChainNotifyEnds ==
  ASSUME NoTwinCalls, OneEntryCalls, ChainInv, TypeOK', NotifyCompletionEnds
  PROVE  ChainInv'
  <1>1. /\ Running("NotifyCompletion") /\ stack' = Push(DoNextCopyFrame, Below)
        /\ \A i \in m_copyRequests : ~Clearable(i)
        /\ UNCHANGED <<call, queueVars, listenerVars, mCopyState, starts, copied,
                       issued, m_copyRequests, unreported>>
    BY DEF NotifyCompletionEnds, listenerVars, queueVars
  <1>2. /\ ToldInv /\ TypeOK /\ OwnerHasEntry /\ Below \in Seq(Frame) /\ Top \in Frame
        /\ stack = Push(Top, Below) /\ Top.kind = "NotifyCompletion"
        /\ \/ Idle /\ AllSettled(Below, issued, m_copyRequests, copied)
           \/ \E i \in m_copyRequests : Completing(i)
    BY <1>1, ChainTop
  <1>3. ASSUME NEW i \in m_copyRequests, Completing(i) PROVE FALSE
    BY <1>1, <1>2, <1>3, CompletingIsFound
  <1>4. Idle /\ AllSettled(Below, issued, m_copyRequests, copied)
    BY <1>2, <1>3
  <1>5. Enough(stack', m_copyRequests', starts')
    <2>1. PICK h : h = Cardinality(Heads(m_copyRequests, starts))
      OBVIOUS
    <2>2. PICK w \in Nat : w = Cardinality(Wakers(Below))
      BY <1>2, WakersPush
    <2>3. Cardinality(Wakers(Push(Top, Below))) = w + 1
      BY <1>2, <2>2, WakersPush
    <2>4. h <= w + 1
      BY <1>2, <1>4, <2>1, <2>3 DEF Idle, Enough
    <2>5. Cardinality(Wakers(Push(DoNextCopyFrame, Below))) = w + 1
      <3>1. DoNextCopyFrame.kind = "DoNextCopy" /\ DoNextCopyFrame \in Frame
        BY FrameTypes DEF DoNextCopyFrame
      <3> QED
        BY <1>2, <2>2, <3>1, WakersPush
    <2> QED
      BY <1>1, <2>1, <2>4, <2>5 DEF Enough
  <1>6. ToldInv'
    BY <1>1, <1>2, ToldSame
  <1>7. OthersBusy(0)'
    BY <1>1, <1>2, <1>4, BusyKept DEF Idle
  <1>8. Idle'
    BY <1>1, <1>2, <1>4, <1>5, <1>7, IdleNext
  <1>9. OwnerHasEntry'
    BY <1>1, <1>2, OwnersKept
  <1> QED
    BY <1>6, <1>8, <1>9 DEF ChainInv

LEMMA OnlyDestructor ==
  ASSUME ChainInv, Running("destructor")
  PROVE  stack = <<DestroyFrame>>
  <1>1. stack # <<>> /\ Top.kind = "destructor"
    BY DEF Running, Top
  <1>2. ~Settled(Top, issued, m_copyRequests, copied)
    BY <1>1, SettledKind
  <1>3. ~Idle
    BY <1>1, <1>2 DEF Idle
  <1>4. ~\E k \in m_copyRequests : Copying(k) \/ Completing(k)
    BY <1>1 DEF Copying, Completing, Running, Top
  <1> QED
    BY <1>3, <1>4 DEF ChainInv

LEMMA ChainDestroyed ==
  ASSUME ChainInv, TypeOK', Destroy \/ DestructorClears
  PROVE  ChainInv'
  <1>1. ToldInv
    BY DEF ChainInv
  <1>2. CASE Destroy
    <2>1. stack' = <<DestroyFrame>> /\ UNCHANGED <<call, queueVars, listenerVars, copied, unreported>>
      BY <1>2 DEF Destroy
    <2> QED
      BY <1>1, <2>1, ToldSame DEF ChainInv
  <1>3. CASE DestructorClears
    <2>1. Running("destructor") /\ UNCHANGED <<call, copied, unreported>>
      BY <1>3 DEF DestructorClears
    <2>2. PICK i \in m_copyRequests : ClearRequest(i, FALSE, stack)
      BY <1>3 DEF DestructorClears
    <2>3. stack = <<DestroyFrame>>
      BY <2>1, OnlyDestructor
    <2>4. stack' = <<DestroyFrame>>
      BY <2>2, <2>3 DEF ClearRequest, TellStopped
    <2>5. ToldInv'
      BY <1>1, <2>1, <2>2, ToldClear
    <2> QED
      BY <2>4, <2>5 DEF ChainInv
  <1> QED
    BY <1>2, <1>3

(***************************************************************************)
(* What replaced a message looks at what NotifyCompletion returned, and    *)
(* may report a second time; its request has left the queue.               *)
(***************************************************************************)
LEMMA TopReturns ==
  ASSUME ChainInv, NEW kind, Running(kind), kind \in {"CopyFileMessage returns", "result"}
  PROVE  /\ Idle /\ ~OneSourceCalls
         /\ Settled(Top, issued, m_copyRequests, copied)
         /\ Top \in Frame /\ Below \in Seq(Frame) /\ stack = Push(Top, Below) /\ Top.kind = kind
         /\ AllSettled(Below, issued, m_copyRequests, copied)
         /\ Enough(Below, m_copyRequests, starts)
         /\ kind = "CopyFileMessage returns" => Top.owner \in (1..issued) \ m_copyRequests
  <1>1. kind \notin {"DoNextCopy", "OnStopCopy", "CopyMessages", "CopyFileMessage",
                     "NotifyCompletion", "destructor"}
    OBVIOUS
  <1>2. /\ Idle /\ Settled(Top, issued, m_copyRequests, copied) /\ TypeOK
        /\ Top \in Frame /\ Below \in Seq(Frame) /\ stack = Push(Top, Below) /\ Top.kind = kind
        /\ AllSettled(Below, issued, m_copyRequests, copied)
    BY <1>1, ChainTop
  <1>3. ~(Top.kind = "NotifyCompletion") /\ ~IsStoreReturn(Top)
    BY <1>2 DEF IsStoreReturn
  <1>4. /\ ~OneSourceCalls
        /\ kind = "CopyFileMessage returns" => Top.owner \in (1..issued) \ m_copyRequests
    BY <1>2, <1>3 DEF Settled
  <1>5. Enough(Below, m_copyRequests, starts)
    <2>1. Enough(Push(Top, Below), m_copyRequests, starts) /\ IsFiniteSet(m_copyRequests)
      BY <1>2, ToldFacts DEF Idle
    <2> QED
      BY <1>2, <2>1, EnoughBelow
  <1> QED
    BY <1>2, <1>4, <1>5

LEMMA ChainResultReturns ==
  ASSUME ChainInv, TypeOK', stack' = Below,
         \/ CopyFileReturns /\ mCopyState' = mCopyState
         \/ ResultReturns
  PROVE  ChainInv'
  <1>1. PICK kind \in {"CopyFileMessage returns", "result"} : Running(kind)
    BY DEF CopyFileReturns, ResultReturns
  <1>2. /\ Idle /\ ~OneSourceCalls /\ Below \in Seq(Frame)
        /\ AllSettled(Below, issued, m_copyRequests, copied)
        /\ Enough(Below, m_copyRequests, starts)
    BY <1>1, TopReturns
  <1>3. ToldInv /\ TypeOK /\ OwnerHasEntry
    BY <1>1, ChainTop
  <1>4. UNCHANGED <<call, queueVars, mCopyState, listenerVars, copied,
                    issued, m_copyRequests, starts, unreported>>
    BY DEF CopyFileReturns, ResultReturns, queueVars, listenerVars
  <1>5. ToldInv'
    BY <1>3, <1>4, ToldSame
  <1>6. OthersBusy(0)'
    BY <1>2 DEF OthersBusy
  <1>7. Idle'
    BY <1>2, <1>4, <1>6, IdleNext
  <1>8. OwnerHasEntry'
    BY <1>3, <1>4, OwnersKept
  <1> QED
    BY <1>5, <1>7, <1>8 DEF ChainInv

LEMMA ChainFileFails ==
  ASSUME ChainInv, TypeOK', CopyFileReturns,
         OnCopyCompleted(call[Top.owner].src, Dst(Top.owner), FALSE, Yielding(FALSE, Below))
  PROVE  ChainInv'
  <1>1. Running("CopyFileMessage returns")
    BY DEF CopyFileReturns
  <1>2. /\ ~OneSourceCalls /\ Below \in Seq(Frame)
        /\ AllSettled(Below, issued, m_copyRequests, copied)
        /\ Enough(Below, m_copyRequests, starts)
        /\ Top.owner \in (1..issued) \ m_copyRequests
    BY <1>1, TopReturns
  <1>3. ToldInv /\ TypeOK /\ OwnerHasEntry
    BY <1>1, ChainTop
  <1>4. UNCHANGED <<call, queueVars, listenerVars, copied, issued, m_copyRequests, starts, unreported>>
    BY DEF CopyFileReturns, queueVars, listenerVars
  <1>5. PICK i \in Id, y \in Seq(Frame) :
          /\ i = Top.owner /\ i \in 1..issued /\ i \notin m_copyRequests
          /\ y = Yielding(FALSE, Below)
          /\ AllSettled(y, issued, m_copyRequests, copied)
          /\ Enough(y, m_copyRequests, starts)
    <2>1. IsFiniteSet(m_copyRequests) /\ 1..issued \subseteq Id
      <3>1. issued \in 0..MaxRequests
        BY <1>3 DEF TypeOK
      <3> QED
        BY <1>3, <3>1, ToldFacts, MaxRequestsAssumption DEF Id
    <2> QED
      BY <1>2, <2>1, YieldingSettled
  <1>6. PICK fr : fr = NotifyFrame(call[i].src, Dst(i), FALSE, Cardinality(m_copyRequests))
    OBVIOUS
  <1>7. /\ stack' = Push(fr, y)
        /\ mCopyState' = [mCopyState EXCEPT ![Dst(i)] = NoCopyState]
    BY <1>5, <1>6 DEF OnCopyCompleted
  <1>8. fr \in Frame /\ fr.kind = "NotifyCompletion" /\ EndsOf(i, fr)
    <2>1. Dst(i) \in Folder /\ call[i].src \in Support /\ Cardinality(m_copyRequests) \in Nat
      BY <1>3, <1>5, ToldFacts, CallFields DEF Support, TypeOK
    <2> QED
      BY <1>6, <2>1, FrameTypes DEF NotifyFrame, EndsOf
  <1>9. Settled(fr, issued, m_copyRequests, copied)
    BY <1>5, <1>8 DEF Settled
  <1>10. /\ Push(fr, y) \in Seq(Frame)
         /\ AllSettled(Push(fr, y), issued, m_copyRequests, copied)
         /\ Enough(Push(fr, y), m_copyRequests, starts)
    <2>1. IsFiniteSet(m_copyRequests)
      BY <1>3, ToldFacts
    <2> QED
      BY <1>5, <1>8, <1>9, <2>1, PushType, SettledPush, EnoughPush
  <1>11. Idle'
    <2>1. OthersBusy(0)'
      BY <1>2 DEF OthersBusy
    <2> QED
      BY <1>4, <1>7, <1>10, <2>1, IdleNext
  <1>12. OwnerHasEntry'
    <2>1. Dst(i) \in Folder /\ DOMAIN mCopyState = Folder
      BY <1>3, ToldFacts
    <2>2. \A f \in Folder : Busy(f)' => mCopyState'[f] = mCopyState[f]
      BY <1>7, <2>1 DEF Busy
    <2> QED
      BY <1>3, <1>4, <2>2, OwnersNext
  <1>13. ToldInv'
    BY <1>3, <1>4, ToldSame
  <1> QED
    BY <1>11, <1>12, <1>13 DEF ChainInv

LEMMA ChainFileReturns ==
  ASSUME ChainInv, TypeOK', CopyFileReturns \/ ResultReturns
  PROVE  ChainInv'
  <1>1. CASE CopyFileReturns
    BY <1>1, ChainFileFails, ChainResultReturns DEF CopyFileReturns, Return
  <1>2. CASE ResultReturns
    BY <1>2, ChainResultReturns DEF ResultReturns, Return
  <1> QED
    BY <1>1, <1>2

(***************************************************************************)
(* No copy of a folder is running.                                         *)
(***************************************************************************)
LEMMA ChainNever ==
  ASSUME ChainInv,
         \/ CopyFolderRefuses \/ CopyFolderAcrossServer \/ CopyFolderLocal \/ CopyFolderReturns
  PROVE  FALSE
  <1>1. /\ stack # <<>> /\ Running(Top.kind)
        /\ Top.kind \in {"CopyFolder", "CopyFolder returns"}
    BY DEF CopyFolderRefuses, CopyFolderAcrossServer, CopyFolderLocal, CopyFolderReturns,
           Running, Top
  <1>2. PICK kind : kind = Top.kind /\ Running(kind)
    BY <1>1
  <1>3. /\ kind \notin {"DoNextCopy", "OnStopCopy", "CopyMessages", "CopyFileMessage",
                        "NotifyCompletion", "destructor"}
        /\ ~Settled(Top, issued, m_copyRequests, copied)
    BY <1>1, <1>2, SettledKind
  <1> QED
    BY <1>2, <1>3, ChainTop

LEMMA ChainInit == Init => ChainInv
  <1> SUFFICES ASSUME Init PROVE ChainInv
    OBVIOUS
  <1>1. ToldInv
    BY ToldInit
  <1>2. stack = <<>> /\ m_copyRequests = {} /\ \A f \in Folder : ~Busy(f)
    BY DEF Init, Busy
  <1>3. OwnerHasEntry
    BY <1>2 DEF OwnerHasEntry, OwnerInFlight
  <1>4. Heads(m_copyRequests, starts) = {} /\ <<>> \in Seq(Frame)
    BY <1>2 DEF Heads
  <1>5. Enough(stack, m_copyRequests, starts)
    BY <1>2, <1>4, NoHeads
  <1>6. Idle
    BY <1>2, <1>5 DEF Idle, OthersBusy
  <1> QED
    BY <1>1, <1>3, <1>6 DEF ChainInv

LEMMA ChainStutters ==
  ASSUME ChainInv, UNCHANGED vars
  PROVE  ChainInv'
  <1>1. /\ UNCHANGED <<call, issued, m_copyRequests, m_processed, sourceDone, mCopyState, stack,
                       starts, stops, result, copied, unreported>>
        /\ UNCHANGED <<queueVars, listenerVars>>
    BY DEF vars, queueVars, listenerVars
  <1>2. TypeOK'
    BY NextTypeOK DEF ChainInv, ToldInv
  <1>3. ToldInv'
    BY <1>1, <1>2, ToldSame DEF ChainInv
  <1>4. CASE stack = <<DestroyFrame>>
    BY <1>1, <1>3, <1>4 DEF ChainInv
  <1>5. CASE stack # <<DestroyFrame>>
    <2>1. OwnerHasEntry /\ TypeOK /\ (Idle \/ \E i \in m_copyRequests : Copying(i) \/ Completing(i))
      BY <1>5 DEF ChainInv, ToldInv
    <2>2. OwnerHasEntry'
      BY <1>1, <2>1, OwnersKept
    <2>3. /\ Top' = Top /\ Below' = Below /\ \A kind : Running(kind)' <=> Running(kind)
          /\ \A k : Dst(k)' = Dst(k) /\ Sources(k)' = Sources(k) /\ Pieces(k)' = Pieces(k)
          /\ \A k : Busy(Dst(k))' <=> Busy(Dst(k))
          /\ \A k, fr : EndsOf(k, fr)' <=> EndsOf(k, fr)
          /\ \A k, c : Arrived(k, c)' <=> Arrived(k, c)
          /\ \A k : OthersBusy(k)' <=> OthersBusy(k)
      <3>1. /\ \A k : Dst(k)' = Dst(k) /\ Sources(k)' = Sources(k) /\ Pieces(k)' = Pieces(k)
            /\ \A k : Busy(Dst(k))' <=> Busy(Dst(k))
        BY <1>1, SamePieces DEF Busy
      <3> QED
        BY <1>1, <3>1 DEF Top, Below, Running, EndsOf, Arrived, OthersBusy
    <2>4. /\ Enough(stack, m_copyRequests, starts)' <=> Enough(stack, m_copyRequests, starts)
          /\ Enough(Below, m_copyRequests, starts)' <=> Enough(Below, m_copyRequests, starts)
          /\ AllSettled(Below, issued, m_copyRequests, copied)'
               <=> AllSettled(Below, issued, m_copyRequests, copied)
          /\ Settled(Top, issued, m_copyRequests, copied)'
               <=> Settled(Top, issued, m_copyRequests, copied)
          /\ \A i : AllSettled(Below, issued, m_copyRequests \ {i}, copied)'
                     <=> AllSettled(Below, issued, m_copyRequests \ {i}, copied)
      BY <1>1, <2>3, StackNext
    <2>5. Idle' <=> Idle
      BY <1>1, <2>3, <2>4 DEF Idle
    <2>6. \A i : Attends(i)' <=> Attends(i)
      BY <1>1, <2>3, <2>4 DEF Attends, InFlight
    <2>7. \A i : Copying(i)' <=> Copying(i)
      BY <1>1, <2>3, <2>4, <2>6 DEF Copying
    <2>8. \A i : Completing(i)' <=> Completing(i)
      BY <1>1, <2>3, <2>6 DEF Completing
    <2> QED
      BY <1>1, <1>3, <2>1, <2>2, <2>5, <2>7, <2>8 DEF ChainInv
  <1> QED
    BY <1>4, <1>5

LEMMA ChainStep ==
  ASSUME OneEntryCalls, NoTwinCalls, ChainInv, [Next]_vars
  PROVE  ChainInv'
  <1>1. TypeOK'
    BY NextTypeOK DEF ChainInv, ToldInv
  <1>2. CASE UserCall \/ ListenerCalls
    BY <1>1, <1>2, ChainUserCall, ChainListenerCalls
  <1>3. CASE Destroy \/ DestructorClears
    BY <1>1, <1>3, ChainDestroyed
  <1>4. CASE ListenerReturns \/ DoNextCopyFindsNone \/ DoNextCopyStarts
    BY <1>1, <1>4, ChainListenerReturns, ChainFindsNone, ChainStarts
  <1>5. CASE NotifyCompletionClears \/ NotifyCompletionEnds
    BY <1>1, <1>5, ChainClears, ChainNotifyEnds
  <1>6. CASE CopyMessagesFails \/ MaildirCopies \/ CopyFileFails \/ CopyFileCopies
    BY <1>1, <1>6, ChainCopies
  <1>7. CASE InitCopyState \/ CopyMessagesErrs \/ MaildirStops
    BY <1>1, <1>7, ChainStream, ChainErrs, ChainStoreTells
  <1>8. CASE CopyFileReturns \/ ResultReturns
    BY <1>1, <1>8, ChainFileReturns
  <1>9. CASE \/ CopyFolderRefuses \/ CopyFolderAcrossServer
             \/ CopyFolderLocal \/ CopyFolderReturns
    BY <1>9, ChainNever
  <1>10. CASE \E f \in Folder : CopyEnds(f)
    BY <1>1, <1>10, ChainStreamEnds
  <1>11. CASE UNCHANGED vars
    BY <1>11, ChainStutters
  <1> QED
    BY <1>2, <1>3, <1>4, <1>5, <1>6, <1>7, <1>8, <1>9, <1>10, <1>11
    DEF Next, Service, LocalFolder

LEMMA LeastRequest ==
  ASSUME NEW q \in SUBSET Nat, q # {}
  PROVE  \E k \in q : \A j \in q : k <= j
  <1>1. PICK k \in q : \A j \in q : ~(<<j, k>> \in OpToRel(<, Nat))
    BY NatLessThanWellFounded, WFMin
  <1>2. \A j \in q : ~(j < k)
    BY <1>1, Zenon DEF OpToRel
  <1> QED
    BY <1>2

LEMMA ChainImplies ==
  ASSUME ChainInv
  PROVE  /\ OneCopyPerFolder /\ NoLostWakeup /\ NoOrphanCopy /\ OkMeansCopied
         /\ OneSourceCalls => NoCompletionLost
         /\ Maildir = {} => StopsOnce /\ StartsOnce
  <1>1. ToldInv /\ TypeOK
    BY DEF ChainInv, ToldInv
  <1>2. OneCopyPerFolder
    <2>1. ASSUME NEW kind \in {"CopyMessages", "CopyFileMessage"}, Running(kind)
          PROVE  /\ ~Busy(Dst(Top.owner))
                 /\ kind = "CopyMessages" => Top.dst = Dst(Top.owner)
      BY <2>1, ChainCopy DEF Copying, Attends, EndsOf
    <2> QED
      BY <2>1 DEF OneCopyPerFolder
  <1>3. NoOrphanCopy
    <2> SUFFICES ASSUME NEW f \in Folder, Busy(f), ~Running("destructor")
                 PROVE  mCopyState[f].owner \in m_copyRequests
      BY DEF NoOrphanCopy
    <2>1. stack # <<DestroyFrame>>
      BY DEF Running, DestroyFrame
    <2>2. mCopyState[f].owner \in Id \cup {0} /\ OwnerInFlight
      BY <1>1, <2>1 DEF TypeOK, ChainInv, OwnerHasEntry
    <2> QED
      BY <2>2 DEF OwnerInFlight, InFlight
  <1>4. ASSUME OneSourceCalls PROVE NoCompletionLost
    <2> SUFFICES ASSUME stack = <<>>, NEW i \in m_copyRequests \ unreported, InFlight(i)
                 PROVE  \E f \in Folder : Busy(f) /\ mCopyState[f].owner = i
      BY DEF NoCompletionLost
    <2>1. OwnerInFlight /\ OthersBusy(0) /\ starts[i] > 0
      BY ChainRest DEF OwnerHasEntry, InFlight
    <2>2. i # 0 /\ Dst(i) \in Folder
      BY <1>1, ToldFacts
    <2>3. Busy(Dst(i))
      BY <1>4, <2>1, <2>2 DEF OthersBusy
    <2>4. PICK k \in Id \cup {0} : mCopyState[Dst(i)].owner = k
      BY <1>1, <2>2 DEF TypeOK
    <2>5. k \in m_copyRequests /\ starts[k] > 0 /\ Dst(k) = Dst(i)
      BY <2>1, <2>2, <2>3, <2>4 DEF OwnerInFlight, InFlight
    <2>6. k = i
      BY <1>1, <2>1, <2>5, OneInFlight DEF ToldInv
    <2> QED
      BY <2>2, <2>3, <2>4, <2>6
  <1>5. NoLostWakeup
    <2> SUFFICES ASSUME stack = <<>>, NEW i \in m_copyRequests
                 PROVE  \E k \in m_copyRequests : k <= i /\ InFlight(k) /\ Dst(k) = Dst(i)
      BY DEF NoLostWakeup
    <2>1. /\ IsFiniteSet(m_copyRequests) /\ m_copyRequests \subseteq Nat
          /\ m_copyRequests \subseteq Id /\ starts \in [Id -> Nat]
      BY <1>1, ToldFacts
    <2>2. Heads(m_copyRequests, starts) = {}
      <3>1. Wakers(<<>>) = {}
        BY DEF Wakers
      <3>2. Cardinality(Heads(m_copyRequests, starts)) <= 0
        BY <3>1, ChainRest, FS_EmptySet DEF Enough
      <3>3. Cardinality(Heads(m_copyRequests, starts)) = 0
        BY <2>1, <3>2, HeadsFinite
      <3> QED
        BY <2>1, <3>3, HeadsFinite, FS_EmptySet
    <2> DEFINE same == {k \in m_copyRequests : Dst(k) = Dst(i)}
    <2>3. PICK k \in same : \A j \in same : k <= j
      BY <2>1, LeastRequest
    <2>4. First(k, m_copyRequests)
      <3> SUFFICES ASSUME NEW j \in m_copyRequests, j < k, Dst(j) = Dst(k) PROVE FALSE
        BY DEF First
      <3>1. k <= j /\ j \in Nat /\ k \in Nat
        BY <2>1, <2>3
      <3> QED
        BY <3>1
    <2>5. starts[k] # 0
      BY <2>2, <2>4 DEF Heads
    <2>6. starts[k] > 0
      BY <2>1, <2>5
    <2> QED
      BY <2>3, <2>6 DEF InFlight
  <1> QED
    BY <1>1, <1>2, <1>3, <1>4, <1>5 DEF ToldInv

LEMMA ChainHolds ==
  ASSUME OneEntryCalls, NoTwinCalls
  PROVE  Spec => []ChainInv
  <1>1. Init => ChainInv
    BY ChainInit
  <1>2. ChainInv /\ [Next]_vars => ChainInv'
    BY ChainStep
  <1> QED
    BY <1>1, <1>2, PTL DEF Spec

(***************************************************************************)
(* However deep the calls of listeners nest: every request that was        *)
(* started and is still in the queue when no call runs has a copy that     *)
(* streams into a folder and will report it (NotifyCompletion), unless its *)
(* CopyMessages returned an error without reporting any.  No file may      *)
(* replace a message: such a copy may report a second time, and then       *)
(* deletes the state of the copy that has started into its folder since.   *)
(***************************************************************************)
THEOREM CompletionsArrive ==
  ASSUME OneSourceCalls, NoTwinCalls
  PROVE  Spec => []NoCompletionLost
  <1>1. ChainInv => NoCompletionLost
    BY ChainImplies
  <1> QED
    BY <1>1, ChainHolds, OneSourceIsEntry, PTL

(***************************************************************************)
(* However deep the calls of listeners nest: each frame that will run      *)
(* DoNextCopy starts at most one request, but no destination is left       *)
(* without a copy in flight while requests wait for it.                    *)
(***************************************************************************)
THEOREM WaitersAreWoken ==
  ASSUME OneEntryCalls, NoTwinCalls
  PROVE  Spec => []NoLostWakeup
  <1>1. ChainInv => NoLostWakeup
    BY ChainImplies
  <1> QED
    BY <1>1, ChainHolds, PTL

(***************************************************************************)
(* However deep the calls of listeners nest: a folder streams data only    *)
(* for a request whose listener has not been told that it stopped.         *)
(***************************************************************************)
THEOREM CopiesHaveRequests ==
  ASSUME OneEntryCalls, NoTwinCalls
  PROVE  Spec => []NoOrphanCopy
  <1>1. ChainInv => NoOrphanCopy
    BY ChainImplies
  <1> QED
    BY <1>1, ChainHolds, PTL

(***************************************************************************)
(* However deep the calls of listeners nest: DoNextCopy never asks a       *)
(* folder that is copying for a second copy, which would delete the state  *)
(* of the first.                                                           *)
(***************************************************************************)
THEOREM FoldersCopyOnce ==
  ASSUME OneEntryCalls, NoTwinCalls
  PROVE  Spec => []OneCopyPerFolder
  <1>1. ChainInv => OneCopyPerFolder
    BY ChainImplies
  <1> QED
    BY <1>1, ChainHolds, PTL

(***************************************************************************)
(* However deep the calls of listeners nest, and though a maildir store    *)
(* calls the listener as well: who is told of a success has all sources.   *)
(***************************************************************************)
THEOREM SuccessMeansCopied ==
  ASSUME OneEntryCalls, NoTwinCalls
  PROVE  Spec => []OkMeansCopied
  <1>1. ChainInv => OkMeansCopied
    BY ChainImplies
  <1> QED
    BY <1>1, ChainHolds, PTL

(***************************************************************************)
(* Among mbox folders, however deep the calls of listeners nest: a         *)
(* listener is told once that its copy stopped, when ClearRequest takes    *)
(* the request from the queue.                                             *)
(***************************************************************************)
THEOREM ListenersStopOnce ==
  ASSUME OneEntryCalls, NoTwinCalls, Maildir = {}
  PROVE  Spec => []StopsOnce
  <1>1. ChainInv => StopsOnce
    BY ChainImplies
  <1> QED
    BY <1>1, ChainHolds, PTL

(***************************************************************************)
(* Among mbox folders, however deep the calls of listeners nest: a         *)
(* listener is told at most once that its copy starts, and before it is    *)
(* told of a success.                                                      *)
(***************************************************************************)
THEOREM ListenersStartOnce ==
  ASSUME OneEntryCalls, NoTwinCalls, Maildir = {}
  PROVE  Spec => []StartsOnce
  <1>1. ChainInv => StartsOnce
    BY ChainImplies
  <1> QED
    BY <1>1, ChainHolds, PTL

-----------------------------------------------------------------------------
(***************************************************************************)
(* The refinement of FolderCopyQueue, whatever listeners and stores do.  A *)
(* maildir store that will tell a listener of a success speaks of a request*)
(* that was told so already, or is about to be by the NotifyCompletion that*)
(* runs above it.                                                          *)
(***************************************************************************)
Reported(s, q, r) ==
  \A p \in DOMAIN s : IsStoreReturn(s[p]) => s[p].owner \notin q /\ r[s[p].owner] = "ok"

StoreCompletes ==
  /\ Running("NotifyCompletion") /\ Top.ok
  /\ Below # <<>> /\ IsStoreReturn(Head(Below))
  /\ Head(Below).owner \in m_copyRequests /\ EndsOf(Head(Below).owner, Top)
  /\ Reported(Tail(Below), m_copyRequests, result)

StoresTold == Reported(stack, m_copyRequests, result) \/ StoreCompletes

LEMMA NoneReported == \A q, r : Reported(<<>>, q, r)
  BY DEF Reported

LEMMA ReportedPush ==
  ASSUME NEW s \in Seq(Frame), NEW fr \in Frame, NEW q, NEW r, Reported(s, q, r),
         IsStoreReturn(fr) => fr.owner \notin q /\ r[fr.owner] = "ok"
  PROVE  Reported(Push(fr, s), q, r)
  <1>1. PICK t : t = Push(fr, s)
    OBVIOUS
  <1>2. t[1] = fr /\ \A p \in DOMAIN t : p = 1 \/ (p - 1 \in DOMAIN s /\ t[p] = s[p - 1])
    BY <1>1, PushFields
  <1> QED
    BY <1>1, <1>2 DEF Reported

LEMMA ReportedPop ==
  ASSUME NEW s \in Seq(Frame), s # <<>>, NEW q, NEW r, Reported(s, q, r)
  PROVE  /\ Reported(Tail(s), q, r)
         /\ IsStoreReturn(Head(s)) => Head(s).owner \notin q /\ r[Head(s).owner] = "ok"
  <1>1. /\ 1 \in DOMAIN s /\ Head(s) = s[1]
        /\ \A p \in DOMAIN Tail(s) : p + 1 \in DOMAIN s /\ Tail(s)[p] = s[p + 1]
    OBVIOUS
  <1> QED
    BY <1>1 DEF Reported

LEMMA ReportedKept ==
  ASSUME NEW s, NEW n, NEW q, NEW c, NEW r, NEW q2, NEW r2, NEW left,
         AllSettled(s, n, left, c), Reported(s, q, r),
         \A i \in 1..n : i \notin q /\ r[i] = "ok" => i \notin q2 /\ r2[i] = "ok"
  PROVE  Reported(s, q2, r2)
  <1> SUFFICES ASSUME NEW p \in DOMAIN s, IsStoreReturn(s[p])
               PROVE  s[p].owner \notin q2 /\ r2[s[p].owner] = "ok"
    BY DEF Reported
  <1>1. PICK fr : fr = s[p]
    OBVIOUS
  <1>2. IsStoreReturn(fr) /\ Settled(fr, n, left, c) /\ fr.owner \notin q /\ r[fr.owner] = "ok"
    BY <1>1 DEF Reported, AllSettled
  <1>3. fr.owner \in 1..n
    BY <1>2, SettledKind DEF Settled
  <1> QED
    BY <1>1, <1>2, <1>3

(***************************************************************************)
(* What every step but those of maildir stores leaves on the stack.        *)
(***************************************************************************)
GoesOnWith(s) ==
  \/ stack' = s
  \/ \E fr \in Frame : /\ stack' = Push(fr, s)
                      /\ fr.kind # "destructor" /\ ~IsStoreReturn(fr)

LEMMA FramesLeft ==
  /\ ListenerFrame.kind # "destructor" /\ ~IsStoreReturn(ListenerFrame)
  /\ DoNextCopyFrame.kind # "destructor" /\ ~IsStoreReturn(DoNextCopyFrame)
  /\ ~IsStoreReturn(DestroyFrame)
  /\ \A i, k, sup, dst :
       LET fr == CopyMessagesFrame(i, k, sup, dst)
       IN  fr.kind # "destructor" /\ ~IsStoreReturn(fr)
  /\ \A i :
       LET fr == CopyFileMessageFrame(i)
       IN  fr.kind # "destructor" /\ ~IsStoreReturn(fr)
  /\ \A i : ~IsStoreReturn(CopyFileReturn(i))
  /\ \A ok : ~IsStoreReturn(ResultFrame(ok))
  /\ \A sup, dst, ok, orig :
       LET fr == NotifyFrame(sup, dst, ok, orig)
       IN  fr.kind # "destructor" /\ ~IsStoreReturn(fr)
  BY DEF ListenerFrame, DoNextCopyFrame, DestroyFrame, CopyMessagesFrame, CopyFileMessageFrame,
         CopyFileReturn, ResultFrame, NotifyFrame, IsStoreReturn

LEMMA ReportedYields ==
  ASSUME NEW s \in Seq(Frame), NEW q, NEW r, Reported(s, q, r), NEW ok \in BOOLEAN
  PROVE  Reported(Yielding(ok, s), q, r)
  <1>1. Yielding(ok, s) = s \/ Yielding(ok, s) = Push(ResultFrame(ok), s)
    BY DEF Yielding
  <1> QED
    BY <1>1, FrameTypes, FramesLeft, ReportedPush

LEMMA StaysOpen ==
  ASSUME NEW s \in Seq(Frame), NEW n, NEW q, NEW c, AllSettled(s, n, q, c), GoesOnWith(s)
  PROVE  ~Running("destructor")'
  <1>1. CASE stack' = s /\ s # <<>>
    <2>1. Settled(Head(s), n, q, c)
      BY <1>1, SettledPop
    <2>2. Head(s).kind # "destructor"
      BY <2>1, SettledKind
    <2> QED
      BY <1>1, <2>2 DEF Running
  <1>2. CASE stack' = <<>>
    BY <1>2 DEF Running
  <1>3. CASE \E fr \in Frame : stack' = Push(fr, s) /\ fr.kind # "destructor"
    BY <1>3, PushedTop
  <1> QED
    BY <1>1, <1>2, <1>3 DEF GoesOnWith

LEMMA StoresLeft ==
  ASSUME NEW s \in Seq(Frame), GoesOnWith(s), Reported(s, m_copyRequests', result')
  PROVE  StoresTold'
  <1>1. Reported(stack', m_copyRequests', result')
    BY ReportedPush DEF GoesOnWith
  <1> QED
    BY <1>1 DEF StoresTold, Reported

LEMMA StoresBelow ==
  ASSUME ChainInv, StoresTold, NEW kind, Running(kind), kind \notin {"NotifyCompletion", "destructor"}
  PROVE  /\ Reported(Below, m_copyRequests, result)
         /\ IsStoreReturn(Top) => Top.owner \notin m_copyRequests /\ result[Top.owner] = "ok"
  <1>1. stack \in Seq(Frame) /\ stack # <<>> /\ Top.kind = kind
    BY DEF ChainInv, ToldInv, TypeOK, Running, Top
  <1>2. Reported(stack, m_copyRequests, result)
    BY <1>1 DEF StoresTold, StoreCompletes, Running, Top
  <1> QED
    BY <1>1, <1>2, ReportedPop DEF Below, Top

LEMMA OpenUnless ==
  ASSUME NEW kind, Running(kind), kind # "destructor"
  PROVE  ~Running("destructor")
  BY DEF Running

(***************************************************************************)
(* Calls of users and listeners, and the start of a request.               *)
(***************************************************************************)
LEMMA CallQueues ==
  ASSUME ToldInv, NEW s \in Seq(Frame), MakeCall(s), ~Running("destructor"),
         AllSettled(s, issued, m_copyRequests, copied),
         Reported(s, m_copyRequests, result)
  PROVE  StoresTold' /\ Queues!Next
  <1>1. PICK i : i = issued + 1
    OBVIOUS
  <1>2. /\ i \notin 1..issued /\ TypeOK /\ Unissued /\ UnreportedStarted
        /\ DOMAIN result = Id
    <2>1. TypeOK /\ Unissued /\ UnreportedStarted /\ issued \in Nat
      BY ToldFacts DEF ToldInv
    <2>2. i \notin 1..issued
      BY <1>1, <2>1
    <2> QED
      BY <2>1, <2>2 DEF TypeOK
  <1>3. /\ GoesOnWith(s)
        /\ \A k \in 1..issued : k \notin m_copyRequests /\ result[k] = "ok" =>
             k \notin m_copyRequests' /\ result'[k] = "ok"
    <2>1. CASE NothingSelected(call[i])
      <3>1. /\ m_copyRequests' = m_copyRequests /\ TellStopped(i, TRUE, s)
        BY <1>1, <2>1 DEF MakeCall, NothingToCopy
      <3>2. GoesOnWith(s)
        BY <3>1, FrameTypes, FramesLeft DEF TellStopped, GoesOnWith
      <3> QED
        BY <1>2, <3>1, <3>2 DEF TellStopped
    <2>2. CASE ~NothingSelected(call[i])
      <3>1. /\ m_copyRequests' = m_copyRequests \cup {i} /\ result' = result
            /\ stack' = IF QueueRequest(i) THEN Push(DoNextCopyFrame, s) ELSE s
        BY <1>1, <2>2 DEF MakeCall, DoCopy, listenerVars
      <3>2. GoesOnWith(s)
        BY <3>1, FrameTypes, FramesLeft DEF GoesOnWith
      <3> QED
        BY <1>2, <3>1, <3>2
    <2> QED
      BY <2>1, <2>2
  <1>4. Reported(s, m_copyRequests', result')
    BY <1>3, ReportedKept
  <1>5. ~Running("destructor")'
    BY <1>3, StaysOpen
  <1> QED
    BY <1>2, <1>3, <1>4, <1>5, StoresLeft, QueuesMake

LEMMA CallsQueue ==
  ASSUME ChainInv, StoresTold, UserCall \/ ListenerCalls
  PROVE  StoresTold' /\ Queues!Next
  <1>1. CASE UserCall
    <2>1. stack = <<>> /\ MakeCall(<<>>) /\ ~Running("destructor") /\ <<>> \in Seq(Frame)
      BY <1>1 DEF UserCall, Running
    <2> QED
      BY <2>1, ChainRest, NoneSettled, NoneReported, CallQueues
  <1>2. CASE ListenerCalls
    <2>1. Running("OnStopCopy") /\ MakeCall(stack) /\ ~Running("destructor")
      BY <1>2, OpenUnless DEF ListenerCalls
    <2>2. /\ ToldInv /\ stack = Push(Top, Below) /\ Top \in Frame /\ Below \in Seq(Frame)
          /\ Top.kind = "OnStopCopy"
          /\ AllSettled(Below, issued, m_copyRequests, copied)
          /\ Reported(Below, m_copyRequests, result)
          /\ IsStoreReturn(Top) => Top.owner \notin m_copyRequests /\ result[Top.owner] = "ok"
      BY <2>1, ChainTop, StoresBelow
    <2>3. Settled(Top, issued, m_copyRequests, copied)
      BY <2>2 DEF Settled
    <2>4. /\ stack \in Seq(Frame) /\ AllSettled(stack, issued, m_copyRequests, copied)
          /\ Reported(stack, m_copyRequests, result)
      BY <2>2, <2>3, PushType, SettledPush, ReportedPush
    <2> QED
      BY <2>1, <2>2, <2>4, CallQueues
  <1> QED
    BY <1>1, <1>2

LEMMA StartQueues ==
  ASSUME OneEntryCalls, ChainInv, StoresTold, TypeOK', DoNextCopyStarts
  PROVE  StoresTold' /\ Queues!Next
  <1>1. Running("DoNextCopy") /\ ~Running("destructor") /\ result' = result
    BY OpenUnless DEF DoNextCopyStarts
  <1>2. /\ ToldInv /\ TypeOK /\ StartedIsProcessed /\ UnreportedStarted /\ Below \in Seq(Frame)
        /\ AllSettled(Below, issued, m_copyRequests, copied)
        /\ Reported(Below, m_copyRequests, result)
    BY <1>1, ChainTop, StoresBelow DEF ToldInv
  <1>3. m_copyRequests' = m_copyRequests
    BY <1>2, ToldStart
  <1>4. GoesOnWith(Below)
    <2>1. PICK i \in m_copyRequests :
            \/ \E k \in Sources(i) :
                 stack' = Push(CopyMessagesFrame(i, k, call[i].src, Dst(i)), Below)
            \/ stack' = Push(CopyFileMessageFrame(i), Below)
      BY <1>2, ToldStart
    <2>2. PICK fr : stack' = Push(fr, Below) /\ fr.kind # "destructor" /\ ~IsStoreReturn(fr)
      BY <2>1, FramesLeft
    <2>3. fr \in Frame
      <3>1. stack' \in Seq(Frame) /\ stack' # <<>> /\ fr = Head(stack')
        BY <2>2 DEF Push, TypeOK
      <3> QED
        BY <3>1
    <2> QED
      BY <2>2, <2>3 DEF GoesOnWith
  <1> QED
    BY <1>1, <1>2, <1>3, <1>4, StaysOpen, StoresLeft, QueuesStart

(***************************************************************************)
(* Steps that change no status.                                            *)
(***************************************************************************)
LEMMA QuietQueues ==
  ASSUME UNCHANGED <<call, issued, m_copyRequests, starts, result, unreported>>,
         ~Running("destructor"),
         NEW s \in Seq(Frame), NEW n, NEW q, NEW c, AllSettled(s, n, q, c), GoesOnWith(s),
         Reported(s, m_copyRequests, result)
  PROVE  StoresTold' /\ UNCHANGED Queues!vars
  <1>1. StoresTold'
    BY StoresLeft
  <1>2. ~Running("destructor")'
    BY StaysOpen
  <1> QED
    BY <1>1, <1>2, QueuesStutter

LEMMA ReturnsQueue ==
  ASSUME ChainInv, StoresTold, ListenerReturns \/ DoNextCopyFindsNone \/ InitCopyState
  PROVE  StoresTold' /\ UNCHANGED Queues!vars
  <1>1. PICK kind \in {"OnStopCopy", "DoNextCopy", "CopyMessages"} :
          Running(kind) /\ kind \notin {"NotifyCompletion", "destructor"}
    BY DEF ListenerReturns, DoNextCopyFindsNone, InitCopyState
  <1>2. GoesOnWith(Below) /\ UNCHANGED <<call, issued, m_copyRequests, starts, result, unreported>>
    BY DEF ListenerReturns, DoNextCopyFindsNone, InitCopyState, Return, GoesOnWith,
           queueVars, listenerVars
  <1> QED
    BY <1>1, <1>2, ChainTop, StoresBelow, OpenUnless, QuietQueues

LEMMA ErrsQueue ==
  ASSUME ChainInv, StoresTold, CopyMessagesErrs
  PROVE  StoresTold' /\ [Queues!Next]_(Queues!vars)
  <1>1. /\ Running("CopyMessages") /\ stack' = Below /\ ~Running("destructor")
        /\ unreported' = unreported \cup {Top.owner}
        /\ UNCHANGED <<call, issued, m_copyRequests, starts, result>>
    BY OpenUnless DEF CopyMessagesErrs, Return, queueVars, listenerVars
  <1>2. /\ TypeOK /\ Below \in Seq(Frame)
        /\ AllSettled(Below, issued, m_copyRequests, copied)
        /\ Reported(Below, m_copyRequests, result)
        /\ GoesOnWith(Below)
    BY <1>1, ChainTop, StoresBelow DEF GoesOnWith
  <1>3. PICK i \in m_copyRequests : i = Top.owner /\ starts[i] > 0
    BY <1>1, ChainCopy DEF Copying, Attends, InFlight
  <1>4. StoresTold'
    BY <1>1, <1>2, StoresLeft
  <1>5. ~Running("destructor")'
    BY <1>2, StaysOpen
  <1> QED
    BY <1>1, <1>2, <1>3, <1>4, <1>5, QueuesHang

LEMMA CompletedQueues ==
  ASSUME TypeOK, UNCHANGED <<call, issued, m_copyRequests, starts, result, unreported>>,
         ~Running("destructor"),
         NEW s \in Seq(Frame), NEW n, NEW q, NEW c, AllSettled(s, n, q, c),
         Reported(s, m_copyRequests, result), TypeOK',
         NEW sup, NEW dst, NEW ok, OnCopyCompleted(sup, dst, ok, s)
  PROVE  StoresTold' /\ UNCHANGED Queues!vars
  <1>1. PICK fr : /\ fr.kind # "destructor" /\ ~IsStoreReturn(fr)
                  /\ stack' = Push(fr, s)
    BY FramesLeft DEF OnCopyCompleted
  <1>2. fr \in Frame
    <2>1. stack' \in Seq(Frame) /\ stack' # <<>> /\ fr = Head(stack')
      BY <1>1 DEF Push, TypeOK
    <2> QED
      BY <2>1
  <1>3. GoesOnWith(s)
    BY <1>1, <1>2 DEF GoesOnWith
  <1> QED
    BY <1>3, QuietQueues

LEMMA CopiesQueue ==
  ASSUME OneEntryCalls, ChainInv, StoresTold, TypeOK',
         CopyMessagesFails \/ CopyFileFails \/ CopyFileCopies
  PROVE  StoresTold' /\ UNCHANGED Queues!vars
  <1>1. PICK kind \in {"CopyMessages", "CopyFileMessage"} : Running(kind)
    BY DEF CopyMessagesFails, CopyFileFails, CopyFileCopies
  <1>2. kind \notin {"NotifyCompletion", "destructor"}
    BY <1>1
  <1>3. /\ TypeOK /\ Below \in Seq(Frame) /\ ~Running("destructor")
        /\ AllSettled(Below, issued, m_copyRequests, copied)
        /\ Reported(Below, m_copyRequests, result)
    BY <1>1, <1>2, ChainTop, StoresBelow, OpenUnless
  <1>4. UNCHANGED <<call, issued, m_copyRequests, starts, result, unreported>>
    BY DEF CopyMessagesFails, CopyFileFails, CopyFileCopies, queueVars, listenerVars
  <1>5. ASSUME NEW ok \in BOOLEAN
        PROVE  /\ Yielding(ok, Below) \in Seq(Frame)
               /\ AllSettled(Yielding(ok, Below), issued, m_copyRequests, copied)
               /\ Reported(Yielding(ok, Below), m_copyRequests, result)
    BY <1>3, <1>5, YieldingSettled, ReportedYields
  <1>6. CASE CopyMessagesFails
    <2>1. PICK s \in {Below, Yielding(TRUE, Below), Yielding(FALSE, Below)} :
            OnCopyCompleted(Top.sup, Top.dst, FALSE, s)
      BY <1>6 DEF CopyMessagesFails
    <2>2. /\ s \in Seq(Frame) /\ AllSettled(s, issued, m_copyRequests, copied)
          /\ Reported(s, m_copyRequests, result)
      BY <1>3, <1>5, <2>1
    <2> QED
      BY <1>3, <1>4, <2>1, <2>2, CompletedQueues
  <1>7. CASE CopyFileFails
    <2>1. PICK ok \in BOOLEAN :
            OnCopyCompleted(call[Top.owner].src, Dst(Top.owner), FALSE, Yielding(ok, Below))
      BY <1>7 DEF CopyFileFails
    <2> QED
      BY <1>3, <1>4, <1>5, <2>1, CompletedQueues
  <1>8. CASE CopyFileCopies /\ Sources(Top.owner) = {}
    <2>1. OnCopyCompleted(call[Top.owner].src, Dst(Top.owner), TRUE, Yielding(TRUE, Below))
      BY <1>8 DEF CopyFileCopies
    <2> QED
      BY <1>3, <1>4, <1>5, <2>1, CompletedQueues
  <1>9. CASE CopyFileCopies /\ Sources(Top.owner) # {}
    <2>1. PICK i, fr, s : i = Top.owner /\ fr = CopyFileReturn(i) /\ s = Push(fr, Below)
      OBVIOUS
    <2>2. OnCopyCompleted(call[i].src, Dst(i), TRUE, s)
      BY <1>9, <2>1 DEF CopyFileCopies
    <2>3. Running("CopyFileMessage")
      BY <1>9 DEF CopyFileCopies
    <2>4. i \in m_copyRequests /\ call[i].method = "files"
      BY <2>1, <2>3, ChainCopy
    <2>5. i \in Id /\ i \in 1..issued /\ issued \in Nat /\ ~NothingSelected(call[i])
      BY <1>3, <2>4, ToldFacts DEF NothingSelected
    <2>6. ~OneSourceCalls
      BY <1>3, <1>9, <2>1, <2>4, <2>5, OneEntryPieces
    <2>7. fr \in Frame /\ IsFileReturn(fr) /\ fr.owner = i /\ ~IsStoreReturn(fr)
      BY <2>1, <2>5, FrameTypes, FramesLeft DEF CopyFileReturn, IsFileReturn
    <2>8. Settled(fr, issued, m_copyRequests \ {i}, copied)
      BY <2>5, <2>6, <2>7 DEF Settled
    <2>9. AllSettled(Below, issued, m_copyRequests \ {i}, copied)
      BY <1>3, <2>5, SettledGrows
    <2>10. /\ s \in Seq(Frame) /\ AllSettled(s, issued, m_copyRequests \ {i}, copied)
           /\ Reported(s, m_copyRequests, result)
      BY <1>3, <2>1, <2>7, <2>8, <2>9, PushType, SettledPush, ReportedPush
    <2> QED
      BY <1>3, <1>4, <2>2, <2>10, CompletedQueues
  <1> QED
    BY <1>6, <1>7, <1>8, <1>9

LEMMA FileReturnsQueue ==
  ASSUME ChainInv, StoresTold, TypeOK', CopyFileReturns \/ ResultReturns
  PROVE  StoresTold' /\ UNCHANGED Queues!vars
  <1>1. PICK kind \in {"CopyFileMessage returns", "result"} : Running(kind)
    BY DEF CopyFileReturns, ResultReturns
  <1>2. kind \notin {"NotifyCompletion", "destructor"}
    BY <1>1
  <1>3. /\ TypeOK /\ Below \in Seq(Frame) /\ ~Running("destructor")
        /\ AllSettled(Below, issued, m_copyRequests, copied)
        /\ Reported(Below, m_copyRequests, result)
    BY <1>1, <1>2, ChainTop, StoresBelow, OpenUnless
  <1>4. UNCHANGED <<call, issued, m_copyRequests, starts, result, unreported>>
    BY DEF CopyFileReturns, ResultReturns, queueVars, listenerVars
  <1>5. CASE stack' = Below
    BY <1>3, <1>4, <1>5, QuietQueues DEF GoesOnWith
  <1>6. CASE OnCopyCompleted(call[Top.owner].src, Dst(Top.owner), FALSE, Yielding(FALSE, Below))
    <2>1. /\ Yielding(FALSE, Below) \in Seq(Frame)
          /\ AllSettled(Yielding(FALSE, Below), issued, m_copyRequests, copied)
          /\ Reported(Yielding(FALSE, Below), m_copyRequests, result)
      BY <1>3, YieldingSettled, ReportedYields
    <2> QED
      BY <1>3, <1>4, <1>6, <2>1, CompletedQueues
  <1> QED
    BY <1>5, <1>6 DEF CopyFileReturns, ResultReturns, Return

LEMMA StreamsQueue ==
  ASSUME ChainInv, TypeOK', NEW f \in Folder, CopyEnds(f)
  PROVE  StoresTold' /\ UNCHANGED Queues!vars
  <1>1. PICK ok \in BOOLEAN : StreamEnds(f, ok)
    BY DEF CopyEnds
  <1>2. stack = <<>> /\ ~Running("destructor") /\ <<>> \in Seq(Frame)
    BY DEF CopyEnds, Running
  <1>3. /\ OnCopyCompleted(mCopyState[f].srcSupport, f, ok, <<>>)
        /\ UNCHANGED <<call, issued, m_copyRequests, starts, result, unreported>>
    BY <1>1 DEF StreamEnds, queueVars, listenerVars
  <1> QED
    BY <1>2, <1>3, ChainRest, NoneSettled, NoneReported, CompletedQueues DEF ToldInv

LEMMA NotifyEndsQueue ==
  ASSUME OneEntryCalls, NoTwinCalls, ChainInv, StoresTold, NotifyCompletionEnds
  PROVE  StoresTold' /\ UNCHANGED Queues!vars
  <1>1. /\ Running("NotifyCompletion") /\ ~Running("destructor")
        /\ \A i \in m_copyRequests : ~Clearable(i)
        /\ stack' = Push(DoNextCopyFrame, Below)
        /\ UNCHANGED <<call, issued, m_copyRequests, starts, result, unreported>>
    BY OpenUnless DEF NotifyCompletionEnds, queueVars, listenerVars
  <1>2. /\ ToldInv /\ Below \in Seq(Frame)
        /\ stack = Push(Top, Below) /\ Top \in Frame
        /\ AllSettled(Below, issued, m_copyRequests, copied)
    BY <1>1, ChainTop, CompletingIsFound
  <1>3. ~StoreCompletes
    BY <1>1, <1>2, TheOneCompleting, CompletingIsFound DEF StoreCompletes
  <1>4. Reported(Below, m_copyRequests, result)
    <2>1. stack \in Seq(Frame) /\ stack # <<>> /\ Reported(stack, m_copyRequests, result)
      BY <1>1, <1>2, <1>3 DEF StoresTold, Running, ToldInv, TypeOK
    <2> QED
      BY <2>1, ReportedPop DEF Below
  <1>5. GoesOnWith(Below)
    BY <1>1, FrameTypes, FramesLeft DEF GoesOnWith
  <1> QED
    BY <1>1, <1>2, <1>4, <1>5, QuietQueues

(***************************************************************************)
(* The two calls of a maildir store: to the folder, whose NotifyCompletion *)
(* tells the listener first, and to the listener again.                    *)
(***************************************************************************)
LEMMA StoreTellsQueue ==
  ASSUME ChainInv, StoresTold, MaildirStops
  PROVE  StoresTold' /\ UNCHANGED Queues!vars
  <1>1. PICK kind : Running(kind) /\ IsStoreReturn(Top) /\ kind \notin {"NotifyCompletion", "destructor"}
    BY DEF MaildirStops, IsStoreReturn, Running, Top
  <1>2. /\ TypeOK /\ Below \in Seq(Frame) /\ ~Running("destructor")
        /\ AllSettled(Below, issued, m_copyRequests, copied)
        /\ Reported(Below, m_copyRequests, result)
        /\ result[Top.owner] = "ok"
    BY <1>1, ChainTop, StoresBelow, OpenUnless
  <1>3. /\ TellStopped(Top.owner, TRUE, Below)
        /\ UNCHANGED <<call, issued, m_copyRequests, starts, unreported>>
    BY DEF MaildirStops, queueVars
  <1>4. result' = result
    <2>1. result' = [result EXCEPT ![Top.owner] = "ok"]
      BY <1>3 DEF TellStopped
    <2> QED
      BY <1>2, <2>1 DEF TypeOK
  <1>5. GoesOnWith(Below)
    BY <1>3, FrameTypes, FramesLeft DEF TellStopped, GoesOnWith
  <1> QED
    BY <1>2, <1>3, <1>4, <1>5, QuietQueues

LEMMA MaildirQueue ==
  ASSUME ChainInv, StoresTold, TypeOK', MaildirCopies
  PROVE  StoresTold' /\ UNCHANGED Queues!vars
  <1>1. Running("CopyMessages") /\ ~Running("destructor")
    BY OpenUnless DEF MaildirCopies
  <1>2. PICK i, sup, dst :
          /\ i = Top.owner /\ sup = Top.sup /\ dst = Top.dst
          /\ i \in m_copyRequests /\ Copying(i) /\ EndsOf(i, Top)
    BY <1>1, ChainCopy
  <1>3. /\ TypeOK /\ Below \in Seq(Frame) /\ i \in Id /\ starts \in [Id -> Nat]
        /\ AllSettled(Below, issued, m_copyRequests, copied)
        /\ Reported(Below, m_copyRequests, result)
        /\ starts[i] > 0
    BY <1>1, <1>2, ChainTop, ToldFacts, StoresBelow DEF Copying, Attends, InFlight
  <1>4. PICK fr, s, y :
          /\ fr = NotifyFrame(sup, dst, TRUE, Cardinality(m_copyRequests))
          /\ y = Yielding(TRUE, Below) /\ s = Push(MaildirReturn(i), y) /\ stack' = Push(fr, s)
          /\ y \in Seq(Frame) /\ Reported(y, m_copyRequests, result)
    BY <1>2, <1>3, YieldingSettled, ReportedYields DEF MaildirCopies, OnCopyCompleted
  <1>5. /\ s \in Seq(Frame) /\ s # <<>> /\ Head(s) = MaildirReturn(i) /\ Tail(s) = y
    BY <1>3, <1>4, FrameTypes, PushFields
  <1>6. /\ Top' = fr /\ Below' = s /\ \A kind : Running(kind)' <=> fr.kind = kind
    <2>1. s \in Seq(Frame) /\ stack' = Push(fr, s)
      BY <1>4, <1>5
    <2> QED
      BY <2>1, PushedTop
  <1>7. fr.kind = "NotifyCompletion" /\ fr.ok /\ fr.sup = sup /\ fr.dst = dst
    BY <1>4 DEF NotifyFrame
  <1>8. /\ UNCHANGED <<call, issued, m_copyRequests, result, unreported>>
        /\ starts' = [starts EXCEPT ![i] = @ + 1]
    BY <1>2 DEF MaildirCopies, queueVars
  <1>9. MaildirReturn(i).owner = i /\ IsStoreReturn(MaildirReturn(i))
    BY DEF MaildirReturn, IsStoreReturn
  <1>10. StoreCompletes'
    <2>1. EndsOf(i, fr)'
      BY <1>2, <1>7, <1>8 DEF EndsOf, Dst
    <2>2. Reported(Tail(s), m_copyRequests', result')
      BY <1>4, <1>5, <1>8
    <2>3. Running("NotifyCompletion")'
      BY <1>6, <1>7
    <2> QED
      BY <1>2, <1>5, <1>6, <1>7, <1>8, <1>9, <2>1, <2>2, <2>3 DEF StoreCompletes, Reported, EndsOf
  <1>11. ~Running("destructor")'
    BY <1>6, <1>7
  <1>12. \A k \in Id : Status(k)' = Status(k)
    <2>1. \A k \in Id : starts'[k] > 0 <=> starts[k] > 0
      BY <1>3, <1>8
    <2> QED
      BY <1>8, <2>1 DEF Status
  <1>13. UNCHANGED Queues!vars
    BY <1>1, <1>8, <1>11, <1>12, StatusesKept
  <1> QED
    BY <1>10, <1>13 DEF StoresTold

(***************************************************************************)
(* A request leaves the queue: it stops with its outcome.                  *)
(***************************************************************************)
LEMMA ClearQueues ==
  ASSUME OneEntryCalls, NoTwinCalls, ChainInv, StoresTold, TypeOK', NotifyCompletionClears
  PROVE  StoresTold' /\ Queues!Next
  <1>1. /\ Running("NotifyCompletion") /\ ~Running("destructor")
        /\ call' = call /\ unreported' = unreported
    BY OpenUnless DEF NotifyCompletionClears
  <1>2. /\ ToldInv /\ TypeOK /\ Below \in Seq(Frame) /\ Top \in Frame
        /\ stack = Push(Top, Below)
    BY <1>1, ChainTop
  <1>3. PICK i \in m_copyRequests :
          /\ FindRequest(i, Top.sup, Top.dst)
          /\ ClearRequest(i, Top.ok, Push(NotifyFrame(Top.sup, Top.dst, Top.ok, Top.orig - 1), Below))
    BY DEF NotifyCompletionClears, Clearable
  <1>4. Completing(i)
    BY <1>1, <1>3, ChainCompletion
  <1>5. /\ starts[i] > 0 /\ i \notin unreported /\ EndsOf(i, Top) /\ Top.ok \in BOOLEAN
        /\ AllSettled(Below, issued, m_copyRequests \ {i}, copied)
    BY <1>1, <1>2, <1>4, TopType DEF Completing, Attends, InFlight
  <1>6. PICK fr, ok : /\ fr = NotifyFrame(Top.sup, Top.dst, Top.ok, Top.orig - 1)
                      /\ ok = Top.ok
    OBVIOUS
  <1>7. /\ m_copyRequests' = m_copyRequests \ {i}
        /\ result' = [result EXCEPT ![i] = IF ok THEN "ok" ELSE "failed"]
        /\ DOMAIN result = Id /\ i \in Id
        /\ stack' = Push(fr, Below) \/ stack' = Push(ListenerFrame, Push(fr, Below))
    BY <1>2, <1>3, <1>6, ToldFacts DEF ClearRequest, TellStopped, TypeOK
  <1>8. fr \in Frame /\ fr.kind # "destructor" /\ ~IsStoreReturn(fr)
    <2>1. /\ stack' \in Seq(Frame) /\ stack' # <<>>
          /\ stack'[1] = fr \/ (2 \in DOMAIN stack' /\ stack'[2] = fr)
      BY <1>2, <1>7 DEF Push, TypeOK
    <2>2. fr \in Frame
      BY <2>1
    <2> QED
      BY <1>6, <2>2, FramesLeft
  <1>9. ASSUME NEW n \in 1..issued, n \notin m_copyRequests, result[n] = "ok"
        PROVE  n \notin m_copyRequests' /\ result'[n] = "ok"
    BY <1>7, <1>9
  <1>10. Reported(Below, m_copyRequests', result')
    <2>1. CASE Reported(stack, m_copyRequests, result)
      <3>1. stack \in Seq(Frame) /\ stack # <<>>
        BY <1>1, <1>2 DEF Running, TypeOK
      <3>2. Reported(Below, m_copyRequests, result)
        BY <2>1, <3>1, ReportedPop DEF Below
      <3> QED
        BY <1>5, <1>9, <3>2, ReportedKept
    <2>2. CASE StoreCompletes
      <3>1. PICK o, s : o = Head(Below) /\ s = Tail(Below)
        OBVIOUS
      <3>2. /\ ok /\ Below # <<>> /\ o.owner \in m_copyRequests /\ EndsOf(o.owner, Top)
            /\ Reported(s, m_copyRequests, result)
        BY <1>6, <2>2, <3>1 DEF StoreCompletes
      <3>3. o.owner = i
        <4>1. o.owner \in Id /\ i \in Id /\ call \in Scripts
          BY <1>2, <3>2, ToldFacts
        <4> QED
          BY <1>5, <3>2, <4>1 DEF EndsOf, NoTwinCalls, Dst
      <3>4. /\ s \in Seq(Frame) /\ o \in Frame /\ Below = Push(o, s)
            /\ AllSettled(s, issued, m_copyRequests \ {i}, copied)
        BY <1>2, <1>5, <3>1, <3>2, SettledPop DEF Push
      <3>5. Reported(s, m_copyRequests', result')
        BY <1>9, <3>2, <3>4, ReportedKept
      <3>6. o.owner \notin m_copyRequests' /\ result'[o.owner] = "ok"
        BY <1>7, <3>2, <3>3
      <3> QED
        BY <3>4, <3>5, <3>6, ReportedPush
    <2> QED
      BY <2>1, <2>2 DEF StoresTold
  <1>11. StoresTold'
    <2>1. Push(fr, Below) \in Seq(Frame) /\ Reported(Push(fr, Below), m_copyRequests', result')
      BY <1>2, <1>8, <1>10, PushType, ReportedPush
    <2>2. GoesOnWith(Push(fr, Below))
      BY <1>7, FrameTypes, FramesLeft DEF GoesOnWith
    <2> QED
      BY <2>1, <2>2, StoresLeft
  <1>12. ~Running("destructor")'
    <2>1. CASE stack' = Push(fr, Below)
      BY <1>2, <1>8, <2>1, PushedTop
    <2>2. CASE stack' = Push(ListenerFrame, Push(fr, Below))
      BY <1>2, <1>8, <2>2, FramesLeft, PushType, PushedTop
    <2> QED
      BY <1>7, <2>1, <2>2
  <1>13. Queues!Next
    BY <1>1, <1>2, <1>3, <1>5, <1>12, QueuesLeave
  <1> QED
    BY <1>11, <1>13

LEMMA DestroyQueues ==
  ASSUME ChainInv, Destroy \/ DestructorClears
  PROVE  StoresTold' /\ Queues!Next
  <1>1. stack' = <<DestroyFrame>> => StoresTold'
    <2>1. <<DestroyFrame>> = Push(DestroyFrame, <<>>) /\ <<>> \in Seq(Frame)
      BY DEF Push
    <2>2. Reported(<<DestroyFrame>>, m_copyRequests', result')
      BY <2>1, NoneReported, FrameTypes, FramesLeft, ReportedPush
    <2> QED
      BY <2>2 DEF StoresTold, Reported
  <1>2. CASE Destroy
    BY <1>1, <1>2, QueuesClose DEF Destroy
  <1>3. CASE DestructorClears
    <2>1. Running("destructor") /\ call' = call /\ unreported' = unreported /\ TypeOK
      BY <1>3 DEF DestructorClears, ChainInv, ToldInv
    <2>2. PICK i \in m_copyRequests : ClearRequest(i, FALSE, stack)
      BY <1>3 DEF DestructorClears
    <2>3. stack = <<DestroyFrame>>
      BY <2>1, OnlyDestructor
    <2>4. stack' = <<DestroyFrame>> /\ Running("destructor")'
      BY <2>1, <2>2, <2>3 DEF ClearRequest, TellStopped, Running
    <2> QED
      BY <1>1, <2>1, <2>2, <2>4, QueuesLeave
  <1> QED
    BY <1>2, <1>3

LEMMA ChainQueues ==
  ASSUME OneEntryCalls, NoTwinCalls, ChainInv, StoresTold, [Next]_vars
  PROVE  StoresTold' /\ [Queues!Next]_(Queues!vars)
  <1>1. TypeOK'
    BY NextTypeOK DEF ChainInv, ToldInv
  <1>2. CASE UserCall \/ ListenerCalls
    BY <1>2, CallsQueue
  <1>3. CASE Destroy \/ DestructorClears
    BY <1>3, DestroyQueues
  <1>4. CASE ListenerReturns \/ DoNextCopyFindsNone \/ InitCopyState
    BY <1>4, ReturnsQueue
  <1>5. CASE DoNextCopyStarts
    BY <1>1, <1>5, StartQueues
  <1>6. CASE NotifyCompletionClears
    BY <1>1, <1>6, ClearQueues
  <1>7. CASE NotifyCompletionEnds
    BY <1>7, NotifyEndsQueue
  <1>8. CASE CopyMessagesFails \/ CopyFileFails \/ CopyFileCopies
    BY <1>1, <1>8, CopiesQueue
  <1>9. CASE MaildirCopies \/ MaildirStops
    BY <1>1, <1>9, MaildirQueue, StoreTellsQueue
  <1>10. CASE CopyFileReturns \/ ResultReturns
    BY <1>1, <1>10, FileReturnsQueue
  <1>11. CASE \E f \in Folder : CopyEnds(f)
    BY <1>1, <1>11, StreamsQueue
  <1>12. CASE \/ CopyFolderRefuses \/ CopyFolderAcrossServer
              \/ CopyFolderLocal \/ CopyFolderReturns
    BY <1>12, ChainNever
  <1>13. CASE UNCHANGED vars
    <2>1. UNCHANGED <<call, issued, m_copyRequests, starts, result, stack, unreported>>
      BY <1>13 DEF vars, listenerVars, queueVars
    <2>2. StoresTold'
      BY <2>1 DEF StoresTold, StoreCompletes, Reported, Running, Top, Below, EndsOf, Dst
    <2>3. Running("destructor")' <=> Running("destructor")
      BY <2>1 DEF Running
    <2> QED
      BY <2>1, <2>2, <2>3, QueuesStutter
  <1>14. CASE CopyMessagesErrs
    BY <1>14, ErrsQueue
  <1> QED
    BY <1>2, <1>3, <1>4, <1>5, <1>6, <1>7, <1>8, <1>9, <1>10, <1>11, <1>12, <1>13, <1>14
    DEF Next, Service, LocalFolder

(***************************************************************************)
(* However deep the calls of listeners nest, and though maildir stores call*)
(* listeners as well: every step of the service and its destinations is a  *)
(* step of first-in first-out queues, one for each destination, or leaves  *)
(* them as they are.  A request hangs when CopyMessages returns an error   *)
(* that it does not report.                                                *)
(***************************************************************************)
THEOREM ChainIsQueues ==
  ASSUME OneEntryCalls, NoTwinCalls
  PROVE  Spec => Queues!Spec
  <1>1. Init => ChainInv /\ StoresTold /\ Queues!Init
    <2>1. Init => StoresTold
      BY NoneReported DEF Init, StoresTold
    <2> QED
      BY <2>1, ChainInit, QueuesInit
  <1>2. ChainInv /\ StoresTold /\ [Next]_vars => ChainInv' /\ StoresTold'
    BY ChainStep, ChainQueues
  <1>3. ChainInv /\ StoresTold /\ [Next]_vars => [Queues!Next]_(Queues!vars)
    BY ChainQueues
  <1> QED
    BY <1>1, <1>2, <1>3, PTL DEF Spec, Queues!Spec
=============================================================================
