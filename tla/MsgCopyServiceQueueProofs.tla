----------------------- MODULE MsgCopyServiceQueueProofs -----------------------
(***************************************************************************)
(* What listeners are told is true, and the service is a set of first-in   *)
(* first-out queues: the safety part of ImplementsQueues.                  *)
(***************************************************************************)
EXTENDS MsgCopyServiceSafetyProofs

(***************************************************************************)
(* No file is copied to a folder twice: of two such requests the one that  *)
(* waits has no source left either, and FindRequest takes it for done.     *)
(***************************************************************************)
FilesAreDistinct ==
  \A script \in Scripts, i, k \in Id :
    i # k /\ script[i].method = "files" =>
      script[k].src # script[i].src \/ script[k].dst # script[i].dst

SameEndsAsTop(i) == call[i].src = Top.sup /\ Dst(i) = Top.dst

CopiedPieces == \A i \in Id : copied[i] \subseteq Pieces(i)

EntryIsSource ==
  /\ Running("CopyMessages") => Top.entry \in Sources(Top.owner)
  /\ \A f \in Folder : Busy(f) => mCopyState[f].entry \in Sources(mCopyState[f].owner)

(***************************************************************************)
(* While NotifyCompletion says of a copy that it succeeded, the request it *)
(* is for has its sources; when it failed, that request is still in        *)
(* flight or was told so.                                                  *)
(***************************************************************************)
CompletesOne ==
  Running("NotifyCompletion") =>
    /\ \A i \in m_copyRequests : SameEndsAsTop(i) =>
         /\ Sources(i) = {} => starts[i] > 0
         /\ Top.ok /\ starts[i] > 0 => copied[i] = Pieces(i)
    /\ ~Top.ok => \E i \in Id : SameEndsAsTop(i) /\ Status(i) \in {"copying", "failed"}

ReportInv == StartsOnce /\ OkMeansCopied /\ CopiedPieces /\ EntryIsSource /\ CompletesOne

-----------------------------------------------------------------------------
LEMMA ReportInit == Init => ReportInv
  <1> SUFFICES ASSUME Init PROVE ReportInv
    OBVIOUS
  <1>1. StartsOnce /\ OkMeansCopied /\ CopiedPieces
    BY DEF Init, StartsOnce, OkMeansCopied, CopiedPieces
  <1>2. EntryIsSource /\ CompletesOne
    BY DEF Init, EntryIsSource, CompletesOne, Running, Busy
  <1> QED
    BY <1>1, <1>2 DEF ReportInv

LEMMA SamePieces ==
  ASSUME call' = call
  PROVE  \A i : /\ Sources(i)' = Sources(i)
               /\ Pieces(i)' = Pieces(i)
               /\ Dst(i)' = Dst(i)
  BY DEF Sources, Pieces, Dst

(***************************************************************************)
(* Sources that arrive take nothing from what was reported.                *)
(***************************************************************************)
LEMMA Arrives ==
  ASSUME ReportInv, UNCHANGED <<call, starts, result>>,
         \A i \in Id : copied[i] \subseteq copied'[i] /\ copied'[i] \subseteq Pieces(i)
  PROVE  StartsOnce' /\ OkMeansCopied' /\ CopiedPieces'
  <1>1. StartsOnce'
    BY DEF ReportInv, StartsOnce
  <1>2. CopiedPieces'
    BY SamePieces DEF CopiedPieces
  <1>3. OkMeansCopied'
    BY SamePieces DEF ReportInv, OkMeansCopied, NothingSelected
  <1> QED
    BY <1>1, <1>2, <1>3

LEMMA NothingArrives ==
  ASSUME ReportInv, UNCHANGED <<call, starts, result, copied>>
  PROVE  StartsOnce' /\ OkMeansCopied' /\ CopiedPieces'
  BY Arrives DEF ReportInv, CopiedPieces

(***************************************************************************)
(* In a queue of distinct files a destination and a source belong to the   *)
(* request in flight and to copies of messages that wait.                  *)
(***************************************************************************)
LEMMA WaitingTwins ==
  ASSUME OneSourceScripts, FilesAreDistinct, SafeInv,
         NEW i \in m_copyRequests, NEW k \in m_copyRequests, i # k,
         call[k].src = call[i].src, Dst(k) = Dst(i)
  PROVE  Sources(i) # {}
  <1>1. /\ i \in Id /\ k \in Id
        /\ call \in Scripts
        /\ ~NothingSelected(call[i])
        /\ TypeOK
    BY QueueFinite DEF SafeInv, StartedIsProcessed, TypeOK
  <1>2. call[i].method # "files"
    BY <1>1 DEF FilesAreDistinct, Dst
  <1> QED
    BY <1>1, <1>2, OneSourceRequest

LEMMA QueuedStatus ==
  ASSUME TypeOK, NEW i \in m_copyRequests
  PROVE  /\ i \in Id
         /\ Status(i) = IF i \in unreported THEN "hung"
                       ELSE IF starts[i] > 0 THEN "copying" ELSE "waiting"
  <1>1. i \in Id /\ i <= issued
    <2>1. m_copyRequests \subseteq 1..issued
      BY DEF TypeOK
    <2> QED
      BY <2>1, QueueFinite
  <1>2. ~(i > issued)
    BY <1>1 DEF Id, TypeOK
  <1> QED
    BY <1>1, <1>2 DEF Status

(***************************************************************************)
(* A copy that completes is the one that NotifyCompletion finds.           *)
(***************************************************************************)
LEMMA CompletesTheOne ==
  ASSUME OneSourceScripts, FilesAreDistinct, SafeInv,
         UNCHANGED <<call, queueVars, starts, result, unreported>>,
         ~Running("destructor"),
         NEW i \in m_copyRequests, starts[i] > 0, Handled(Dst(i)),
         NEW ok, NEW n, stack' = Push(NotifyFrame(call[i].src, Dst(i), ok, n), <<>>),
         ok => copied'[i] = Pieces(i)
  PROVE  CompletesOne'
  <1>1. Top'.sup = call[i].src /\ Top'.dst = Dst(i) /\ Top'.ok = ok
    BY PushTop DEF Top, NotifyFrame
  <1>2. /\ UNCHANGED <<issued, m_copyRequests, starts, call, result, unreported>>
        /\ \A k : Sources(k)' = Sources(k) /\ Pieces(k)' = Pieces(k) /\ Dst(k)' = Dst(k)
    BY SamePieces DEF queueVars
  <1>3. ASSUME NEW k \in m_copyRequests, SameEndsAsTop(k)'
        PROVE  /\ Sources(k) = {} => starts[k] > 0
               /\ ok /\ starts[k] > 0 => copied'[k] = Pieces(k)
    <2>1. call[k].src = call[i].src /\ Dst(k) = Dst(i)
      BY <1>1, <1>2, <1>3 DEF SameEndsAsTop
    <2>2. Sources(k) = {} => k = i
      BY <2>1, WaitingTwins
    <2>3. starts[k] > 0 => k = i
      BY <2>1, OneInFlight DEF SafeInv
    <2> QED
      BY <2>2, <2>3
  <1>4. i \in Id /\ SameEndsAsTop(i)' /\ Status(i)' = "copying"
    <2>1. i \in Id /\ Status(i) = "copying"
      BY QueuedStatus DEF SafeInv, Hung
    <2>2. Status(i)' = Status(i)
      BY <1>2 DEF Status
    <2> QED
      BY <1>1, <1>2, <2>1, <2>2 DEF SameEndsAsTop
  <1> QED
    BY <1>1, <1>2, <1>3, <1>4 DEF CompletesOne

LEMMA CopiesReport ==
  ASSUME OneSourceScripts, FilesAreDistinct, SafeInv, ReportInv,
         CopyMessagesFails \/ CopyFileFails \/ CopyFileCopies
  PROVE  ReportInv'
  <1> DEFINE i == Top.owner
             n == Cardinality(m_copyRequests)
  <1>1. Running("CopyMessages") \/ Running("CopyFileMessage")
    BY DEF CopyMessagesFails, CopyFileFails, CopyFileCopies
  <1>2. Below = <<>> /\ ~Running("destructor")
    BY <1>1, NotNested
  <1>3. i \in m_copyRequests /\ i \in Id /\ starts[i] > 0
    BY <1>1, <1>2, QueueFinite DEF SafeInv, RunningCopy, InFlight
  <1>4. UNCHANGED <<call, queueVars, starts, stops, result, unreported>>
    BY DEF CopyMessagesFails, CopyFileFails, CopyFileCopies, listenerVars
  <1>5. PICK ok \in BOOLEAN :
          /\ OnCopyCompleted(call[i].src, Dst(i), ok, <<>>)
          /\ copied' = IF ok THEN [copied EXCEPT ![i] = Pieces(i)] ELSE copied
    <2>1. CASE CopyMessagesFails
      <3>1. Top.sup = call[i].src /\ Top.dst = Dst(i)
        BY <1>2, <2>1 DEF CopyMessagesFails, SafeInv, RunningCopy
      <3> QED
        BY <1>2, <2>1, <3>1, YieldingNothing DEF CopyMessagesFails
    <2>2. CASE CopyFileFails
      BY <1>2, <2>2, YieldingNothing DEF CopyFileFails
    <2>3. CASE CopyFileCopies
      <3>1. Sources(i) = {}
        BY <1>2, <2>3 DEF CopyFileCopies, SafeInv, RunningCopy
      <3> QED
        BY <1>2, <2>3, <3>1, YieldingNothing DEF CopyFileCopies
    <2> QED
      BY <2>1, <2>2, <2>3
  <1>6. DOMAIN copied = Id /\ DOMAIN mCopyState = Folder
    BY DEF SafeInv, TypeOK
  <1>7. ok => copied'[i] = Pieces(i)
    BY <1>3, <1>5, <1>6
  <1>8. StartsOnce' /\ OkMeansCopied' /\ CopiedPieces'
    <2>1. \A k \in Id : copied[k] \subseteq copied'[k] /\ copied'[k] \subseteq Pieces(k)
      BY <1>3, <1>5, <1>6 DEF ReportInv, CopiedPieces
    <2> QED
      BY <1>4, <2>1, Arrives
  <1>9. stack' = Push(NotifyFrame(call[i].src, Dst(i), ok, n), <<>>)
    BY <1>5 DEF OnCopyCompleted
  <1>10. CompletesOne'
    <2>1. Handled(Dst(i))
      BY <1>1, <1>2 DEF SafeInv, RunningCopy, Handled
    <2> QED
      BY <1>2, <1>3, <1>4, <1>7, <1>9, <2>1, CompletesTheOne
  <1>11. EntryIsSource'
    <2>1. ~Running("CopyMessages")'
      BY <1>9, NowRunning, FramesOf
    <2>2. mCopyState' = [mCopyState EXCEPT ![Dst(i)] = NoCopyState]
      BY <1>5 DEF OnCopyCompleted
    <2>3. call' = call
      BY <1>4
    <2> QED
      BY <1>6, <2>1, <2>2, <2>3, SamePieces DEF ReportInv, EntryIsSource, Busy
  <1> QED
    BY <1>8, <1>10, <1>11 DEF ReportInv

LEMMA StreamsReport ==
  ASSUME OneSourceScripts, FilesAreDistinct, SafeInv, ReportInv, NEW f \in Folder, CopyEnds(f)
  PROVE  ReportInv'
  <1>1. PICK ok \in BOOLEAN : StreamEnds(f, ok)
    BY DEF CopyEnds
  <1>2. /\ stack = <<>> /\ Busy(f)
        /\ OnCopyCompleted(mCopyState[f].srcSupport, f, ok, <<>>)
        /\ UNCHANGED <<call, queueVars, starts, stops, result, unreported>>
        /\ \A kind : ~Running(kind)
    BY <1>1 DEF CopyEnds, StreamEnds, listenerVars, Running
  <1>3. PICK i \in Id \cup {0} : mCopyState[f].owner = i
    BY DEF SafeInv, TypeOK
  <1>4. /\ i \in m_copyRequests /\ starts[i] > 0
        /\ Dst(i) = f /\ call[i].src = mCopyState[f].srcSupport
    BY <1>2, <1>3 DEF SafeInv, OwnerInFlight, InFlight
  <1>5. i \in Id /\ DOMAIN copied = Id /\ DOMAIN mCopyState = Folder
    BY <1>4, QueueFinite DEF SafeInv, TypeOK
  <1>6. Pieces(i) = {mCopyState[f].entry}
    <2>1. mCopyState[f].entry \in Sources(i)
      BY <1>2, <1>3 DEF ReportInv, EntryIsSource
    <2>2. ~NothingSelected(call[i]) /\ TypeOK
      BY <1>4 DEF SafeInv, StartedIsProcessed
    <2>3. PICK k : Sources(i) = {k}
      BY <1>5, <2>1, <2>2, OneSourceRequest
    <2> QED
      BY <2>1, <2>3 DEF Pieces
  <1>7. copied' = IF ok THEN [copied EXCEPT ![i] = @ \cup Pieces(i)] ELSE copied
    BY <1>1, <1>3, <1>6 DEF StreamEnds
  <1>8. copied[i] \subseteq Pieces(i)
    BY <1>5 DEF ReportInv, CopiedPieces
  <1>9. ok => copied'[i] = Pieces(i)
    BY <1>5, <1>7, <1>8
  <1>10. StartsOnce' /\ OkMeansCopied' /\ CopiedPieces'
    <2>1. \A k \in Id : copied[k] \subseteq copied'[k] /\ copied'[k] \subseteq Pieces(k)
      BY <1>5, <1>7, <1>8 DEF ReportInv, CopiedPieces
    <2> QED
      BY <1>2, <2>1, Arrives
  <1>11. stack' = Push(NotifyFrame(call[i].src, Dst(i), ok, Cardinality(m_copyRequests)), <<>>)
    BY <1>2, <1>4 DEF OnCopyCompleted
  <1>12. CompletesOne'
    <2>1. Handled(Dst(i))
      BY <1>2, <1>4 DEF Handled
    <2> QED
      BY <1>2, <1>4, <1>9, <1>11, <2>1, CompletesTheOne
  <1>13. EntryIsSource'
    <2>1. ~Running("CopyMessages")'
      BY <1>11, NowRunning, FramesOf
    <2>2. mCopyState' = [mCopyState EXCEPT ![f] = NoCopyState]
      BY <1>2 DEF OnCopyCompleted
    <2>3. call' = call
      BY <1>2
    <2> QED
      BY <1>5, <2>1, <2>2, <2>3, SamePieces DEF ReportInv, EntryIsSource, Busy
  <1> QED
    BY <1>10, <1>12, <1>13 DEF ReportInv

LEMMA InitCopyStateReports ==
  ASSUME SafeInv, ReportInv, InitCopyState
  PROVE  ReportInv'
  <1>1. /\ Running("CopyMessages")
        /\ Below = <<>>
    BY NotNested DEF InitCopyState
  <1>2. Top.owner \in Id /\ Top.dst \in Folder
    BY <1>1, TopType DEF SafeInv
  <1>3. /\ mCopyState' = [mCopyState EXCEPT ![Top.dst] =
                            [owner |-> Top.owner, entry |-> Top.entry, srcSupport |-> Top.sup]]
        /\ DOMAIN mCopyState = Folder
        /\ stack' = <<>>
        /\ UNCHANGED <<call, starts, result, copied>>
    BY <1>1 DEF InitCopyState, Return, SafeInv, TypeOK, listenerVars
  <1>4. \A kind : ~Running(kind)'
    BY <1>3 DEF Running
  <1>5. EntryIsSource'
    <2> SUFFICES ASSUME NEW f \in Folder, Busy(f)'
                 PROVE  mCopyState'[f].entry \in Sources(mCopyState'[f].owner)
      BY <1>3, <1>4, SamePieces DEF EntryIsSource
    <2>1. CASE f = Top.dst
      BY <1>1, <1>2, <1>3, <2>1 DEF ReportInv, EntryIsSource
    <2>2. CASE f # Top.dst
      <3>1. mCopyState'[f] = mCopyState[f] /\ Busy(f)
        BY <1>2, <1>3, <2>2 DEF Busy
      <3> QED
        BY <3>1 DEF ReportInv, EntryIsSource
    <2> QED
      BY <2>1, <2>2
  <1> QED
    BY <1>3, <1>4, <1>5, NothingArrives DEF ReportInv, CompletesOne

(***************************************************************************)
(* Steps after which no copy starts or completes.                          *)
(***************************************************************************)
LEMMA NoCopyCalled ==
  ASSUME ReportInv, UNCHANGED <<call, mCopyState>>,
         ~Running("CopyMessages")', ~Running("NotifyCompletion")'
  PROVE  EntryIsSource' /\ CompletesOne'
  <1>1. EntryIsSource'
    BY SamePieces DEF ReportInv, EntryIsSource, Busy
  <1> QED
    BY <1>1 DEF CompletesOne

LEMMA QuietReports ==
  ASSUME SafeInv, ReportInv, DoNextCopyFindsNone \/ NotifyCompletionEnds \/ Destroy \/ CopyMessagesErrs
  PROVE  ReportInv'
  <1>1. UNCHANGED <<call, mCopyState, starts, result, copied>>
    BY DEF DoNextCopyFindsNone, NotifyCompletionEnds, Destroy, CopyMessagesErrs, listenerVars
  <1>2. ~Running("CopyMessages")' /\ ~Running("NotifyCompletion")'
    <2>1. CASE DoNextCopyFindsNone
      <3>1. stack' = <<>>
        BY <2>1, NotNested DEF DoNextCopyFindsNone, Return
      <3> QED
        BY <3>1 DEF Running
    <2>2. CASE NotifyCompletionEnds
      <3>1. stack' = Push(DoNextCopyFrame, <<>>)
        BY <2>2, NotNested DEF NotifyCompletionEnds
      <3> QED
        BY <3>1, NowRunning, FramesOf
    <2>3. CASE Destroy
      <3>1. stack' = Push(DestroyFrame, <<>>)
        BY <2>3 DEF Destroy, Push
      <3> QED
        BY <3>1, NowRunning, FramesOf
    <2>4. CASE CopyMessagesErrs
      <3>1. stack' = <<>>
        BY <2>4, NotNested DEF CopyMessagesErrs, Return
      <3> QED
        BY <3>1 DEF Running
    <2> QED
      BY <2>1, <2>2, <2>3, <2>4
  <1> QED
    BY <1>1, <1>2, NothingArrives, NoCopyCalled DEF ReportInv

LEMMA UserCallReports ==
  ASSUME OneSourceScripts, SafeInv, ReportInv, UserCall
  PROVE  ReportInv'
  <1>1. PICK i \in Id : i = issued + 1
    BY NextRequest
  <1>2. starts[i] = 0 /\ UNCHANGED <<call, mCopyState, copied>>
    BY <1>1, NextRequest DEF UserCall, MakeCall
  <1>3. starts \in [Id -> Nat] /\ DOMAIN result = Id
    BY DEF SafeInv, TypeOK
  <1>4. CASE NothingSelected(call[i])
    <2>1. /\ starts' = [starts EXCEPT ![i] = @ + 1]
          /\ result' = [result EXCEPT ![i] = "ok"]
          /\ stack' = <<>>
      BY <1>1, <1>4 DEF UserCall, MakeCall, NothingToCopy, TellStopped, OneSourceScripts
    <2>2. \A kind : ~Running(kind)'
      BY <2>1 DEF Running
    <2>3. StartsOnce'
      BY <1>2, <1>3, <2>1 DEF ReportInv, StartsOnce
    <2>4. OkMeansCopied'
      BY <1>2, <1>3, <1>4, <2>1, SamePieces DEF ReportInv, OkMeansCopied, NothingSelected
    <2>5. CopiedPieces'
      BY <1>2, SamePieces DEF ReportInv, CopiedPieces
    <2> QED
      BY <1>2, <2>2, <2>3, <2>4, <2>5, NoCopyCalled DEF ReportInv
  <1>5. CASE ~NothingSelected(call[i])
    <2>1. /\ UNCHANGED <<starts, result>>
          /\ stack' = IF QueueRequest(i) THEN Push(DoNextCopyFrame, <<>>) ELSE <<>>
      BY <1>1, <1>5 DEF UserCall, MakeCall, DoCopy, listenerVars
    <2>2. ~Running("CopyMessages")' /\ ~Running("NotifyCompletion")'
      <3>1. CASE QueueRequest(i)
        BY <2>1, <3>1, NowRunning, FramesOf
      <3>2. CASE ~QueueRequest(i)
        BY <2>1, <3>2 DEF Running
      <3> QED
        BY <3>1, <3>2
    <2> QED
      BY <1>2, <2>1, <2>2, NothingArrives, NoCopyCalled DEF ReportInv
  <1> QED
    BY <1>4, <1>5

LEMMA StartReports ==
  ASSUME OneSourceScripts, SafeInv, ReportInv, DoNextCopyStarts
  PROVE  ReportInv'
  <1>1. PICK i \in m_copyRequests :
          /\ NextToStart(i)
          /\ starts' = [starts EXCEPT ![i] = @ + 1]
          /\ StartSource(i) \/ StartPlainFile(i)
    BY DEF DoNextCopyStarts
  <1>2. /\ UNCHANGED <<call, mCopyState, result, copied>>
        /\ Running("DoNextCopy")
        /\ Below = <<>>
    BY NotNested DEF DoNextCopyStarts
  <1>3. /\ i \in Id
        /\ starts \in [Id -> Nat]
        /\ ~NothingSelected(call[i])
        /\ TypeOK
    BY QueueFinite DEF SafeInv, TypeOK, StartedIsProcessed
  <1>4. starts[i] = 0
    <2>1. ~(starts[i] > 0)
      BY <1>1 DEF NextToStart, Startable, SafeInv, StartedIsProcessed
    <2> QED
      BY <1>3, <2>1
  <1>5. StartsOnce'
    <2>1. result[i] # "ok"
      BY <1>3, <1>4 DEF ReportInv, StartsOnce
    <2> QED
      BY <1>1, <1>2, <1>3, <1>4, <2>1 DEF ReportInv, StartsOnce
  <1>6. OkMeansCopied' /\ CopiedPieces'
    BY <1>2, SamePieces DEF ReportInv, OkMeansCopied, CopiedPieces, NothingSelected
  <1>7. /\ ~Running("NotifyCompletion")'
        /\ Running("CopyMessages")' => Top'.entry \in Sources(Top'.owner)
    <2>1. CASE StartPlainFile(i)
      <3>1. stack' = Push(CopyFileMessageFrame(i), <<>>)
        BY <1>2, <2>1 DEF StartPlainFile
      <3> QED
        BY <3>1, NowRunning, FramesOf
    <2>2. CASE StartSource(i)
      <3>1. call[i].method = "messages"
        BY <1>3, <2>2, OneSourceRequest DEF StartSource
      <3>2. PICK k \in Sources(i) :
              stack' = Push(CopyMessagesFrame(i, k, call[i].from[k], Dst(i)), <<>>)
        BY <1>2, <2>2, <3>1 DEF StartSource
      <3>3. Top'.entry = k /\ Top'.owner = i
        BY <3>2, PushTop DEF Top, CopyMessagesFrame
      <3> QED
        BY <3>2, <3>3, NowRunning, FramesOf
    <2> QED
      BY <1>1, <2>1, <2>2
  <1>8. EntryIsSource'
    BY <1>2, <1>7, SamePieces DEF ReportInv, EntryIsSource, Busy
  <1> QED
    BY <1>5, <1>6, <1>7, <1>8 DEF ReportInv, CompletesOne

(***************************************************************************)
(* A request that leaves the queue was in flight, or is not a success.     *)
(***************************************************************************)
LEMMA StopsReport ==
  ASSUME SafeInv, ReportInv, UNCHANGED <<call, starts, copied>>,
         NEW i \in m_copyRequests, NEW ok \in BOOLEAN,
         result' = [result EXCEPT ![i] = IF ok THEN "ok" ELSE "failed"],
         ok => starts[i] > 0 /\ copied[i] = Pieces(i)
  PROVE  StartsOnce' /\ OkMeansCopied' /\ CopiedPieces'
  <1>1. i \in Id /\ starts \in [Id -> Nat] /\ DOMAIN result = Id
    BY QueueFinite DEF SafeInv, TypeOK
  <1>2. starts[i] <= 1 /\ (ok => starts[i] = 1)
    BY <1>1 DEF ReportInv, StartsOnce
  <1>3. StartsOnce'
    BY <1>1, <1>2 DEF ReportInv, StartsOnce
  <1>4. OkMeansCopied'
    BY <1>1, SamePieces DEF ReportInv, OkMeansCopied, NothingSelected
  <1>5. CopiedPieces'
    BY SamePieces DEF ReportInv, CopiedPieces
  <1> QED
    BY <1>3, <1>4, <1>5

LEMMA DestructorReports ==
  ASSUME OneSourceScripts, SafeInv, ReportInv, DestructorClears
  PROVE  ReportInv'
  <1>1. PICK i \in m_copyRequests : ClearRequest(i, FALSE, stack)
    BY DEF DestructorClears
  <1>2. /\ stack' = stack
        /\ result' = [result EXCEPT ![i] = "failed"]
        /\ UNCHANGED <<call, mCopyState, starts, copied>>
        /\ Running("destructor")
    BY <1>1 DEF DestructorClears, ClearRequest, TellStopped, OneSourceScripts
  <1>3. ~Running("CopyMessages")' /\ ~Running("NotifyCompletion")'
    BY <1>2, NotNested DEF Running
  <1>4. StartsOnce' /\ OkMeansCopied' /\ CopiedPieces'
    <2>1. result' = [result EXCEPT ![i] = IF FALSE THEN "ok" ELSE "failed"]
      BY <1>2
    <2> QED
      BY <1>2, <2>1, StopsReport
  <1> QED
    BY <1>2, <1>3, <1>4, NoCopyCalled DEF ReportInv

(***************************************************************************)
(* NotifyCompletion clears the request whose copy it was called for, or,   *)
(* after this one failed, requests that wait and look the same.            *)
(***************************************************************************)
LEMMA ClearedRequest ==
  ASSUME OneSourceScripts, SafeInv, ReportInv, Running("NotifyCompletion"),
         NEW i \in m_copyRequests, Clearable(i)
  PROVE  /\ SameEndsAsTop(i)
         /\ Top.ok => starts[i] > 0 /\ copied[i] = Pieces(i)
         /\ ~(starts[i] > 0) =>
              \E k \in Id \ {i} : SameEndsAsTop(k) /\ Status(k) = "failed"
  <1>1. /\ i \in Id
        /\ m_copyRequests \subseteq Id
        /\ call[i].method # "folders"
        /\ FindRequest(i, Top.sup, Top.dst)
    <2>1. i \in Id /\ m_copyRequests \subseteq Id /\ ~NothingSelected(call[i])
      BY QueueFinite DEF SafeInv, StartedIsProcessed
    <2> QED
      BY <2>1, OneSourceRequest DEF SafeInv, Clearable
  <1>2. SameEndsAsTop(i) /\ Matches(i, Top.sup, Top.dst)
    BY <1>1 DEF FindRequest, SameEnds, Matches, SameEndsAsTop
  <1>3. ASSUME Top.ok PROVE starts[i] > 0
    <2>1. i \in m_processed \/ AllSourcesDone(i)
      BY <1>3 DEF Clearable
    <2>2. CASE Sources(i) = {}
      BY <1>2, <2>2 DEF ReportInv, CompletesOne
    <2>3. CASE Sources(i) # {}
      BY <2>1, <2>3 DEF SafeInv, StartedIsProcessed, Processed
    <2> QED
      BY <2>2, <2>3
  <1>4. Top.ok => copied[i] = Pieces(i)
    BY <1>2, <1>3 DEF ReportInv, CompletesOne
  <1>5. ASSUME ~(starts[i] > 0)
        PROVE  \E k \in Id \ {i} : SameEndsAsTop(k) /\ Status(k) = "failed"
    <2>1. PICK k \in Id : SameEndsAsTop(k) /\ Status(k) \in {"copying", "failed"}
      BY <1>3, <1>5 DEF ReportInv, CompletesOne
    <2>2. k # i
      BY <1>5, <2>1, QueuedStatus DEF SafeInv
    <2>3. ASSUME k \in m_copyRequests PROVE FALSE
      <3>1. starts[k] > 0
        BY <2>1, <2>3, QueuedStatus DEF SafeInv
      <3>2. Dst(k) = Dst(i)
        BY <1>2, <2>1 DEF SameEndsAsTop
      <3>3. k < i
        <4>1. ~(i < k)
          <5>1. starts \in [Id -> Nat]
            BY DEF SafeInv, TypeOK
          <5> QED
            BY <2>1, <2>3, <3>1, <3>2, <5>1 DEF SafeInv, FirstInFlight
        <4> QED
          BY <1>1, <2>1, <2>2, <4>1 DEF Id
      <3>4. Matches(k, Top.sup, Top.dst)
        <4>1. call[k].method # "folders"
          BY <2>1, <2>3, OneSourceRequest DEF SafeInv, StartedIsProcessed
        <4> QED
          BY <2>1, <4>1 DEF Matches, SameEnds, SameEndsAsTop
      <3> QED
        BY <1>1, <1>2, <2>3, <3>3, <3>4 DEF FindRequest
    <2>4. Status(k) # "copying"
      <3>1. result[k] \in {"none", "ok", "failed"}
        BY <2>1 DEF SafeInv, TypeOK
      <3> QED
        BY <2>3, <3>1 DEF Status
    <2> QED
      BY <2>1, <2>2, <2>4
  <1> QED
    BY <1>2, <1>3, <1>4, <1>5

LEMMA NotifyClearsReports ==
  ASSUME OneSourceScripts, SafeInv, ReportInv, NotifyCompletionClears
  PROVE  ReportInv'
  <1>1. PICK i \in m_copyRequests :
          /\ Clearable(i)
          /\ ClearRequest(i, Top.ok, Push(NotifyFrame(Top.sup, Top.dst, Top.ok, Top.orig - 1), Below))
    BY DEF NotifyCompletionClears
  <1>2. Running("NotifyCompletion") /\ Below = <<>>
    BY NotNested DEF NotifyCompletionClears
  <1>3. Top.ok \in BOOLEAN
    BY <1>2, TopType DEF SafeInv
  <1>4. /\ stack' = Push(NotifyFrame(Top.sup, Top.dst, Top.ok, Top.orig - 1), <<>>)
        /\ result' = [result EXCEPT ![i] = IF Top.ok THEN "ok" ELSE "failed"]
        /\ m_copyRequests' = m_copyRequests \ {i}
        /\ UNCHANGED <<call, mCopyState, starts, copied, issued, unreported>>
    BY <1>1, <1>2 DEF NotifyCompletionClears, ClearRequest, TellStopped, OneSourceScripts
  <1>5. Top'.sup = Top.sup /\ Top'.dst = Top.dst /\ Top'.ok = Top.ok
    BY <1>4, PushTop DEF Top, NotifyFrame
  <1>6. StartsOnce' /\ OkMeansCopied' /\ CopiedPieces'
    BY <1>1, <1>2, <1>3, <1>4, ClearedRequest, StopsReport
  <1>7. EntryIsSource'
    <2>1. ~Running("CopyMessages")'
      BY <1>4, NowRunning, FramesOf
    <2> QED
      BY <1>4, <2>1, SamePieces DEF ReportInv, EntryIsSource, Busy
  <1>8. CompletesOne'
    <2>1. \A k : SameEndsAsTop(k)' <=> SameEndsAsTop(k)
      BY <1>4, <1>5, SamePieces DEF SameEndsAsTop
    <2>2. \A k \in m_copyRequests : SameEndsAsTop(k) =>
            /\ Sources(k) = {} => starts[k] > 0
            /\ Top.ok /\ starts[k] > 0 => copied[k] = Pieces(k)
      BY <1>2 DEF ReportInv, CompletesOne
    <2>3. ASSUME ~Top.ok
          PROVE  \E k \in Id : SameEndsAsTop(k) /\ Status(k)' \in {"copying", "failed"}
      <3>1. PICK k \in Id : SameEndsAsTop(k) /\ Status(k) \in {"copying", "failed"}
        BY <1>2, <2>3 DEF ReportInv, CompletesOne
      <3>2. DOMAIN result = Id
        BY DEF SafeInv, TypeOK
      <3>3. CASE k = i
        <4>1. ~(i > issued)
          BY <3>1, <3>3 DEF Status
        <4> QED
          BY <1>4, <2>3, <3>1, <3>2, <3>3, <4>1 DEF Status
      <3>4. CASE k # i
        <4>1. Status(k)' = Status(k)
          BY <1>4, <3>2, <3>4 DEF Status
        <4> QED
          BY <3>1, <4>1
      <3> QED
        BY <3>3, <3>4
    <2> QED
      BY <1>4, <1>5, <2>1, <2>2, <2>3, SamePieces DEF CompletesOne
  <1> QED
    BY <1>6, <1>7, <1>8 DEF ReportInv

(***************************************************************************)
(* No call waits for another: these steps are never taken.                 *)
(***************************************************************************)
LEMMA NothingNested ==
  ASSUME SafeInv,
         \/ ListenerCalls \/ ListenerReturns \/ MaildirStops \/ CopyFileReturns
         \/ CopyFolderRefuses \/ CopyFolderAcrossServer \/ CopyFolderLocal
         \/ CopyFolderReturns \/ ResultReturns
  PROVE  FALSE
  <1>1. \E kind \in {"OnStopCopy", "store CopyMessages returns", "CopyFileMessage returns",
                     "CopyFolder", "CopyFolder returns", "result"} : Running(kind)
    BY DEF ListenerCalls, ListenerReturns, MaildirStops, CopyFileReturns, ResultReturns,
           CopyFolderRefuses, CopyFolderAcrossServer, CopyFolderLocal, CopyFolderReturns
  <1> QED
    BY <1>1, NotNested DEF Plain

LEMMA ReportStep ==
  ASSUME OneSourceScripts, FilesAreDistinct, SafeInv, ReportInv, [Next]_vars
  PROVE  ReportInv'
  <1>1. CASE UserCall
    BY <1>1, UserCallReports
  <1>2. CASE DoNextCopyFindsNone \/ NotifyCompletionEnds \/ Destroy \/ CopyMessagesErrs
    BY <1>2, QuietReports
  <1>3. CASE DoNextCopyStarts
    BY <1>3, StartReports
  <1>4. CASE NotifyCompletionClears
    BY <1>4, NotifyClearsReports
  <1>5. CASE DestructorClears
    BY <1>5, DestructorReports
  <1>6. CASE CopyMessagesFails \/ CopyFileFails \/ CopyFileCopies
    BY <1>6, CopiesReport
  <1>7. CASE InitCopyState
    BY <1>7, InitCopyStateReports
  <1>8. CASE \E f \in Folder : CopyEnds(f)
    BY <1>8, StreamsReport
  <1>9. CASE UNCHANGED vars
    <2>1. UNCHANGED <<call, issued, m_copyRequests, starts, result, copied, mCopyState, stack,
                      unreported>>
      BY <1>9 DEF vars, listenerVars, queueVars
    <2>2. \A k : Status(k)' = Status(k) /\ (SameEndsAsTop(k)' <=> SameEndsAsTop(k))
      BY <2>1 DEF Status, SameEndsAsTop, Top, Dst
    <2>3. EntryIsSource'
      BY <2>1, SamePieces DEF ReportInv, EntryIsSource, Running, Top, Busy
    <2>4. CompletesOne'
      BY <2>1, <2>2, SamePieces DEF ReportInv, CompletesOne, Running, Top
    <2> QED
      BY <2>1, <2>3, <2>4, NothingArrives DEF ReportInv
  <1>10. CASE MaildirCopies
    BY <1>10 DEF MaildirCopies, OneSourceScripts
  <1>11. CASE \/ ListenerCalls \/ ListenerReturns \/ MaildirStops \/ CopyFileReturns
              \/ CopyFolderRefuses \/ CopyFolderAcrossServer \/ CopyFolderLocal
              \/ CopyFolderReturns \/ ResultReturns
    BY <1>11, NothingNested
  <1> QED
    BY <1>1, <1>2, <1>3, <1>4, <1>5, <1>6, <1>7, <1>8, <1>9, <1>10, <1>11
       DEF Next, Service, LocalFolder

(***************************************************************************)
(* For any folders, files and number of calls, when every call has one     *)
(* source and no file is copied to a folder twice: a listener hears of     *)
(* the start of its copy once, and before its success, and success means   *)
(* that what it asked for has arrived.                                     *)
(***************************************************************************)
THEOREM ReportsAreTrue ==
  ASSUME OneSourceScripts, FilesAreDistinct
  PROVE  Spec => [](StartsOnce /\ OkMeansCopied)
  <1>1. Init => SafeInv /\ ReportInv
    BY SafeInit, ReportInit
  <1>2. SafeInv /\ ReportInv /\ [Next]_vars => (SafeInv /\ ReportInv)'
    BY SafeStep, ReportStep
  <1>3. ReportInv => StartsOnce /\ OkMeansCopied
    BY DEF ReportInv
  <1> QED
    BY <1>1, <1>2, <1>3, PTL DEF Spec

-----------------------------------------------------------------------------
(***************************************************************************)
(* The refinement of FolderCopyQueue: what each step does to the statuses. *)
(***************************************************************************)
LEMMA QueueBecomes ==
  ASSUME call' = call, Running("destructor")' <=> Running("destructor"),
         NEW i \in Id, NEW s, Status(i)' = s,
         \A k \in Id \ {i} : Status(k)' = Status(k)
  PROVE  Queues!Become(i, s)
  <1>1. [k \in Id |-> Status(k)]' = [[k \in Id |-> Status(k)] EXCEPT ![i] = s]
    OBVIOUS
  <1>2. /\ [k \in Id |-> call[k].src]' = [k \in Id |-> call[k].src]
        /\ [k \in Id |-> Dst(k)]' = [k \in Id |-> Dst(k)]
    BY DEF Dst
  <1>3. (~Running("destructor"))' = ~Running("destructor")
    OBVIOUS
  <1> QED
    BY <1>1, <1>2, <1>3 DEF Queues!Become

LEMMA StatusesKept ==
  ASSUME call' = call, Running("destructor")' <=> Running("destructor"),
         \A k \in Id : Status(k)' = Status(k)
  PROVE  UNCHANGED Queues!vars
  <1>1. /\ [k \in Id |-> call[k].src]' = [k \in Id |-> call[k].src]
        /\ [k \in Id |-> Dst(k)]' = [k \in Id |-> Dst(k)]
        /\ [k \in Id |-> Status(k)]' = [k \in Id |-> Status(k)]
    BY DEF Dst
  <1>2. (~Running("destructor"))' = ~Running("destructor")
    OBVIOUS
  <1> QED
    BY <1>1, <1>2 DEF Queues!vars

LEMMA QueuesStutter ==
  ASSUME UNCHANGED <<call, issued, m_copyRequests, starts, result, unreported>>,
         Running("destructor")' <=> Running("destructor")
  PROVE  UNCHANGED Queues!vars
  <1>1. \A k : Status(k)' = Status(k)
    BY DEF Status
  <1> QED
    BY <1>1, StatusesKept

LEMMA QueuesInit == Init => Queues!Init
  <1> SUFFICES ASSUME Init PROVE Queues!Init
    OBVIOUS
  <1>1. call \in Scripts
    BY DEF Init
  <1>2. \A i \in Id : call[i].src \in Folder \cup File /\ Dst(i) \in Folder
    BY <1>1, ScriptsAssumption DEF CallRecord, Dst
  <1>3. \A i \in Id : Status(i) = "unmade"
    BY DEF Init, Status, Id
  <1>4. ~Running("destructor")
    BY DEF Init, Running
  <1> QED
    BY <1>2, <1>3, <1>4 DEF Queues!Init

LEMMA QueuesMake ==
  ASSUME TypeOK, Unissued, UnreportedStarted, NEW s, MakeCall(s),
         ~Running("destructor"), ~Running("destructor")'
  PROVE  Queues!Next
  <1>1. PICK i : i = issued + 1
    OBVIOUS
  <1>2. /\ i \in Id /\ issued \in Nat /\ issued' = i
        /\ i \notin m_copyRequests /\ starts[i] = 0 /\ i \notin unreported
        /\ UNCHANGED <<call, unreported>> /\ DOMAIN result = Id /\ starts \in [Id -> Nat]
    <2>1. issued + 1 \in Id /\ issued \in Nat /\ m_copyRequests \subseteq 1..issued
      BY MaxRequestsAssumption DEF TypeOK, MakeCall, Id
    <2> QED
      BY <1>1, <2>1 DEF MakeCall, Unissued, UnreportedStarted, TypeOK
  <1>3. /\ Status(i)' \in {"waiting", "ok"}
        /\ \A k \in Id \ {i} : Status(k)' = Status(k)
    <2>1. \A k \in Id \ {i} : k > issued' <=> k > issued
      BY <1>1, <1>2 DEF Id
    <2>2. ~(i > issued')
      BY <1>2 DEF Id
    <2>3. CASE NothingSelected(call[i])
      <3>1. /\ m_copyRequests' = m_copyRequests
            /\ starts' = [starts EXCEPT ![i] = @ + 1]
            /\ result' = [result EXCEPT ![i] = "ok"]
        BY <1>1, <2>3 DEF MakeCall, NothingToCopy, TellStopped
      <3>2. \A k \in Id \ {i} : result'[k] = result[k] /\ starts'[k] = starts[k]
        BY <3>1, <1>2
      <3>3. result'[i] = "ok"
        BY <3>1, <1>2
      <3> QED
        BY <1>2, <2>1, <2>2, <3>1, <3>2, <3>3 DEF Status
    <2>4. CASE ~NothingSelected(call[i])
      <3>1. /\ m_copyRequests' = m_copyRequests \cup {i}
            /\ UNCHANGED <<starts, result>>
        BY <1>1, <2>4 DEF MakeCall, DoCopy, listenerVars
      <3> QED
        BY <1>2, <2>1, <2>2, <3>1 DEF Status
    <2> QED
      BY <2>3, <2>4
  <1>4. Queues!Become(i, Status(i)')
    BY <1>2, <1>3, QueueBecomes
  <1>5. Status(i) = "unmade"
    BY <1>1, <1>2 DEF Status, Id
  <1>6. \A k \in Id : k < i => Status(k) # "unmade"
    <2> SUFFICES ASSUME NEW k \in Id, k < i PROVE Status(k) # "unmade"
      OBVIOUS
    <2>1. ~(k > issued) /\ result[k] \in {"none", "ok", "failed"}
      BY <1>1, <1>2 DEF Id, TypeOK
    <2> QED
      BY <2>1 DEF Status
  <1>7. Queues!Make(i)
    BY <1>2, <1>3, <1>4, <1>5, <1>6 DEF Queues!Make
  <1> QED
    BY <1>2, <1>7 DEF Queues!Next

LEMMA QueuesStart ==
  ASSUME TypeOK, StartedIsProcessed, UnreportedStarted, DoNextCopyStarts,
         ~Running("destructor"), ~Running("destructor")'
  PROVE  Queues!Next
  <1>1. PICK i \in m_copyRequests :
          /\ NextToStart(i)
          /\ starts' = [starts EXCEPT ![i] = @ + 1]
    BY DEF DoNextCopyStarts
  <1>2. UNCHANGED <<call, issued, m_copyRequests, result, unreported>>
    BY DEF DoNextCopyStarts
  <1>3. /\ i \in Id /\ m_copyRequests \subseteq Nat
        /\ starts \in [Id -> Nat]
    <2>1. i \in Id /\ m_copyRequests \subseteq Id
      BY QueueFinite
    <2> QED
      BY <2>1 DEF TypeOK, Id
  <1>4. starts[i] = 0 /\ starts'[i] > 0
    <2>1. ~(starts[i] > 0)
      BY <1>1 DEF NextToStart, Startable, StartedIsProcessed
    <2> QED
      BY <1>1, <1>3, <2>1
  <1>5. Status(i) = "waiting" /\ Status(i)' = "copying"
    BY <1>1, <1>2, <1>4, QueuedStatus DEF Status, UnreportedStarted
  <1>6. \A k \in Id \ {i} : Status(k)' = Status(k)
    BY <1>1, <1>2, <1>3 DEF Status
  <1>7. {k \in Id : /\ k < i /\ Dst(k) = Dst(i)
                   /\ Status(k) \in {"waiting", "copying", "hung"}} = {}
    <2> SUFFICES ASSUME NEW k \in Id, k < i, Dst(k) = Dst(i),
                        Status(k) \in {"waiting", "copying", "hung"}
                 PROVE  FALSE
      OBVIOUS
    <2>1. k \in m_copyRequests
      <3>1. result[k] \in {"none", "ok", "failed"}
        BY DEF TypeOK
      <3> QED
        BY <3>1 DEF Status
    <2>2. Dst(k) # Dst(i)
      BY <1>1, <1>3, <2>1, FirstOfTarget
    <2> QED
      BY <2>2
  <1>8. Queues!Ahead(i) = {}
    BY <1>3, <1>7 DEF Queues!Ahead
  <1>9. Queues!Start(i)
    BY <1>2, <1>3, <1>5, <1>6, <1>8, QueueBecomes DEF Queues!Start
  <1> QED
    BY <1>3, <1>9 DEF Queues!Next

LEMMA StartedOpen ==
  ASSUME OneSourceScripts, SafeInv, DoNextCopyStarts
  PROVE  ~Running("destructor") /\ ~Running("destructor")'
  <1>1. /\ Below = <<>> /\ ~Running("destructor") /\ TypeOK
        /\ \A i \in m_copyRequests : i \in Id /\ ~NothingSelected(call[i])
    BY NotNested, QueueFinite DEF DoNextCopyStarts, SafeInv, StartedIsProcessed
  <1>2. PICK i \in m_copyRequests : StartSource(i) \/ StartPlainFile(i)
    BY DEF DoNextCopyStarts
  <1>3. \/ stack' = Push(CopyFileMessageFrame(i), <<>>)
        \/ \E k \in Sources(i) :
             stack' = Push(CopyMessagesFrame(i, k, call[i].from[k], Dst(i)), <<>>)
    <2>1. CASE call[i].method = "messages"
      BY <1>1, <1>2, <2>1, OneSourceRequest DEF StartSource, StartPlainFile
    <2>2. CASE call[i].method = "files" /\ Sources(i) = {}
      BY <1>1, <1>2, <2>2 DEF StartSource, StartPlainFile
    <2> QED
      BY <1>1, <2>1, <2>2, OneSourceRequest
  <1> QED
    BY <1>1, <1>3, NowRunning, FramesOf

(***************************************************************************)
(* A request that leaves the queue stops, or is dropped before it starts.  *)
(***************************************************************************)
LEMMA QueuesLeave ==
  ASSUME TypeOK, NEW i \in m_copyRequests, NEW ok \in BOOLEAN, NEW s, ClearRequest(i, ok, s),
         call' = call, Running("destructor")' <=> Running("destructor"),
         ok => starts[i] > 0, unreported' = unreported,
         i \in unreported => Running("destructor") /\ ~ok,
         ~(starts[i] > 0) /\ ~Running("destructor") =>
           \E k \in Id \ {i} :
             call[k].src = call[i].src /\ Dst(k) = Dst(i) /\ Status(k) = "failed"
  PROVE  Queues!Next
  <1> DEFINE outcome == IF ok THEN "ok" ELSE "failed"
  <1>1. /\ i \in Id
        /\ ~(i > issued)
        /\ Status(i) = IF i \in unreported THEN "hung"
                       ELSE IF starts[i] > 0 THEN "copying" ELSE "waiting"
    <2>1. m_copyRequests \subseteq 1..issued /\ issued \in Nat
      BY DEF TypeOK
    <2> QED
      BY <2>1, QueuedStatus
  <1>2. /\ m_copyRequests' = m_copyRequests \ {i}
        /\ result' = [result EXCEPT ![i] = outcome]
        /\ DOMAIN result = Id
        /\ UNCHANGED <<issued, starts>>
    BY DEF ClearRequest, TellStopped, TypeOK
  <1>3. Status(i)' = outcome
    BY <1>1, <1>2 DEF Status
  <1>4. \A k \in Id \ {i} : Status(k)' = Status(k)
    BY <1>2 DEF Status
  <1>5. Queues!Become(i, outcome)
    BY <1>1, <1>3, <1>4, QueueBecomes
  <1>8. CASE i \in unreported
    <2>1. Queues!GiveUp(i)
      BY <1>1, <1>5, <1>8 DEF Queues!GiveUp
    <2> QED
      BY <1>1, <2>1 DEF Queues!Next
  <1>6. CASE starts[i] > 0 /\ i \notin unreported
    <2>1. Queues!Stop(i)
      BY <1>1, <1>5, <1>6 DEF Queues!Stop
    <2> QED
      BY <1>1, <2>1 DEF Queues!Next
  <1>7. CASE ~(starts[i] > 0) /\ i \notin unreported
    <2>1. Queues!Become(i, "failed")
      BY <1>5, <1>7
    <2>2. ~Running("destructor") =>
            \E k \in Id : Queues!Twins(i, k) /\ Status(k) = "failed"
      BY <1>1, <1>7 DEF Queues!Twins
    <2>3. Queues!Drop(i)
      BY <1>1, <1>7, <2>1, <2>2 DEF Queues!Drop
    <2> QED
      BY <1>1, <2>3 DEF Queues!Next
  <1> QED
    BY <1>6, <1>7, <1>8

(***************************************************************************)
(* A copy of a request that fails without a word makes it hang.            *)
(***************************************************************************)
LEMMA QueuesHang ==
  ASSUME TypeOK, NEW i \in m_copyRequests, starts[i] > 0,
         UNCHANGED <<call, issued, m_copyRequests, starts, result>>,
         unreported' = unreported \cup {i},
         Running("destructor")' <=> Running("destructor")
  PROVE  [Queues!Next]_(Queues!vars)
  <1>1. \A k \in Id \ {i} : Status(k)' = Status(k)
    BY DEF Status
  <1>2. CASE i \in unreported
    <2>1. unreported' = unreported
      BY <1>2
    <2> QED
      BY <2>1, QueuesStutter
  <1>3. CASE i \notin unreported
    <2>1. i \in Id /\ Status(i) = "copying" /\ ~(i > issued)
      <3>1. i \in 1..issued /\ issued \in Nat
        BY DEF TypeOK
      <3> QED
        BY <1>3, <3>1, QueuedStatus
    <2>2. Status(i)' = "hung"
      BY <2>1 DEF Status
    <2>3. Queues!Become(i, "hung")
      BY <1>1, <2>1, <2>2, QueueBecomes
    <2>4. Queues!Hang(i)
      BY <2>1, <2>3 DEF Queues!Hang
    <2> QED
      BY <2>1, <2>4 DEF Queues!Next
  <1> QED
    BY <1>2, <1>3

LEMMA QueuesClear ==
  ASSUME OneSourceScripts, SafeInv, ReportInv, NotifyCompletionClears \/ DestructorClears
  PROVE  Queues!Next
  <1>1. CASE NotifyCompletionClears
    <2>1. PICK i \in m_copyRequests :
            /\ Clearable(i)
            /\ ClearRequest(i, Top.ok,
                 Push(NotifyFrame(Top.sup, Top.dst, Top.ok, Top.orig - 1), Below))
      BY <1>1 DEF NotifyCompletionClears
    <2>2. /\ Running("NotifyCompletion") /\ Below = <<>>
          /\ ~Running("destructor")
          /\ UNCHANGED <<call, unreported>>
      BY <1>1, NotNested DEF NotifyCompletionClears
    <2>3. Top.ok \in BOOLEAN
      BY <2>2, TopType DEF SafeInv
    <2>4. ~Running("destructor")'
      <3>1. stack' = Push(NotifyFrame(Top.sup, Top.dst, Top.ok, Top.orig - 1), <<>>)
        BY <2>1, <2>2 DEF ClearRequest, TellStopped, OneSourceScripts
      <3> QED
        BY <3>1, NowRunning, FramesOf
    <2>5. /\ Top.ok => starts[i] > 0
          /\ ~(starts[i] > 0) =>
               \E k \in Id \ {i} :
                 call[k].src = call[i].src /\ Dst(k) = Dst(i) /\ Status(k) = "failed"
      BY <2>1, <2>2, ClearedRequest DEF SameEndsAsTop
    <2>6. i \notin unreported
      <3>1. Dst(i) = Top.dst
        BY <2>1, <2>2, ClearedRequest DEF SameEndsAsTop
      <3> QED
        BY <2>2, <3>1 DEF SafeInv, Hung, Handled
    <2> QED
      BY <2>1, <2>2, <2>3, <2>4, <2>5, <2>6, QueuesLeave DEF SafeInv
  <1>2. CASE DestructorClears
    <2>1. PICK i \in m_copyRequests : ClearRequest(i, FALSE, stack)
      BY <1>2 DEF DestructorClears
    <2>2. stack' = stack /\ UNCHANGED <<call, unreported>> /\ Running("destructor")
      BY <1>2, <2>1 DEF DestructorClears, ClearRequest, TellStopped, OneSourceScripts
    <2>3. Running("destructor")'
      BY <2>2 DEF Running
    <2> QED
      BY <2>1, <2>2, <2>3, QueuesLeave DEF SafeInv
  <1> QED
    BY <1>1, <1>2

LEMMA QueuesClose ==
  ASSUME Destroy
  PROVE  Queues!Next
  <1>1. ~Running("destructor") /\ Running("destructor")'
    <2>1. stack' = Push(DestroyFrame, <<>>) /\ stack = <<>>
      BY DEF Destroy, Push
    <2> QED
      BY <2>1, NowRunning, FramesOf DEF Running
  <1>2. \A k : Status(k)' = Status(k) /\ Dst(k)' = Dst(k) /\ call' = call
    BY DEF Destroy, listenerVars, queueVars, Status, Dst
  <1>3. /\ [k \in Id |-> call[k].src]' = [k \in Id |-> call[k].src]
        /\ [k \in Id |-> Dst(k)]' = [k \in Id |-> Dst(k)]
        /\ [k \in Id |-> Status(k)]' = [k \in Id |-> Status(k)]
    BY <1>2
  <1> QED
    BY <1>1, <1>3 DEF Queues!Next, Queues!Close

LEMMA QueuesQuiet ==
  ASSUME SafeInv, OneSourceScripts,
         \/ DoNextCopyFindsNone \/ NotifyCompletionEnds \/ InitCopyState
         \/ CopyMessagesFails \/ CopyFileFails \/ CopyFileCopies
         \/ \E f \in Folder : CopyEnds(f)
  PROVE  UNCHANGED Queues!vars
  <1>1. UNCHANGED <<call, issued, m_copyRequests, starts, result, unreported>>
    BY DEF DoNextCopyFindsNone, NotifyCompletionEnds, InitCopyState, CopyMessagesFails,
           CopyFileFails, CopyFileCopies, CopyEnds, StreamEnds, listenerVars, queueVars
  <1>2. ~Running("destructor")
    <2>1. CASE \E f \in Folder : CopyEnds(f)
      BY <2>1 DEF CopyEnds, Running
    <2>2. CASE ~(\E f \in Folder : CopyEnds(f))
      BY <2>2, NotNested DEF DoNextCopyFindsNone, NotifyCompletionEnds, InitCopyState,
         CopyMessagesFails, CopyFileFails, CopyFileCopies
    <2> QED
      BY <2>1, <2>2
  <1>3. ~Running("destructor")'
    <2>1. CASE DoNextCopyFindsNone \/ InitCopyState
      <3>1. stack' = <<>>
        BY <2>1, NotNested DEF DoNextCopyFindsNone, InitCopyState, Return
      <3> QED
        BY <3>1 DEF Running
    <2>2. CASE NotifyCompletionEnds
      <3>1. stack' = Push(DoNextCopyFrame, <<>>)
        BY <2>2, NotNested DEF NotifyCompletionEnds
      <3> QED
        BY <3>1, NowRunning, FramesOf
    <2>3. ASSUME NEW sup, NEW dst, NEW ok, OnCopyCompleted(sup, dst, ok, <<>>)
          PROVE  ~Running("destructor")'
      <3>1. stack' = Push(NotifyFrame(sup, dst, ok, Cardinality(m_copyRequests)), <<>>)
        BY <2>3 DEF OnCopyCompleted
      <3> QED
        BY <3>1, NowRunning, FramesOf
    <2>4. CASE CopyMessagesFails
      <3>1. Below = <<>>
        BY <2>4, NotNested DEF CopyMessagesFails
      <3>2. OnCopyCompleted(Top.sup, Top.dst, FALSE, <<>>)
        BY <2>4, <3>1, YieldingNothing DEF CopyMessagesFails
      <3> QED
        BY <2>3, <3>2
    <2>5. CASE CopyFileFails
      <3>1. Below = <<>>
        BY <2>5, NotNested DEF CopyFileFails
      <3>2. OnCopyCompleted(call[Top.owner].src, Dst(Top.owner), FALSE, <<>>)
        BY <2>5, <3>1, YieldingNothing DEF CopyFileFails
      <3> QED
        BY <2>3, <3>2
    <2>6. CASE CopyFileCopies
      <3>1. Below = <<>> /\ Sources(Top.owner) = {}
        BY <1>2, <2>6, NotNested DEF CopyFileCopies, SafeInv, RunningCopy
      <3>2. OnCopyCompleted(call[Top.owner].src, Dst(Top.owner), TRUE, <<>>)
        BY <2>6, <3>1, YieldingNothing DEF CopyFileCopies
      <3> QED
        BY <2>3, <3>2
    <2>7. CASE \E f \in Folder : CopyEnds(f)
      <3>1. PICK f \in Folder, ok \in BOOLEAN : StreamEnds(f, ok)
        BY <2>7 DEF CopyEnds
      <3>2. OnCopyCompleted(mCopyState[f].srcSupport, f, ok, <<>>)
        BY <3>1 DEF StreamEnds
      <3> QED
        BY <2>3, <3>2
    <2> QED
      BY <2>1, <2>2, <2>4, <2>5, <2>6, <2>7
  <1> QED
    BY <1>1, <1>2, <1>3, QueuesStutter

LEMMA QueuesStep ==
  ASSUME OneSourceScripts, SafeInv, ReportInv, [Next]_vars
  PROVE  [Queues!Next]_(Queues!vars)
  <1>1. CASE UserCall
    <2>1. /\ MakeCall(<<>>) /\ TypeOK /\ Unissued /\ UnreportedStarted
          /\ ~Running("destructor")
      BY <1>1 DEF UserCall, SafeInv, Running
    <2>2. ~Running("destructor")'
      <3>1. stack' = <<>> \/ stack' = Push(DoNextCopyFrame, <<>>)
        BY <2>1 DEF MakeCall, NothingToCopy, DoCopy, TellStopped, OneSourceScripts
      <3> QED
        BY <3>1, NowRunning, FramesOf DEF Running
    <2> QED
      BY <2>1, <2>2, QueuesMake
  <1>2. CASE DoNextCopyStarts
    BY <1>2, StartedOpen, QueuesStart DEF SafeInv
  <1>3. CASE NotifyCompletionClears \/ DestructorClears
    BY <1>3, QueuesClear
  <1>4. CASE Destroy
    BY <1>4, QueuesClose
  <1>5. CASE \/ DoNextCopyFindsNone \/ NotifyCompletionEnds \/ InitCopyState
             \/ CopyMessagesFails \/ CopyFileFails \/ CopyFileCopies
             \/ \E f \in Folder : CopyEnds(f)
    BY <1>5, QueuesQuiet
  <1>6. CASE UNCHANGED vars
    <2>1. UNCHANGED <<call, issued, m_copyRequests, starts, result, stack, unreported>>
      BY <1>6 DEF vars, listenerVars, queueVars
    <2>2. Running("destructor")' <=> Running("destructor")
      BY <2>1 DEF Running
    <2> QED
      BY <2>1, <2>2, QueuesStutter
  <1>9. CASE CopyMessagesErrs
    <2>1. /\ Running("CopyMessages") /\ Below = <<>> /\ ~Running("destructor")
      BY <1>9, NotNested DEF CopyMessagesErrs
    <2>2. ~Running("destructor")'
      BY <1>9, <2>1 DEF CopyMessagesErrs, Return, Running
    <2>3. /\ Top.owner \in m_copyRequests /\ starts[Top.owner] > 0
          /\ TypeOK
      BY <2>1 DEF SafeInv, RunningCopy, InFlight
    <2>4. /\ UNCHANGED <<call, issued, m_copyRequests, starts, result>>
          /\ unreported' = unreported \cup {Top.owner}
      BY <1>9 DEF CopyMessagesErrs, queueVars, listenerVars
    <2> QED
      BY <2>1, <2>2, <2>3, <2>4, QueuesHang
  <1>7. CASE MaildirCopies
    BY <1>7 DEF MaildirCopies, OneSourceScripts
  <1>8. CASE \/ ListenerCalls \/ ListenerReturns \/ MaildirStops \/ CopyFileReturns
             \/ CopyFolderRefuses \/ CopyFolderAcrossServer \/ CopyFolderLocal
             \/ CopyFolderReturns \/ ResultReturns
    BY <1>8, NothingNested
  <1> QED
    BY <1>1, <1>2, <1>3, <1>4, <1>5, <1>6, <1>7, <1>8, <1>9 DEF Next, Service, LocalFolder

(***************************************************************************)
(* For any folders, files and number of calls, when every call has one     *)
(* source and no file is copied to a folder twice: every step of the       *)
(* service and its destinations is a step of first-in first-out queues,    *)
(* one for each destination, or leaves them as they are.                   *)
(***************************************************************************)
THEOREM ServiceIsQueues ==
  ASSUME OneSourceScripts, FilesAreDistinct
  PROVE  Spec => Queues!Spec
  <1>1. Init => SafeInv /\ ReportInv /\ Queues!Init
    BY SafeInit, ReportInit, QueuesInit
  <1>2. SafeInv /\ ReportInv /\ [Next]_vars => (SafeInv /\ ReportInv)'
    BY SafeStep, ReportStep
  <1>3. SafeInv /\ ReportInv /\ [Next]_vars => [Queues!Next]_(Queues!vars)
    BY QueuesStep
  <1> QED
    BY <1>1, <1>2, <1>3, PTL DEF Spec, Queues!Spec
=============================================================================
