---------------------- MODULE MsgCopyServiceSafetyProofs ----------------------
(***************************************************************************)
(* What MsgCopyServiceProofs says of all scripts holds of course of those  *)
(* in which every call has one source; for these the service is also safe. *)
(***************************************************************************)
EXTENDS MsgCopyServiceProofs

(***************************************************************************)
(* Callers copy the messages of one folder, or a file that replaces no     *)
(* message; destinations are mbox folders; listeners make no calls.        *)
(***************************************************************************)
OneSource(c) ==
  \/ c.method = "messages" /\ \A k \in DOMAIN c.from : c.from[k] = c.src
  \/ c.method = "files" /\ c.from = <<>>

OneSourceCalls == \A script \in Scripts, i \in Id : OneSource(script[i])

OneSourceScripts ==
  /\ ~Chain
  /\ Maildir = {}
  /\ OneSourceCalls

Plain(kind) ==
  kind \in {"DoNextCopy", "CopyMessages", "CopyFileMessage", "NotifyCompletion", "destructor"}

(***************************************************************************)
(* The inductive invariant.  A request is in flight exactly when its one   *)
(* source is done, and then is the first of its destination; the copy it   *)
(* waits for streams into that destination or is in the running call.      *)
(***************************************************************************)
NoNesting == stack # <<>> => Below = <<>> /\ Plain(Top.kind)

Unissued ==
  \A i \in Id : i > issued =>
    starts[i] = 0 /\ sourceDone[i] = {} /\ i \notin m_processed

StartedIsProcessed ==
  \A i \in m_copyRequests :
    /\ ~NothingSelected(call[i])
    /\ starts[i] > 0 <=> Processed(i)

FirstInFlight ==
  \A i, k \in m_copyRequests : k < i /\ Dst(k) = Dst(i) => starts[i] = 0

OwnerInFlight ==
  \A f \in Folder, i \in Id \cup {0} :
    Busy(f) /\ mCopyState[f].owner = i =>
      InFlight(i) /\ Dst(i) = f /\ call[i].src = mCopyState[f].srcSupport

AttendsTo(i) ==
  \/ Running("CopyMessages") /\ Top.owner = i
  \/ Running("CopyFileMessage") /\ Top.owner = i
  \/ Running("NotifyCompletion") /\ call[i].src = Top.sup /\ Dst(i) = Top.dst

Attended ==
  \A i \in m_copyRequests \ unreported : starts[i] > 0 => Busy(Dst(i)) \/ AttendsTo(i)

(***************************************************************************)
(* A request whose copy failed without a word is still in flight, and no   *)
(* copy to its destination is, whose completion could be taken for its.    *)
(***************************************************************************)
Handled(d) ==
  \/ Busy(d)
  \/ Running("CopyMessages") /\ Top.dst = d
  \/ Running("CopyFileMessage") /\ Dst(Top.owner) = d
  \/ Running("NotifyCompletion") /\ Top.dst = d

UnreportedStarted == \A i \in unreported : starts[i] > 0

Hung == \A i \in unreported : InFlight(i) /\ ~Handled(Dst(i))

RunningCopy ==
  /\ Running("CopyMessages") =>
       /\ InFlight(Top.owner)
       /\ Top.sup = call[Top.owner].src /\ Top.dst = Dst(Top.owner)
       /\ ~Busy(Top.dst)
  /\ Running("CopyFileMessage") =>
       InFlight(Top.owner) /\ Sources(Top.owner) = {} /\ ~Busy(Dst(Top.owner))
  /\ Running("NotifyCompletion") =>
       Top.orig = Cardinality(m_copyRequests) /\ ~Busy(Top.dst)

Served(i) == \E k \in m_copyRequests : k <= i /\ InFlight(k) /\ Dst(k) = Dst(i)

Unserved == {i \in m_copyRequests : ~Served(i)}

WhoIsServed ==
  \/ Unserved = {}
  \/ Running("NotifyCompletion") /\ \A i \in Unserved : Dst(i) = Top.dst
  \/ Running("DoNextCopy") /\ \A i, k \in Unserved : Dst(i) = Dst(k)

SafeInv ==
  /\ TypeOK
  /\ NoNesting
  /\ Unissued
  /\ StartedIsProcessed
  /\ FirstInFlight
  /\ StopsOnce
  /\ UnreportedStarted
  /\ ~Running("destructor") =>
       OwnerInFlight /\ Attended /\ RunningCopy /\ WhoIsServed /\ Hung

-----------------------------------------------------------------------------
LEMMA OneSourcePieces ==
  ASSUME OneSourceCalls, TypeOK, NEW i \in Id, ~NothingSelected(call[i])
  PROVE  \/ /\ call[i].method = "files"
            /\ Sources(i) = {}
         \/ /\ call[i].method = "messages"
            /\ \E k \in Nat : Sources(i) = {k} /\ call[i].from[k] = call[i].src
  <1>1. /\ OneSource(call[i])
        /\ call[i].from \in Seq(Folder \cup {NoFolder})
    BY CallFields DEF OneSourceCalls, TypeOK
  <1>2. CASE call[i].method = "files" /\ call[i].from = <<>>
    BY <1>2 DEF Sources
  <1>3. CASE /\ call[i].method = "messages"
             /\ \A k \in DOMAIN call[i].from : call[i].from[k] = call[i].src
    <2> DEFINE from == call[i].from
    <2>1. from # <<>>
      BY <1>3 DEF NothingSelected
    <2>2. Len(from) \in DOMAIN from /\ DOMAIN from = 1..Len(from) /\ Len(from) \in Nat
      BY <1>1, <2>1
    <2>3. Sources(i) = {Len(from)}
      <3>1. \A k, l \in DOMAIN from : from[k] = from[l]
        BY <1>3
      <3> HIDE DEF from
      <3>2. {k \in DOMAIN from : \A l \in DOMAIN from : l > k => from[l] # from[k]} = {Len(from)}
        BY <2>2, <3>1
      <3> QED
        BY <3>2 DEF Sources, from
    <2> QED
      BY <1>3, <2>2, <2>3
  <1> QED
    BY <1>1, <1>2, <1>3 DEF OneSource

LEMMA OneSourceRequest ==
  ASSUME OneSourceScripts, TypeOK, NEW i \in Id, ~NothingSelected(call[i])
  PROVE  \/ /\ call[i].method = "files"
            /\ Sources(i) = {}
         \/ /\ call[i].method = "messages"
            /\ \E k \in Nat : Sources(i) = {k} /\ call[i].from[k] = call[i].src
  BY OneSourcePieces DEF OneSourceScripts

LEMMA PushTop ==
  ASSUME NEW fr
  PROVE  /\ Push(fr, <<>>) # <<>>
         /\ Head(Push(fr, <<>>)) = fr
         /\ Tail(Push(fr, <<>>)) = <<>>
  BY DEF Push

(***************************************************************************)
(* No frame waits for a result: every return is to the event loop.         *)
(***************************************************************************)
LEMMA YieldingNothing == \A ok : Yielding(ok, <<>>) = <<>>
  BY DEF Yielding

LEMMA NowRunning ==
  ASSUME NEW fr, stack' = Push(fr, <<>>)
  PROVE  /\ stack' # <<>> /\ Top' = fr /\ Below' = <<>>
         /\ Running("DoNextCopy")' <=> fr.kind = "DoNextCopy"
         /\ Running("CopyMessages")' <=> fr.kind = "CopyMessages"
         /\ Running("CopyFileMessage")' <=> fr.kind = "CopyFileMessage"
         /\ Running("NotifyCompletion")' <=> fr.kind = "NotifyCompletion"
         /\ Running("destructor")' <=> fr.kind = "destructor"
  BY PushTop DEF Top, Below, Running

LEMMA FramesOf ==
  /\ DoNextCopyFrame.kind = "DoNextCopy"
  /\ DestroyFrame.kind = "destructor"
  /\ \A i, k, sup, dst :
       LET fr == CopyMessagesFrame(i, k, sup, dst)
       IN  fr.kind = "CopyMessages" /\ fr.owner = i /\ fr.sup = sup /\ fr.dst = dst
  /\ \A i : CopyFileMessageFrame(i).kind = "CopyFileMessage" /\ CopyFileMessageFrame(i).owner = i
  /\ \A sup, dst, ok, orig :
       LET fr == NotifyFrame(sup, dst, ok, orig)
       IN  fr.kind = "NotifyCompletion" /\ fr.sup = sup /\ fr.dst = dst /\ fr.orig = orig
  BY DEF DoNextCopyFrame, DestroyFrame, CopyMessagesFrame, CopyFileMessageFrame, NotifyFrame

(***************************************************************************)
(* A request in flight has its destination to itself.                      *)
(***************************************************************************)
LEMMA OneInFlight ==
  ASSUME TypeOK, FirstInFlight,
         NEW i \in m_copyRequests, NEW k \in m_copyRequests,
         starts[i] > 0, starts[k] > 0, Dst(i) = Dst(k)
  PROVE  i = k
  <1>1. i \in Nat /\ k \in Nat /\ starts[i] # 0 /\ starts[k] # 0
    <2>1. i \in Id /\ k \in Id
      BY QueueFinite
    <2> QED
      BY <2>1 DEF TypeOK, Id
  <1>2. ~(i < k) /\ ~(k < i)
    BY <1>1 DEF FirstInFlight
  <1> QED
    BY <1>1, <1>2

LEMMA SafeInit == Init => SafeInv
  <1> SUFFICES ASSUME Init PROVE SafeInv
    OBVIOUS
  <1>1. TypeOK
    BY InitTypeOK
  <1>2. NoNesting /\ Unissued /\ StartedIsProcessed /\ FirstInFlight
    BY DEF Init, NoNesting, Unissued, StartedIsProcessed, FirstInFlight
  <1>3. StopsOnce
    BY DEF Init, StopsOnce, Id
  <1>4. OwnerInFlight /\ Attended
    BY DEF Init, OwnerInFlight, Attended, Busy
  <1>5. RunningCopy /\ WhoIsServed
    BY DEF Init, RunningCopy, WhoIsServed, Running, Unserved
  <1>6. UnreportedStarted /\ Hung
    BY DEF Init, UnreportedStarted, Hung
  <1> QED
    BY <1>1, <1>2, <1>3, <1>4, <1>5, <1>6 DEF SafeInv

(***************************************************************************)
(* What no step that leaves the queue alone disturbs.                      *)
(***************************************************************************)
LEMMA SameQueue ==
  ASSUME SafeInv, UNCHANGED <<call, queueVars, starts, stops>>
  PROVE  /\ Unissued' /\ StartedIsProcessed' /\ FirstInFlight' /\ StopsOnce'
         /\ Unserved' = Unserved
         /\ \A i : InFlight(i)' = InFlight(i) /\ Dst(i)' = Dst(i)
  <1>1. UNCHANGED <<call, issued, m_copyRequests, m_processed, sourceDone, starts, stops>>
    BY DEF queueVars
  <1>2. \A i : /\ Dst(i)' = Dst(i)
               /\ InFlight(i)' = InFlight(i)
               /\ Processed(i)' = Processed(i)
    BY <1>1 DEF Dst, InFlight, Processed, Sources, AllSourcesDone
  <1>3. Unserved' = Unserved
    BY <1>1, <1>2 DEF Unserved, Served
  <1> QED
    BY <1>1, <1>2, <1>3
       DEF SafeInv, Unissued, StartedIsProcessed, FirstInFlight, StopsOnce

LEMMA SameHung ==
  ASSUME SafeInv, ~Running("destructor"), UNCHANGED <<call, queueVars, starts, unreported>>,
         \A i \in unreported : Handled(Dst(i))' => Handled(Dst(i))
  PROVE  UnreportedStarted' /\ Hung'
  <1>1. UNCHANGED <<call, m_copyRequests, starts, unreported>>
    BY DEF queueVars
  <1>2. UnreportedStarted'
    BY <1>1 DEF SafeInv, UnreportedStarted
  <1>3. Hung'
    BY <1>1 DEF SafeInv, Hung, InFlight
  <1> QED
    BY <1>2, <1>3

(***************************************************************************)
(* A copy that completes leaves its request to NotifyCompletion.           *)
(***************************************************************************)
LEMMA Completes ==
  ASSUME SafeInv, TypeOK', UNCHANGED <<call, queueVars, starts, stops, unreported>>,
         ~Running("destructor"), Unserved = {},
         NEW i \in m_copyRequests, starts[i] > 0, Handled(Dst(i)),
         NEW ok, OnCopyCompleted(call[i].src, Dst(i), ok, <<>>),
         \A k \in m_copyRequests \ unreported : starts[k] > 0 /\ k # i => Busy(Dst(k))
  PROVE  SafeInv'
  <1>0. PICK dst \in Folder : dst = Dst(i)
    <2>1. i \in Id
      BY QueueFinite DEF SafeInv
    <2> QED
      BY <2>1, CallFields DEF SafeInv, TypeOK, Dst
  <1> DEFINE fr == NotifyFrame(call[i].src, dst, ok, Cardinality(m_copyRequests))
  <1>1. /\ stack' = Push(fr, <<>>)
        /\ mCopyState' = [mCopyState EXCEPT ![dst] = NoCopyState]
        /\ DOMAIN mCopyState = Folder
    BY <1>0 DEF OnCopyCompleted, SafeInv, TypeOK
  <1>2. /\ stack' # <<>> /\ Below' = <<>>
        /\ Running("NotifyCompletion")'
        /\ ~Running("CopyMessages")' /\ ~Running("CopyFileMessage")'
        /\ Top'.kind = "NotifyCompletion"
        /\ Top'.sup = call[i].src
        /\ Top'.dst = dst
        /\ Top'.orig = Cardinality(m_copyRequests)
    BY <1>1, NowRunning, FramesOf
  <1>3. UNCHANGED <<call, m_copyRequests, starts>>
    BY DEF queueVars
  <1>4. /\ ~Busy(dst)'
        /\ \A f \in Folder \ {dst} : mCopyState'[f] = mCopyState[f] /\ (Busy(f)' <=> Busy(f))
    BY <1>1 DEF Busy
  <1>5. NoNesting'
    BY <1>2 DEF NoNesting, Plain
  <1>6. OwnerInFlight'
    <2> SUFFICES ASSUME NEW f \in Folder, NEW k \in Id \cup {0},
                        Busy(f)', mCopyState'[f].owner = k
                 PROVE  InFlight(k)' /\ Dst(k)' = f /\ call'[k].src = mCopyState'[f].srcSupport
      BY DEF OwnerInFlight
    <2>1. f # dst /\ mCopyState'[f] = mCopyState[f] /\ Busy(f)
      BY <1>4
    <2>2. InFlight(k) /\ Dst(k) = f /\ call[k].src = mCopyState[f].srcSupport
      BY <2>1 DEF SafeInv, OwnerInFlight
    <2> QED
      BY <1>3, <2>1, <2>2, SameQueue
  <1>7. Attended'
    <2> SUFFICES ASSUME NEW k \in m_copyRequests' \ unreported', starts'[k] > 0
                 PROVE  Busy(Dst(k))' \/ AttendsTo(k)'
      BY DEF Attended
    <2>1. k \in m_copyRequests \ unreported /\ starts[k] > 0 /\ Dst(k)' = Dst(k)
      BY <1>3, SameQueue
    <2>2. CASE k = i
      BY <1>0, <1>2, <1>3, <2>1, <2>2 DEF AttendsTo
    <2>3. CASE k # i
      <3>1. Dst(k) # dst
        BY <1>0, <2>1, <2>3, OneInFlight DEF SafeInv
      <3>2. Busy(Dst(k)) /\ Dst(k) \in Folder
        <4>1. k \in Id
          BY <2>1, QueueFinite DEF SafeInv
        <4> QED
          BY <2>1, <2>3, <4>1, CallFields DEF SafeInv, TypeOK, Dst
      <3> QED
        BY <1>4, <2>1, <3>1, <3>2 DEF Busy
    <2> QED
      BY <2>2, <2>3
  <1>8. RunningCopy'
    BY <1>2, <1>3, <1>4 DEF RunningCopy, Busy
  <1>9. WhoIsServed'
    BY SameQueue DEF WhoIsServed
  <1>10. UnreportedStarted' /\ Hung'
    <2>1. ASSUME NEW k \in unreported, Handled(Dst(k))' PROVE Handled(Dst(k))
      <3>1. k \in m_copyRequests /\ Dst(k)' = Dst(k) /\ Dst(k) \in Folder
        <4>1. k \in m_copyRequests /\ k \in Id
          BY QueueFinite DEF SafeInv, Hung, InFlight
        <4> QED
          BY <4>1, CallFields, SameQueue DEF SafeInv, TypeOK, Dst
      <3>2. CASE Dst(k) = dst
        BY <1>0, <3>2
      <3>3. CASE Dst(k) # dst
        BY <1>2, <1>4, <2>1, <3>1, <3>3 DEF Handled, Busy
      <3> QED
        BY <3>2, <3>3
    <2> QED
      BY <2>1, SameHung
  <1> QED
    BY <1>5, <1>6, <1>7, <1>8, <1>9, <1>10, SameQueue DEF SafeInv

LEMMA NotNested ==
  ASSUME SafeInv, NEW kind, Running(kind)
  PROVE  /\ Below = <<>>
         /\ Plain(kind)
         /\ Top.kind = kind
         /\ kind # "NotifyCompletion" => ~Running("NotifyCompletion")
         /\ kind # "DoNextCopy" => ~Running("DoNextCopy")
         /\ kind # "CopyMessages" => ~Running("CopyMessages")
         /\ kind # "CopyFileMessage" => ~Running("CopyFileMessage")
         /\ kind # "destructor" => ~Running("destructor")
  BY DEF SafeInv, NoNesting, Running, Top

LEMMA CopiesComplete ==
  ASSUME SafeInv, OneSourceScripts, TypeOK', CopyMessagesFails \/ CopyFileFails \/ CopyFileCopies
  PROVE  SafeInv'
  <1> DEFINE i == Top.owner
  <1>1. Running("CopyMessages") \/ Running("CopyFileMessage")
    BY DEF CopyMessagesFails, CopyFileFails, CopyFileCopies
  <1>2. /\ Below = <<>>
        /\ ~Running("destructor") /\ ~Running("NotifyCompletion") /\ ~Running("DoNextCopy")
    BY <1>1, NotNested
  <1>3. i \in m_copyRequests /\ starts[i] > 0 /\ Unserved = {}
    BY <1>1, <1>2 DEF SafeInv, RunningCopy, InFlight, WhoIsServed
  <1>4. UNCHANGED <<call, queueVars, starts, stops, unreported>>
    BY DEF CopyMessagesFails, CopyFileFails, CopyFileCopies, listenerVars
  <1>5. \A k \in m_copyRequests \ unreported : starts[k] > 0 /\ k # i => Busy(Dst(k))
    BY <1>2 DEF SafeInv, Attended, AttendsTo
  <1>7. Handled(Dst(i))
    BY <1>1, <1>2 DEF SafeInv, RunningCopy, Handled
  <1>6. PICK ok \in BOOLEAN : OnCopyCompleted(call[i].src, Dst(i), ok, <<>>)
    <2>1. CASE CopyMessagesFails
      <3>1. Top.sup = call[i].src /\ Top.dst = Dst(i)
        BY <1>2, <2>1 DEF CopyMessagesFails, SafeInv, RunningCopy
      <3> QED
        BY <1>2, <2>1, <3>1, YieldingNothing DEF CopyMessagesFails
    <2>2. CASE CopyFileFails
      BY <1>2, <2>2, YieldingNothing DEF CopyFileFails
    <2>3. CASE CopyFileCopies
      <3>1. Sources(i) = {}
        BY <1>2, <2>3 DEF CopyFileCopies, SafeInv, RunningCopy
      <3> QED
        BY <1>2, <2>3, <3>1, YieldingNothing DEF CopyFileCopies
    <2> QED
      BY <2>1, <2>2, <2>3
  <1> QED
    BY <1>2, <1>3, <1>4, <1>5, <1>6, <1>7, Completes

(***************************************************************************)
(* CopyMessages that tells nobody of its error leaves its request in the   *)
(* queue for good.                                                         *)
(***************************************************************************)
LEMMA ErrsSafe ==
  ASSUME SafeInv, TypeOK', CopyMessagesErrs
  PROVE  SafeInv'
  <1>1. /\ Running("CopyMessages")
        /\ Below = <<>>
        /\ ~Running("destructor") /\ ~Running("NotifyCompletion")
        /\ ~Running("DoNextCopy") /\ ~Running("CopyFileMessage")
    BY NotNested DEF CopyMessagesErrs
  <1>2. PICK i \in Id : /\ i = Top.owner
                        /\ InFlight(i) /\ Dst(i) = Top.dst
                        /\ ~Busy(Dst(i))
    BY <1>1, TopType DEF SafeInv, RunningCopy
  <1>3. /\ unreported' = unreported \cup {i}
        /\ stack' = <<>>
    BY <1>1, <1>2 DEF CopyMessagesErrs, Return
  <1>4. /\ UNCHANGED <<call, queueVars, starts, stops, mCopyState>>
        /\ m_copyRequests' = m_copyRequests
    BY DEF CopyMessagesErrs, listenerVars, queueVars
  <1>5. \A kind : ~Running(kind)'
    BY <1>3 DEF Running
  <1>6. \A f : Busy(f)' <=> Busy(f)
    BY <1>4 DEF Busy
  <1>7. Attended'
    <2> SUFFICES ASSUME NEW k \in m_copyRequests' \ unreported', starts'[k] > 0
                 PROVE  Busy(Dst(k))'
      BY DEF Attended
    <2>1. k \in m_copyRequests \ unreported /\ starts[k] > 0 /\ k # i
      BY <1>3, <1>4
    <2>2. Busy(Dst(k))
      BY <1>1, <1>2, <2>1 DEF SafeInv, Attended, AttendsTo
    <2> QED
      BY <1>4, <2>2, SameQueue DEF Busy
  <1>8. UnreportedStarted'
    BY <1>2, <1>3, <1>4 DEF SafeInv, UnreportedStarted, InFlight
  <1>9. Hung'
    <2> SUFFICES ASSUME NEW k \in unreported' PROVE InFlight(k)' /\ ~Busy(Dst(k))'
      BY <1>5 DEF Hung, Handled, Busy
    <2>1. InFlight(k) /\ ~Busy(Dst(k))
      BY <1>1, <1>2, <1>3 DEF SafeInv, Hung, Handled
    <2> QED
      BY <1>4, <2>1, SameQueue DEF Busy
  <1>10. WhoIsServed'
    <2>1. Unserved = {}
      BY <1>1 DEF SafeInv, WhoIsServed
    <2> QED
      BY <1>4, <2>1, SameQueue DEF WhoIsServed
  <1>11. OwnerInFlight' /\ RunningCopy' /\ NoNesting'
    <2>1. \A f \in Folder : Busy(f)' => Busy(f)
      BY <1>6
    <2>2. OwnerInFlight'
      BY <1>1, <1>4, <2>1, SameQueue DEF SafeInv, OwnerInFlight
    <2> QED
      BY <1>3, <1>5, <2>2 DEF RunningCopy, NoNesting
  <1> QED
    BY <1>4, <1>7, <1>8, <1>9, <1>10, <1>11, SameQueue DEF SafeInv

LEMMA StreamsComplete ==
  ASSUME SafeInv, TypeOK', NEW f \in Folder, CopyEnds(f)
  PROVE  SafeInv'
  <1>1. PICK ok \in BOOLEAN : StreamEnds(f, ok)
    BY DEF CopyEnds
  <1>2. /\ stack = <<>>
        /\ Busy(f)
        /\ OnCopyCompleted(mCopyState[f].srcSupport, f, ok, <<>>)
        /\ UNCHANGED <<call, queueVars, starts, stops, unreported>>
    BY <1>1 DEF CopyEnds, StreamEnds, listenerVars
  <1>3. PICK i \in Id \cup {0} : mCopyState[f].owner = i
    BY DEF SafeInv, TypeOK
  <1>4. \A kind : ~Running(kind)
    BY <1>2 DEF Running
  <1>5. /\ i \in m_copyRequests /\ starts[i] > 0
        /\ Dst(i) = f /\ call[i].src = mCopyState[f].srcSupport
    BY <1>2, <1>3, <1>4 DEF SafeInv, OwnerInFlight, InFlight
  <1>6. Unserved = {}
    BY <1>4 DEF SafeInv, WhoIsServed
  <1>7. \A k \in m_copyRequests \ unreported : starts[k] > 0 /\ k # i => Busy(Dst(k))
    BY <1>4 DEF SafeInv, Attended, AttendsTo
  <1>8. Handled(Dst(i))
    BY <1>2, <1>5 DEF Handled
  <1> QED
    BY <1>2, <1>4, <1>5, <1>6, <1>7, <1>8, Completes

LEMMA InitCopyStateSafe ==
  ASSUME SafeInv, TypeOK', InitCopyState
  PROVE  SafeInv'
  <1>1. /\ Running("CopyMessages")
        /\ Below = <<>>
        /\ ~Running("destructor") /\ ~Running("NotifyCompletion")
        /\ ~Running("DoNextCopy") /\ ~Running("CopyFileMessage")
    BY NotNested DEF InitCopyState
  <1>2. PICK i \in Id, dst \in Folder :
          /\ i = Top.owner /\ dst = Top.dst
          /\ InFlight(i) /\ Dst(i) = dst /\ call[i].src = Top.sup
          /\ ~Busy(dst)
    BY <1>1, TopType DEF SafeInv, RunningCopy
  <1>3. /\ mCopyState' = [mCopyState EXCEPT ![dst] =
                            [owner |-> i, entry |-> Top.entry, srcSupport |-> Top.sup]]
        /\ stack' = <<>>
        /\ DOMAIN mCopyState = Folder
    BY <1>1, <1>2 DEF InitCopyState, Return, SafeInv, TypeOK
  <1>4. UNCHANGED <<call, queueVars, starts, stops, m_copyRequests, unreported>>
    BY DEF InitCopyState, listenerVars, queueVars
  <1>5. \A kind : ~Running(kind)'
    BY <1>3 DEF Running
  <1>6. /\ Busy(dst)'
        /\ mCopyState'[dst].owner = i
        /\ mCopyState'[dst].srcSupport = call[i].src
        /\ \A f \in Folder \ {dst} : mCopyState'[f] = mCopyState[f] /\ (Busy(f)' <=> Busy(f))
    <2>1. i # 0
      BY DEF Id
    <2> QED
      BY <1>2, <1>3, <2>1 DEF Busy, NoCopyState
  <1>7. OwnerInFlight'
    <2> SUFFICES ASSUME NEW f \in Folder, NEW k \in Id \cup {0},
                        Busy(f)', mCopyState'[f].owner = k
                 PROVE  InFlight(k)' /\ Dst(k)' = f /\ call'[k].src = mCopyState'[f].srcSupport
      BY DEF OwnerInFlight
    <2>1. InFlight(k) /\ Dst(k) = f /\ call[k].src = mCopyState'[f].srcSupport
      BY <1>1, <1>2, <1>6 DEF SafeInv, OwnerInFlight
    <2> QED
      BY <1>4, <2>1, SameQueue
  <1>8. Attended'
    <2> SUFFICES ASSUME NEW k \in m_copyRequests' \ unreported', starts'[k] > 0
                 PROVE  Busy(Dst(k))' \/ AttendsTo(k)'
      BY DEF Attended
    <2>1. /\ k \in m_copyRequests \ unreported
          /\ starts[k] > 0 /\ Dst(k)' = Dst(k) /\ Dst(k) \in Folder
      <3>1. k \in m_copyRequests /\ k \in Id
        BY <1>4, QueueFinite DEF SafeInv
      <3> QED
        BY <1>4, <3>1, CallFields, SameQueue DEF SafeInv, TypeOK, Dst
    <2>2. Busy(Dst(k)) \/ k = i
      BY <1>1, <1>2, <2>1 DEF SafeInv, Attended, AttendsTo
    <2> QED
      BY <1>2, <1>6, <2>1, <2>2 DEF Busy
  <1>9. RunningCopy' /\ NoNesting'
    BY <1>3, <1>5 DEF RunningCopy, NoNesting
  <1>10. WhoIsServed'
    <2>1. Unserved = {}
      BY <1>1 DEF SafeInv, WhoIsServed
    <2> QED
      BY <1>4, <2>1, SameQueue DEF WhoIsServed
  <1>11. UnreportedStarted' /\ Hung'
    <2>1. ASSUME NEW k \in unreported, Handled(Dst(k))' PROVE Handled(Dst(k))
      <3>1. k \in m_copyRequests /\ Dst(k)' = Dst(k) /\ Dst(k) \in Folder
        <4>1. k \in m_copyRequests /\ k \in Id
          BY <1>1, QueueFinite DEF SafeInv, Hung, InFlight
        <4> QED
          BY <1>4, <4>1, CallFields, SameQueue DEF SafeInv, TypeOK, Dst
      <3>2. Busy(Dst(k))'
        BY <1>5, <2>1 DEF Handled, Busy
      <3> QED
        BY <1>1, <1>2, <1>6, <3>1, <3>2 DEF Handled, Busy
    <2> QED
      BY <1>1, <1>4, <2>1, SameHung
  <1> QED
    BY <1>4, <1>7, <1>8, <1>9, <1>10, <1>11, SameQueue DEF SafeInv

(***************************************************************************)
(* Steps that change nothing but the calls in progress.                    *)
(***************************************************************************)
LEMMA SameCopies ==
  ASSUME SafeInv, ~Running("destructor"),
         UNCHANGED <<call, queueVars, starts, stops, mCopyState>>
  PROVE  OwnerInFlight'
  <1> SUFFICES ASSUME NEW f \in Folder, NEW k \in Id \cup {0},
                      Busy(f)', mCopyState'[f].owner = k
               PROVE  InFlight(k)' /\ Dst(k)' = f /\ call'[k].src = mCopyState'[f].srcSupport
    BY DEF OwnerInFlight
  <1>1. InFlight(k) /\ Dst(k) = f /\ call[k].src = mCopyState[f].srcSupport
    BY DEF SafeInv, OwnerInFlight, Busy
  <1> QED
    BY <1>1, SameQueue

LEMMA FindsNoneSafe ==
  ASSUME SafeInv, TypeOK', DoNextCopyFindsNone
  PROVE  SafeInv'
  <1>1. /\ Running("DoNextCopy")
        /\ Below = <<>>
        /\ ~Running("destructor") /\ ~Running("NotifyCompletion")
        /\ ~Running("CopyMessages") /\ ~Running("CopyFileMessage")
    BY NotNested DEF DoNextCopyFindsNone
  <1>2. stack' = <<>> /\ \A kind : ~Running(kind)'
    BY <1>1 DEF DoNextCopyFindsNone, Return, Running
  <1>3. /\ UNCHANGED <<call, queueVars, starts, stops, mCopyState, unreported>>
        /\ m_copyRequests' = m_copyRequests
    BY DEF DoNextCopyFindsNone, listenerVars, queueVars
  <1>4. Unserved = {}
    <2> SUFFICES ASSUME NEW i \in m_copyRequests PROVE Served(i)
      BY DEF Unserved
    <2>1. Processed(i) \/ ActiveTarget(i)
      BY DEF DoNextCopyFindsNone, Startable
    <2>2. m_copyRequests \subseteq Nat
      BY MaxRequestsAssumption DEF SafeInv, TypeOK
    <2>3. PICK k \in m_copyRequests : k <= i /\ Dst(k) = Dst(i) /\ Processed(k)
      BY <2>1, <2>2 DEF ActiveTarget
    <2> QED
      BY <2>3 DEF Served, InFlight, SafeInv, StartedIsProcessed
  <1>5. Attended'
    <2> SUFFICES ASSUME NEW k \in m_copyRequests' \ unreported', starts'[k] > 0
                 PROVE  Busy(Dst(k))' \/ AttendsTo(k)'
      BY DEF Attended
    <2>1. Busy(Dst(k))
      BY <1>1, <1>3 DEF SafeInv, Attended, AttendsTo
    <2> QED
      BY <1>3, <2>1, SameQueue DEF Busy
  <1>6. UnreportedStarted' /\ Hung'
    <2>1. \A k : Handled(Dst(k))' => Handled(Dst(k))
      BY <1>2, <1>3, SameQueue DEF Handled, Busy
    <2> QED
      BY <1>1, <1>3, <2>1, SameHung
  <1> QED
    BY <1>1, <1>2, <1>3, <1>4, <1>5, <1>6, SameQueue, SameCopies
       DEF SafeInv, NoNesting, RunningCopy, WhoIsServed

LEMMA DestroySafe ==
  ASSUME SafeInv, TypeOK', Destroy
  PROVE  SafeInv'
  <1>1. stack' = Push(DestroyFrame, <<>>)
    BY DEF Destroy, Push
  <1>2. Running("destructor")' /\ NoNesting'
    BY <1>1, NowRunning, FramesOf DEF NoNesting, Plain
  <1>3. UNCHANGED <<call, queueVars, starts, stops, unreported>>
    BY DEF Destroy, listenerVars
  <1>4. UnreportedStarted'
    BY <1>3 DEF SafeInv, UnreportedStarted
  <1> QED
    BY <1>2, <1>3, <1>4, SameQueue DEF SafeInv

(***************************************************************************)
(* NotifyCompletion: a request that leaves the queue.                      *)
(***************************************************************************)
LEMMA Leaves ==
  ASSUME SafeInv, NEW i \in m_copyRequests, NEW ok, NEW s, ClearRequest(i, ok, s), call' = call
  PROVE  /\ Unissued' /\ StartedIsProcessed' /\ FirstInFlight' /\ StopsOnce'
         /\ Cardinality(m_copyRequests') = Cardinality(m_copyRequests) - 1
         /\ m_copyRequests' = m_copyRequests \ {i}
         /\ \A k : /\ InFlight(k)' <=> (InFlight(k) /\ k # i)
                  /\ Dst(k)' = Dst(k)
  <1>1. /\ m_copyRequests' = m_copyRequests \ {i}
        /\ stops' = [stops EXCEPT ![i] = @ + 1]
        /\ UNCHANGED <<issued, m_processed, sourceDone, starts>>
    BY DEF ClearRequest, TellStopped
  <1>2. \A k : Dst(k)' = Dst(k) /\ (Processed(k)' <=> k \in m_processed \/ Processed(k))
    BY <1>1 DEF Dst, Processed, Sources, AllSourcesDone
  <1>3. \A k : Processed(k)' <=> Processed(k)
    BY <1>2 DEF Processed
  <1>4. Unissued' /\ FirstInFlight'
    BY <1>1, <1>2 DEF SafeInv, Unissued, FirstInFlight
  <1>5. StartedIsProcessed'
    BY <1>1, <1>3 DEF SafeInv, StartedIsProcessed
  <1>6. StopsOnce'
    <2>1. i \in Id /\ i <= issued
      <3>1. m_copyRequests \subseteq 1..issued
        BY DEF SafeInv, TypeOK
      <3> QED
        BY <3>1, QueueFinite DEF SafeInv
    <2>2. stops \in [Id -> Nat] /\ stops[i] = 0
      BY <2>1 DEF SafeInv, StopsOnce, TypeOK
    <2> QED
      BY <1>1, <2>1, <2>2 DEF SafeInv, StopsOnce
  <1>7. Cardinality(m_copyRequests') = Cardinality(m_copyRequests) - 1
    BY <1>1, QueueFinite, FS_RemoveElement DEF SafeInv
  <1> QED
    BY <1>1, <1>2, <1>4, <1>5, <1>6, <1>7 DEF InFlight

LEMMA NotifyClearsSafe ==
  ASSUME SafeInv, OneSourceScripts, TypeOK', NotifyCompletionClears
  PROVE  SafeInv'
  <1>1. PICK i \in m_copyRequests :
          /\ FindRequest(i, Top.sup, Top.dst)
          /\ ClearRequest(i, Top.ok, Push(NotifyFrame(Top.sup, Top.dst, Top.ok, Top.orig - 1), Below))
    BY DEF NotifyCompletionClears, Clearable
  <1>2. /\ Running("NotifyCompletion")
        /\ Below = <<>>
        /\ ~Running("destructor") /\ ~Running("DoNextCopy")
        /\ ~Running("CopyMessages") /\ ~Running("CopyFileMessage")
    BY NotNested DEF NotifyCompletionClears
  <1>3. PICK sup \in Support, dst \in Folder, ok \in BOOLEAN, orig \in Nat :
          /\ sup = Top.sup /\ dst = Top.dst /\ ok = Top.ok /\ orig = Top.orig
    BY <1>2, TopType DEF SafeInv
  <1> DEFINE fr == NotifyFrame(sup, dst, ok, orig - 1)
  <1>4. call[i].src = sup /\ Dst(i) = dst
    <2>1. i \in Id /\ ~NothingSelected(call[i])
      BY QueueFinite DEF SafeInv, StartedIsProcessed
    <2>2. call[i].method # "folders"
      BY <2>1, OneSourceRequest DEF SafeInv
    <2> QED
      BY <1>1, <1>3, <2>2 DEF FindRequest, SameEnds
  <1>5. stack' = Push(fr, <<>>)
    BY <1>1, <1>2, <1>3 DEF ClearRequest, TellStopped, OneSourceScripts
  <1>6. /\ stack' # <<>> /\ Below' = <<>>
        /\ Running("NotifyCompletion")'
        /\ ~Running("CopyMessages")' /\ ~Running("CopyFileMessage")'
        /\ Top'.kind = "NotifyCompletion"
        /\ Top'.sup = sup
        /\ Top'.dst = dst
        /\ Top'.orig = orig - 1
    BY <1>5, NowRunning, FramesOf
  <1>7. /\ UNCHANGED <<call, mCopyState, starts, unreported>>
        /\ m_copyRequests' = m_copyRequests \ {i}
    BY <1>1 DEF NotifyCompletionClears, ClearRequest
  <1>8. \A k : /\ InFlight(k)' <=> (InFlight(k) /\ k # i)
               /\ Dst(k)' = Dst(k)
    BY <1>1, <1>7, Leaves
  <1>9. ~Busy(dst)
    BY <1>2, <1>3 DEF SafeInv, RunningCopy
  <1>10. OwnerInFlight'
    <2> SUFFICES ASSUME NEW f \in Folder, NEW k \in Id \cup {0},
                        Busy(f)', mCopyState'[f].owner = k
                 PROVE  InFlight(k)' /\ Dst(k)' = f /\ call'[k].src = mCopyState'[f].srcSupport
      BY DEF OwnerInFlight
    <2>1. /\ InFlight(k) /\ Dst(k) = f /\ call[k].src = mCopyState[f].srcSupport
          /\ f # dst
      BY <1>2, <1>7, <1>9 DEF SafeInv, OwnerInFlight, Busy
    <2> QED
      BY <1>4, <1>7, <1>8, <2>1
  <1>11. Attended'
    <2> SUFFICES ASSUME NEW k \in m_copyRequests' \ unreported', starts'[k] > 0
                 PROVE  Busy(Dst(k))' \/ AttendsTo(k)'
      BY DEF Attended
    <2>1. Busy(Dst(k)) \/ (call[k].src = sup /\ Dst(k) = dst)
      BY <1>2, <1>3, <1>7 DEF SafeInv, Attended, AttendsTo
    <2> QED
      BY <1>6, <1>7, <1>8, <2>1 DEF Busy, AttendsTo
  <1>12. RunningCopy'
    <2>1. Cardinality(m_copyRequests') = orig - 1
      BY <1>1, <1>2, <1>3, <1>7, Leaves DEF SafeInv, RunningCopy
    <2> QED
      BY <1>6, <1>7, <1>9, <2>1 DEF RunningCopy, Busy
  <1>13. WhoIsServed'
    <2> SUFFICES ASSUME NEW k \in Unserved' PROVE Dst(k)' = dst
      BY <1>6 DEF WhoIsServed
    <2> SUFFICES ASSUME Dst(k) # dst PROVE FALSE
      BY <1>8
    <2>1. k \in m_copyRequests /\ ~Served(k)'
      BY <1>7 DEF Unserved
    <2>2. Served(k)
      BY <1>2, <1>3, <2>1 DEF SafeInv, WhoIsServed, Unserved
    <2>3. PICK j \in m_copyRequests : j <= k /\ InFlight(j) /\ Dst(j) = Dst(k)
      BY <2>2 DEF Served
    <2>4. j \in m_copyRequests' /\ InFlight(j)' /\ Dst(j)' = Dst(k)'
      BY <1>4, <1>7, <1>8, <2>3
    <2> QED
      BY <2>1, <2>3, <2>4 DEF Served
  <1>14. NoNesting'
    BY <1>6 DEF NoNesting, Plain
  <1>15. UnreportedStarted'
    BY <1>7 DEF SafeInv, UnreportedStarted
  <1>16. Hung'
    <2> SUFFICES ASSUME NEW k \in unreported PROVE InFlight(k)' /\ ~Handled(Dst(k))'
      BY <1>7 DEF Hung
    <2>1. InFlight(k) /\ ~Handled(Dst(k)) /\ Dst(k) # dst
      BY <1>2, <1>3 DEF SafeInv, Hung, Handled
    <2> QED
      BY <1>4, <1>6, <1>7, <1>8, <2>1 DEF Handled, Busy
  <1> QED
    BY <1>1, <1>7, <1>10, <1>11, <1>12, <1>13, <1>14, <1>15, <1>16, Leaves DEF SafeInv

LEMMA DestructorSafe ==
  ASSUME SafeInv, OneSourceScripts, TypeOK', DestructorClears
  PROVE  SafeInv'
  <1>1. PICK i \in m_copyRequests : ClearRequest(i, FALSE, stack)
    BY DEF DestructorClears
  <1>2. stack' = stack
    BY <1>1 DEF ClearRequest, TellStopped, OneSourceScripts
  <1>3. Running("destructor")' /\ NoNesting'
    BY <1>2 DEF DestructorClears, Running, SafeInv, NoNesting, Below, Top
  <1>4. call' = call
    BY DEF DestructorClears
  <1>5. UnreportedStarted'
    BY <1>1 DEF DestructorClears, ClearRequest, SafeInv, UnreportedStarted
  <1> QED
    BY <1>1, <1>3, <1>4, <1>5, Leaves DEF SafeInv

(***************************************************************************)
(* When NotifyCompletion is done, it has cleared the request it was for.   *)
(***************************************************************************)
LEMMA NotifyEndsSafe ==
  ASSUME SafeInv, OneSourceScripts, TypeOK', NotifyCompletionEnds
  PROVE  SafeInv'
  <1>1. /\ Running("NotifyCompletion")
        /\ Below = <<>>
        /\ ~Running("destructor") /\ ~Running("DoNextCopy")
        /\ ~Running("CopyMessages") /\ ~Running("CopyFileMessage")
    BY NotNested DEF NotifyCompletionEnds
  <1>2. stack' = Push(DoNextCopyFrame, <<>>)
    BY <1>1 DEF NotifyCompletionEnds
  <1>3. /\ stack' # <<>> /\ Below' = <<>>
        /\ Running("DoNextCopy")'
        /\ ~Running("NotifyCompletion")'
        /\ ~Running("CopyMessages")' /\ ~Running("CopyFileMessage")'
        /\ Top'.kind = "DoNextCopy"
    BY <1>2, NowRunning, FramesOf
  <1>4. /\ UNCHANGED <<call, queueVars, starts, stops, mCopyState, unreported>>
        /\ m_copyRequests' = m_copyRequests
    BY DEF NotifyCompletionEnds, listenerVars, queueVars
  <1>5. ASSUME NEW i \in m_copyRequests \ unreported, starts[i] > 0
        PROVE  Busy(Dst(i))
    <2> SUFFICES ASSUME call[i].src = Top.sup, Dst(i) = Top.dst PROVE FALSE
      BY <1>1, <1>5 DEF SafeInv, Attended, AttendsTo
    <2>1. i \in Id /\ i \in Nat /\ m_copyRequests \subseteq Nat
      BY QueueFinite, MaxRequestsAssumption DEF SafeInv, TypeOK, Id
    <2>2. Processed(i) /\ ~NothingSelected(call[i])
      BY <1>5 DEF SafeInv, StartedIsProcessed
    <2>3. /\ call[i].method # "folders"
          /\ i \in m_processed \/ AllSourcesDone(i)
      BY <2>1, <2>2, OneSourceRequest DEF SafeInv, Processed
    <2>4. Matches(i, Top.sup, Top.dst)
      BY <2>3 DEF Matches, SameEnds
    <2>5. ASSUME NEW k \in m_copyRequests, k < i, Matches(k, Top.sup, Top.dst) PROVE FALSE
      <3>1. k \in Id /\ ~NothingSelected(call[k])
        BY QueueFinite DEF SafeInv, StartedIsProcessed
      <3>2. call[k].method # "folders"
        BY <3>1, OneSourceRequest DEF SafeInv
      <3>3. Dst(k) = Top.dst
        BY <2>5, <3>2 DEF Matches, SameEnds
      <3> QED
        BY <1>5, <2>5, <3>3 DEF SafeInv, FirstInFlight
    <2>6. FindRequest(i, Top.sup, Top.dst)
      BY <2>4, <2>5 DEF FindRequest, Matches
    <2>7. IndexOf(i) < Top.orig
      <3>1. /\ IsFiniteSet(m_copyRequests)
            /\ i \notin {k \in m_copyRequests : k < i}
            /\ Cardinality(m_copyRequests) \in Nat
        BY <2>1, QueueFinite DEF SafeInv
      <3>2. Cardinality(m_copyRequests \ {i}) = Cardinality(m_copyRequests) - 1
        BY <3>1, FS_RemoveElement
      <3>3. /\ {k \in m_copyRequests : k < i} \subseteq m_copyRequests \ {i}
            /\ IsFiniteSet(m_copyRequests \ {i})
        BY <2>1, <3>1, FS_RemoveElement
      <3>4. Cardinality({k \in m_copyRequests : k < i}) <= Cardinality(m_copyRequests \ {i})
        BY <3>3, FS_Subset
      <3>5. IndexOf(i) \in Nat
        BY <2>1, QueueFinite DEF SafeInv
      <3> QED
        BY <1>1, <3>1, <3>2, <3>4, <3>5 DEF IndexOf, SafeInv, RunningCopy
    <2> QED
      BY <2>3, <2>6, <2>7 DEF NotifyCompletionEnds, Clearable
  <1>6. Attended'
    BY <1>4, <1>5, SameQueue DEF Attended, Busy
  <1>7. WhoIsServed'
    <2>1. \A i, k \in Unserved : Dst(i) = Dst(k)
      BY <1>1 DEF SafeInv, WhoIsServed
    <2> QED
      BY <1>3, <2>1, SameQueue, <1>4 DEF WhoIsServed
  <1>8. UnreportedStarted' /\ Hung'
    <2>1. \A k : Handled(Dst(k))' => Handled(Dst(k))
      BY <1>3, <1>4, SameQueue DEF Handled, Busy
    <2> QED
      BY <1>1, <1>4, <2>1, SameHung
  <1> QED
    BY <1>3, <1>4, <1>1, <1>6, <1>7, <1>8, SameQueue, SameCopies
       DEF SafeInv, NoNesting, Plain, RunningCopy

(***************************************************************************)
(* A call: the next request is new to everything.                          *)
(***************************************************************************)
LEMMA NextRequest ==
  ASSUME SafeInv, UserCall
  PROVE  LET i == issued + 1
         IN  /\ i \in Id /\ i \notin m_copyRequests
             /\ starts[i] = 0 /\ stops[i] = 0 /\ sourceDone[i] = {} /\ i \notin m_processed
             /\ \A k \in m_copyRequests : k < i /\ k # i
             /\ issued \in Nat /\ issued' = i
             /\ UNCHANGED <<call, mCopyState, unreported>>
             /\ stack = <<>>
  <1>1. /\ issued + 1 \in Id
        /\ issued \in Nat
        /\ m_copyRequests \subseteq 1..issued
    BY MaxRequestsAssumption DEF SafeInv, TypeOK, UserCall, MakeCall, Id
  <1>2. /\ issued' = issued + 1
        /\ UNCHANGED <<call, mCopyState, unreported>>
        /\ stack = <<>>
    BY DEF UserCall, MakeCall
  <1>3. /\ starts[issued + 1] = 0
        /\ sourceDone[issued + 1] = {}
        /\ issued + 1 \notin m_processed
    BY <1>1 DEF SafeInv, Unissued
  <1>4. stops[issued + 1] = 0
    BY <1>1 DEF SafeInv, StopsOnce
  <1> QED
    BY <1>1, <1>2, <1>3, <1>4

LEMMA NothingToCopySafe ==
  ASSUME SafeInv, OneSourceScripts, TypeOK', UserCall, NothingToCopy(issued + 1, <<>>)
  PROVE  SafeInv'
  <1>1. PICK i \in Id : i = issued + 1
    BY NextRequest
  <1>2. /\ i \notin m_copyRequests
        /\ starts[i] = 0 /\ stops[i] = 0 /\ sourceDone[i] = {} /\ i \notin m_processed
        /\ issued \in Nat /\ issued' = i
        /\ UNCHANGED <<call, mCopyState, m_copyRequests, m_processed, sourceDone, unreported>>
        /\ stack = <<>>
        /\ starts' = [starts EXCEPT ![i] = @ + 1]
        /\ stops' = [stops EXCEPT ![i] = @ + 1]
        /\ stack' = <<>>
    BY <1>1, NextRequest DEF NothingToCopy, TellStopped, OneSourceScripts
  <1>3. /\ starts \in [Id -> Nat] /\ stops \in [Id -> Nat]
        /\ m_copyRequests \subseteq Id
    BY QueueFinite DEF SafeInv, TypeOK
  <1>4. /\ \A k : Dst(k)' = Dst(k) /\ (Processed(k)' <=> Processed(k))
        /\ \A k \in m_copyRequests : starts'[k] = starts[k]
        /\ \A k : InFlight(k)' <=> InFlight(k)
    <2>1. \A k : Dst(k)' = Dst(k) /\ (Processed(k)' <=> Processed(k))
      BY <1>2 DEF Dst, Processed, Sources, AllSourcesDone
    <2>2. \A k \in m_copyRequests : starts'[k] = starts[k]
      BY <1>2, <1>3
    <2> QED
      BY <1>2, <2>1, <2>2 DEF InFlight
  <1>5. Unissued'
    <2>1. \A k \in Id : k > i => k # i /\ k > issued
      BY <1>1, <1>2 DEF Id
    <2> QED
      BY <1>2, <1>3, <2>1 DEF SafeInv, Unissued
  <1>6. StopsOnce'
    <2>1. \A k \in Id : k # i => (k <= i <=> k <= issued)
      BY <1>1, <1>2 DEF Id
    <2> QED
      BY <1>1, <1>2, <1>3, <2>1 DEF SafeInv, StopsOnce
  <1>7. StartedIsProcessed' /\ FirstInFlight'
    BY <1>2, <1>4 DEF SafeInv, StartedIsProcessed, FirstInFlight
  <1>8. Unserved' = Unserved
    BY <1>2, <1>4 DEF Unserved, Served
  <1>9. \A kind : ~Running(kind)
    BY <1>2 DEF Running
  <1>10. ~Running("CopyMessages")' /\ ~Running("CopyFileMessage")' /\ ~Running("NotifyCompletion")'
    BY <1>2 DEF Running
  <1>11. OwnerInFlight'
    BY <1>2, <1>4, <1>9 DEF SafeInv, OwnerInFlight, Busy
  <1>12. Attended'
    BY <1>2, <1>4, <1>9 DEF SafeInv, Attended, AttendsTo, Busy
  <1>13. RunningCopy' /\ NoNesting' /\ WhoIsServed'
    BY <1>2, <1>8, <1>9, <1>10 DEF SafeInv, RunningCopy, NoNesting, WhoIsServed
  <1>14. UnreportedStarted' /\ Hung'
    <2>1. \A k \in unreported : InFlight(k) /\ ~Busy(Dst(k))
      BY <1>9 DEF SafeInv, Hung, Handled
    <2>2. Hung'
      BY <1>2, <1>4, <1>10, <2>1 DEF Hung, Handled, Busy
    <2>3. \A k \in unreported : k \in m_copyRequests /\ starts'[k] > 0
      BY <1>4, <2>1 DEF InFlight
    <2> QED
      BY <1>2, <2>2, <2>3 DEF UnreportedStarted
  <1> QED
    BY <1>5, <1>6, <1>7, <1>11, <1>12, <1>13, <1>14 DEF SafeInv

LEMMA DoCopySafe ==
  ASSUME SafeInv, OneSourceScripts, TypeOK', UserCall, DoCopy(issued + 1, <<>>),
         ~NothingSelected(call[issued + 1])
  PROVE  SafeInv'
  <1>1. PICK i \in Id : i = issued + 1
    BY NextRequest
  <1>2. /\ i \notin m_copyRequests
        /\ starts[i] = 0 /\ stops[i] = 0 /\ i \notin m_processed
        /\ \A k \in m_copyRequests : k < i /\ k # i
        /\ issued \in Nat /\ issued' = i
        /\ UNCHANGED <<call, mCopyState, unreported>>
        /\ stack = <<>>
    BY <1>1, NextRequest
  <1>3. /\ m_copyRequests' = m_copyRequests \cup {i}
        /\ sourceDone' = [sourceDone EXCEPT ![i] = AddNewCopySource(i)]
        /\ stack' = IF QueueRequest(i) THEN Push(DoNextCopyFrame, <<>>) ELSE <<>>
        /\ UNCHANGED <<m_processed, starts, stops>>
    BY <1>1 DEF DoCopy, listenerVars
  <1>4. /\ DOMAIN sourceDone = Id
        /\ m_copyRequests \subseteq Id
    BY QueueFinite DEF SafeInv, TypeOK
  <1>5. \A k : /\ Dst(k)' = Dst(k)
               /\ InFlight(k)' <=> InFlight(k)
    BY <1>2, <1>3 DEF Dst, InFlight
  <1>6. Unissued'
    <2>1. \A k \in Id : k > i => k # i /\ k > issued
      BY <1>1, <1>2 DEF Id
    <2> QED
      BY <1>2, <1>3, <1>4, <2>1 DEF SafeInv, Unissued
  <1>7. StopsOnce'
    <2>1. \A k \in Id : k # i => (k <= i <=> k <= issued)
      BY <1>1, <1>2 DEF Id
    <2> QED
      BY <1>1, <1>2, <1>3, <2>1 DEF SafeInv, StopsOnce
  <1>8. StartedIsProcessed'
    <2>1. ASSUME NEW k \in m_copyRequests PROVE Processed(k)' <=> Processed(k)
      <3>1. k # i /\ k \in Id
        BY <1>2, <1>4, <2>1
      <3>2. sourceDone'[k] = sourceDone[k]
        BY <1>3, <1>4, <3>1
      <3> QED
        BY <1>2, <1>3, <3>2 DEF Processed, Sources, AllSourcesDone
    <2>2. ~Processed(i)'
      <3>1. /\ call \in Scripts
            /\ TypeOK
        BY DEF SafeInv, TypeOK
      <3>2. ~NothingSelected(call[i])
        BY <1>1
      <3>3. Sources(i) = {} \/ (\E k \in Sources(i) : k \notin AddNewCopySource(i))
        <4>1. CASE call[i].method = "files"
          BY <3>1, <3>2, <4>1, OneSourceRequest
        <4>2. CASE call[i].method = "messages"
          <5>1. PICK k \in Nat : Sources(i) = {k} /\ call[i].from[k] = call[i].src
            BY <3>1, <3>2, <4>2, OneSourceRequest
          <5>2. call[i].src # call[i].dst
            BY <3>1, <4>2, WellFormedCalls
          <5> QED
            BY <5>1, <5>2 DEF AddNewCopySource
        <4> QED
          BY <3>1, <3>2, <4>1, <4>2, OneSourceRequest
      <3>4. sourceDone'[i] = AddNewCopySource(i)
        BY <1>3, <1>4
      <3>5. Sources(i)' = Sources(i)
        BY <1>2, SourcesUnchanged
      <3> QED
        BY <1>2, <1>3, <3>3, <3>4, <3>5 DEF Processed, AllSourcesDone
    <2> QED
      BY <1>1, <1>2, <1>3, <2>1, <2>2 DEF SafeInv, StartedIsProcessed, NothingSelected
  <1>9. FirstInFlight'
    <2> SUFFICES ASSUME NEW j \in m_copyRequests', NEW k \in m_copyRequests',
                        k < j, Dst(k) = Dst(j)
                 PROVE  starts[j] = 0
      BY <1>3, <1>5 DEF FirstInFlight
    <2>1. i \in Nat /\ m_copyRequests \subseteq Nat
      BY <1>4 DEF Id
    <2>2. CASE j = i
      BY <1>2, <2>2
    <2>3. CASE j # i
      <3>1. k # i
        BY <1>2, <1>3, <2>1, <2>3
      <3> QED
        BY <1>3, <2>3, <3>1 DEF SafeInv, FirstInFlight
    <2> QED
      BY <2>2, <2>3
  <1>10. \A kind : ~Running(kind)
    BY <1>2 DEF Running
  <1>11. /\ NoNesting'
         /\ ~Running("CopyMessages")' /\ ~Running("CopyFileMessage")'
         /\ ~Running("NotifyCompletion")'
         /\ QueueRequest(i) => Running("DoNextCopy")'
    <2>1. CASE QueueRequest(i)
      BY <1>3, <2>1, NowRunning, FramesOf DEF NoNesting, Plain
    <2>2. CASE ~QueueRequest(i)
      BY <1>3, <2>2 DEF NoNesting, Running
    <2> QED
      BY <2>1, <2>2
  <1>12. OwnerInFlight'
    BY <1>2, <1>5, <1>10 DEF SafeInv, OwnerInFlight, Busy
  <1>13. Attended'
    <2> SUFFICES ASSUME NEW k \in m_copyRequests' \ unreported', starts'[k] > 0
                 PROVE  Busy(Dst(k))'
      BY DEF Attended
    <2>1. k \in m_copyRequests \ unreported /\ starts[k] > 0
      BY <1>2, <1>3
    <2> QED
      BY <1>2, <1>5, <1>10, <2>1 DEF SafeInv, Attended, AttendsTo, Busy
  <1>14. WhoIsServed'
    <2>1. \A k \in m_copyRequests : Served(k)
      BY <1>10 DEF SafeInv, WhoIsServed, Unserved
    <2>2. \A k \in m_copyRequests : Served(k)'
      BY <1>3, <1>5, <2>1 DEF Served
    <2>3. Unserved' \subseteq {i}
      BY <1>3, <2>2 DEF Unserved
    <2>4. ASSUME ~QueueRequest(i) PROVE Served(i)'
      <3>1. call[i].method # "folders"
        BY <1>1, OneSourceRequest DEF SafeInv
      <3>2. PICK k \in m_copyRequests : Dst(k) = Dst(i)
        BY <2>4, <3>1 DEF QueueRequest
      <3>3. PICK j \in m_copyRequests : j <= k /\ InFlight(j) /\ Dst(j) = Dst(k)
        BY <2>1 DEF Served
      <3>4. j <= i
        BY <1>2, <1>4, <3>3 DEF Id
      <3> QED
        BY <1>3, <1>5, <3>2, <3>3, <3>4 DEF Served
    <2>5. CASE QueueRequest(i)
      BY <1>11, <2>3, <2>5 DEF WhoIsServed
    <2>6. CASE ~QueueRequest(i)
      BY <2>3, <2>4, <2>6 DEF WhoIsServed, Unserved
    <2> QED
      BY <2>5, <2>6
  <1>15. UnreportedStarted'
    BY <1>2, <1>3 DEF SafeInv, UnreportedStarted
  <1>16. Hung'
    <2>1. \A k \in unreported : InFlight(k) /\ ~Busy(Dst(k))
      BY <1>10 DEF SafeInv, Hung, Handled
    <2> QED
      BY <1>2, <1>5, <1>11, <2>1 DEF Hung, Handled, Busy
  <1> QED
    BY <1>6, <1>7, <1>8, <1>9, <1>11, <1>12, <1>13, <1>14, <1>15, <1>16 DEF SafeInv, RunningCopy

(***************************************************************************)
(* DoNextCopy starts the first request of a free destination: it is the    *)
(* only destination with requests that are not served.                     *)
(***************************************************************************)
LEMMA StartSafe ==
  ASSUME SafeInv, OneSourceScripts, TypeOK', DoNextCopyStarts
  PROVE  SafeInv'
  <1>1. PICK i \in m_copyRequests :
          /\ NextToStart(i)
          /\ starts' = [starts EXCEPT ![i] = @ + 1]
          /\ m_processed' = MarkStarted(i)
          /\ StartSource(i) \/ StartPlainFile(i)
    BY DEF DoNextCopyStarts
  <1>2. /\ Running("DoNextCopy")
        /\ Below = <<>>
        /\ ~Running("destructor") /\ ~Running("NotifyCompletion")
        /\ ~Running("CopyMessages") /\ ~Running("CopyFileMessage")
    BY NotNested DEF DoNextCopyStarts
  <1>3. UNCHANGED <<call, issued, m_copyRequests, mCopyState, stops, unreported>>
    BY DEF DoNextCopyStarts
  <1>4. /\ i \in Id /\ i \in Nat
        /\ i <= issued
        /\ m_copyRequests \subseteq Id
        /\ m_copyRequests \subseteq Nat
        /\ starts \in [Id -> Nat]
        /\ DOMAIN sourceDone = Id
        /\ ~NothingSelected(call[i])
        /\ TypeOK
    <2>1. m_copyRequests \subseteq 1..issued /\ starts \in [Id -> Nat] /\ DOMAIN sourceDone = Id
      BY DEF SafeInv, TypeOK
    <2> QED
      BY <2>1, QueueFinite DEF SafeInv, StartedIsProcessed, Id
  <1>5. starts[i] = 0
    <2>1. ~(starts[i] > 0)
      BY <1>1 DEF NextToStart, Startable, SafeInv, StartedIsProcessed
    <2> QED
      BY <1>4, <2>1
  <1>6. \A k \in m_copyRequests : k < i => Dst(k) # Dst(i)
    BY <1>1, <1>4, FirstOfTarget
  <1>7. \A k \in m_copyRequests : starts[k] > 0 => Dst(k) # Dst(i)
    <2> SUFFICES ASSUME NEW k \in m_copyRequests, starts[k] > 0, Dst(k) = Dst(i) PROVE FALSE
      OBVIOUS
    <2>1. k > i
      BY <1>4, <1>5, <1>6
    <2> QED
      BY <2>1 DEF SafeInv, FirstInFlight
  <1>8. PICK dst \in Folder : dst = Dst(i)
    BY <1>4, CallFields DEF TypeOK, Dst
  <1>9. ~Busy(dst)
    <2> SUFFICES ASSUME Busy(dst) PROVE FALSE
      OBVIOUS
    <2>1. PICK k \in Id \cup {0} : mCopyState[dst].owner = k
      BY <1>4 DEF TypeOK
    <2>2. InFlight(k) /\ Dst(k) = dst
      BY <1>2, <2>1 DEF SafeInv, OwnerInFlight
    <2> QED
      BY <1>7, <1>8, <2>2 DEF InFlight
  <1>10. /\ \A k : Dst(k)' = Dst(k)
         /\ \A k \in m_copyRequests : k # i => starts'[k] = starts[k]
         /\ starts'[i] > 0
         /\ \A k : InFlight(k)' <=> (InFlight(k) \/ k = i)
    <2>1. \A k \in m_copyRequests : k # i => starts'[k] = starts[k]
      BY <1>1, <1>4
    <2>2. starts'[i] > 0
      BY <1>1, <1>4
    <2> QED
      BY <1>3, <2>1, <2>2 DEF Dst, InFlight
  <1>11. /\ Processed(i)'
         /\ \A k \in m_copyRequests : k # i => (Processed(k)' <=> Processed(k))
         /\ \A k \in Id : k # i => sourceDone'[k] = sourceDone[k] /\ (k \in m_processed' <=> k \in m_processed)
    <2>1. \A k \in Id : k # i => sourceDone'[k] = sourceDone[k] /\ (k \in m_processed' <=> k \in m_processed)
      BY <1>1, <1>4 DEF MarkStarted, StartSource, StartPlainFile
    <2>2. \A k : Sources(k)' = Sources(k)
      BY <1>3 DEF Sources
    <2>3. ASSUME NEW k \in m_copyRequests, k # i PROVE Processed(k)' <=> Processed(k)
      <3>0. k \in Id
        BY <1>4, <2>3
      <3>1. /\ sourceDone'[k] = sourceDone[k]
            /\ k \in m_processed' <=> k \in m_processed
            /\ Sources(k)' = Sources(k)
        BY <2>1, <2>2, <2>3, <3>0
      <3> QED
        BY <3>1 DEF Processed, AllSourcesDone
    <2>4. Processed(i)'
      <3>1. CASE call[i].method = "files"
        BY <1>1, <3>1 DEF MarkStarted, Processed
      <3>2. CASE call[i].method = "messages" /\ \E k \in Nat : Sources(i) = {k}
        <4>1. PICK k \in Nat : Sources(i) = {k}
          BY <3>2
        <4>2. sourceDone' = [sourceDone EXCEPT ![i] = @ \cup {k}]
          BY <1>1, <4>1 DEF StartSource, StartPlainFile
        <4>3. k \in sourceDone'[i]
          BY <1>4, <4>2
        <4> QED
          BY <2>2, <4>1, <4>3 DEF Processed, AllSourcesDone
      <3> QED
        BY <1>4, <3>1, <3>2, OneSourceRequest
    <2> QED
      BY <2>1, <2>3, <2>4
  <1>12. \/ /\ call[i].method = "messages"
            /\ \E k \in Nat : stack' = Push(CopyMessagesFrame(i, k, call[i].src, dst), <<>>)
         \/ /\ call[i].method = "files"
            /\ Sources(i) = {}
            /\ stack' = Push(CopyFileMessageFrame(i), <<>>)
    <2>1. CASE call[i].method = "files" /\ Sources(i) = {}
      BY <1>1, <1>2, <2>1 DEF StartSource, StartPlainFile
    <2>2. CASE /\ call[i].method = "messages"
               /\ \E k \in Nat : Sources(i) = {k} /\ call[i].from[k] = call[i].src
      <3>1. PICK k \in Nat : Sources(i) = {k} /\ call[i].from[k] = call[i].src
        BY <2>2
      <3>2. stack' = Push(CopyMessagesFrame(i, k, call[i].from[k], Dst(i)), Below)
        BY <1>1, <2>2, <3>1 DEF StartSource, StartPlainFile
      <3> QED
        BY <1>2, <1>8, <2>2, <3>1, <3>2
    <2> QED
      BY <1>4, <2>1, <2>2, OneSourceRequest
  <1>13. /\ NoNesting'
         /\ ~Running("NotifyCompletion")'
         /\ Top'.owner = i
         /\ \/ /\ Running("CopyMessages")' /\ ~Running("CopyFileMessage")'
               /\ Top'.sup = call[i].src /\ Top'.dst = dst
            \/ /\ Running("CopyFileMessage")' /\ ~Running("CopyMessages")'
               /\ Sources(i) = {}
    <2>1. ASSUME NEW k \in Nat, stack' = Push(CopyMessagesFrame(i, k, call[i].src, dst), <<>>)
          PROVE  <1>13!:
      BY <2>1, NowRunning, FramesOf DEF NoNesting, Plain
    <2>2. ASSUME stack' = Push(CopyFileMessageFrame(i), <<>>), Sources(i) = {}
          PROVE  <1>13!:
      BY <2>2, NowRunning, FramesOf DEF NoNesting, Plain
    <2> QED
      BY <1>12, <2>1, <2>2
  <1>14. RunningCopy'
    <2>1. Sources(i)' = Sources(i)
      BY <1>3, <1>4, SourcesUnchanged
    <2> QED
      BY <1>3, <1>8, <1>9, <1>10, <1>13, <2>1 DEF RunningCopy, Busy
  <1>15. Attended'
    <2> SUFFICES ASSUME NEW k \in m_copyRequests' \ unreported', starts'[k] > 0
                 PROVE  Busy(Dst(k))' \/ AttendsTo(k)'
      BY DEF Attended
    <2>1. CASE k = i
      BY <1>13, <2>1 DEF AttendsTo
    <2>2. CASE k # i
      <3>1. Busy(Dst(k))
        BY <1>2, <1>3, <1>10, <2>2 DEF SafeInv, Attended, AttendsTo
      <3> QED
        BY <1>3, <1>10, <3>1 DEF Busy
    <2> QED
      BY <2>1, <2>2
  <1>16. OwnerInFlight'
    BY <1>2, <1>3, <1>10 DEF SafeInv, OwnerInFlight, Busy
  <1>17. FirstInFlight'
    BY <1>3, <1>5, <1>6, <1>10 DEF SafeInv, FirstInFlight
  <1>18. StartedIsProcessed'
    BY <1>3, <1>10, <1>11 DEF SafeInv, StartedIsProcessed, NothingSelected
  <1>19. Unissued'
    <2>1. \A k \in Id : k > issued => k # i
      BY <1>4 DEF Id, SafeInv, TypeOK
    <2> SUFFICES ASSUME NEW k \in Id, k > issued
                 PROVE  starts'[k] = 0 /\ sourceDone'[k] = {} /\ k \notin m_processed'
      BY <1>3 DEF Unissued
    <2>2. starts[k] = 0 /\ sourceDone[k] = {} /\ k \notin m_processed /\ k # i
      BY <2>1 DEF SafeInv, Unissued
    <2>3. sourceDone'[k] = sourceDone[k] /\ (k \in m_processed' <=> k \in m_processed)
      BY <1>11, <2>2
    <2>4. starts'[k] = starts[k]
      BY <1>1, <1>4, <2>2
    <2> QED
      BY <2>2, <2>3, <2>4
  <1>20. StopsOnce'
    BY <1>3 DEF SafeInv, StopsOnce
  <1>21. WhoIsServed'
    <2> SUFFICES ASSUME NEW k \in m_copyRequests PROVE Served(k)'
      BY <1>3 DEF WhoIsServed, Unserved
    <2>1. CASE Served(k)
      BY <1>3, <1>10, <2>1 DEF Served
    <2>2. CASE ~Served(k)
      <3>1. ~Served(i)
        BY <1>7 DEF Served, InFlight
      <3>2. Dst(k) = Dst(i)
        BY <1>2, <2>2, <3>1 DEF SafeInv, WhoIsServed, Unserved
      <3>3. i <= k
        BY <1>4, <1>6, <3>2
      <3> QED
        BY <1>3, <1>10, <3>2, <3>3 DEF Served
    <2> QED
      BY <2>1, <2>2
  <1>22. UnreportedStarted' /\ Hung'
    <2>1. \A k \in unreported : InFlight(k) /\ ~Busy(Dst(k)) /\ Dst(k) # dst
      BY <1>2, <1>7, <1>8 DEF SafeInv, Hung, Handled, InFlight
    <2>2. ASSUME NEW k \in unreported PROVE starts'[k] > 0 /\ InFlight(k)' /\ ~Handled(Dst(k))'
      <3>1. InFlight(k)' /\ Dst(k)' = Dst(k) /\ ~Busy(Dst(k))'
        BY <1>3, <1>10, <2>1 DEF Busy
      <3>2. starts'[k] > 0
        BY <3>1 DEF InFlight
      <3>3. Running("CopyMessages")' => Top'.dst # Dst(k)
        BY <1>13, <2>1
      <3>4. Running("CopyFileMessage")' => Dst(Top.owner)' # Dst(k)
        BY <1>3, <1>8, <1>13, <2>1 DEF Dst
      <3> QED
        BY <1>13, <3>1, <3>2, <3>3, <3>4 DEF Handled
    <2> QED
      BY <1>3, <2>2 DEF UnreportedStarted, Hung
  <1> QED
    BY <1>13, <1>14, <1>15, <1>16, <1>17, <1>18, <1>19, <1>20, <1>21, <1>22 DEF SafeInv

LEMMA SafeStep ==
  ASSUME OneSourceScripts, SafeInv, [Next]_vars
  PROVE  SafeInv'
  <1>1. TypeOK'
    BY NextTypeOK DEF SafeInv
  <1>2. CASE UserCall
    BY <1>1, <1>2, NothingToCopySafe, DoCopySafe DEF UserCall, MakeCall
  <1>3. CASE Destroy
    BY <1>1, <1>3, DestroySafe
  <1>4. CASE DoNextCopyFindsNone
    BY <1>1, <1>4, FindsNoneSafe
  <1>5. CASE DoNextCopyStarts
    BY <1>1, <1>5, StartSafe
  <1>6. CASE NotifyCompletionClears
    BY <1>1, <1>6, NotifyClearsSafe
  <1>7. CASE NotifyCompletionEnds
    BY <1>1, <1>7, NotifyEndsSafe
  <1>8. CASE DestructorClears
    BY <1>1, <1>8, DestructorSafe
  <1>9. CASE CopyMessagesFails \/ CopyFileFails \/ CopyFileCopies
    BY <1>1, <1>9, CopiesComplete
  <1>10. CASE InitCopyState
    BY <1>1, <1>10, InitCopyStateSafe
  <1>15. CASE CopyMessagesErrs
    BY <1>1, <1>15, ErrsSafe
  <1>11. CASE MaildirCopies
    BY <1>11 DEF MaildirCopies, OneSourceScripts
  <1>12. CASE \/ ListenerCalls \/ ListenerReturns \/ MaildirStops \/ CopyFileReturns
              \/ CopyFolderRefuses \/ CopyFolderAcrossServer \/ CopyFolderLocal
              \/ CopyFolderReturns \/ ResultReturns
    <2>1. \E kind \in {"OnStopCopy", "store CopyMessages returns", "CopyFileMessage returns",
                       "CopyFolder", "CopyFolder returns", "result"} : Running(kind)
      BY <1>12 DEF ListenerCalls, ListenerReturns, MaildirStops, CopyFileReturns, ResultReturns,
                   CopyFolderRefuses, CopyFolderAcrossServer, CopyFolderLocal, CopyFolderReturns
    <2> QED
      BY <2>1, NotNested DEF Plain
  <1>13. CASE \E f \in Folder : CopyEnds(f)
    BY <1>1, <1>13, StreamsComplete
  <1>14. CASE UNCHANGED vars
    <2>1. /\ UNCHANGED <<call, queueVars, starts, stops, mCopyState, stack, unreported>>
          /\ m_copyRequests' = m_copyRequests /\ starts' = starts
      BY <1>14 DEF vars, listenerVars, queueVars
    <2>2. /\ Top' = Top /\ Below' = Below
          /\ \A kind : Running(kind)' <=> Running(kind)
          /\ \A f : Busy(f)' <=> Busy(f)
      BY <2>1 DEF Top, Below, Running, Busy
    <2>3. \A f : Busy(Dst(f))' <=> Busy(Dst(f))
      BY <2>1, SameQueue DEF Busy
    <2>4. NoNesting'
      BY <2>1, <2>2 DEF SafeInv, NoNesting
    <2>5. ASSUME ~Running("destructor")' 
          PROVE  OwnerInFlight' /\ Attended' /\ RunningCopy' /\ WhoIsServed' /\ Hung'
      <3>1. ~Running("destructor")
        BY <2>1, <2>5 DEF Running
      <3>2. OwnerInFlight'
        BY <2>1, <3>1, SameCopies
      <3>3. Attended'
        BY <2>1, <2>3, <3>1, SameQueue DEF SafeInv, Attended, AttendsTo, Running, Top
      <3>4. RunningCopy'
        BY <2>1, <3>1 DEF SafeInv, RunningCopy, Running, Top, Busy, Sources, InFlight, Dst
      <3>5. WhoIsServed'
        BY <2>1, <3>1, SameQueue DEF SafeInv, WhoIsServed, Running, Top
      <3>6. Hung'
        <4>1. \A k : Handled(Dst(k))' => Handled(Dst(k))
          BY <2>1, <2>2, <2>3, SameQueue DEF Handled, Dst
        <4> QED
          BY <2>1, <3>1, <4>1, SameHung
      <3> QED
        BY <3>2, <3>3, <3>4, <3>5, <3>6
    <2>6. UnreportedStarted'
      BY <2>1 DEF SafeInv, UnreportedStarted
    <2> QED
      BY <1>1, <2>1, <2>4, <2>5, <2>6, SameQueue DEF SafeInv
  <1> QED
    BY <1>2, <1>3, <1>4, <1>5, <1>6, <1>7, <1>8, <1>9, <1>10, <1>11, <1>12, <1>13,
       <1>14, <1>15
       DEF Next, Service, LocalFolder

LEMMA SafeImplies ==
  ASSUME SafeInv
  PROVE  OneCopyPerFolder /\ NoCompletionLost /\ NoLostWakeup /\ NoOrphanCopy /\ StopsOnce
  <1>1. OneCopyPerFolder
    BY NotNested DEF SafeInv, RunningCopy, OneCopyPerFolder
  <1>2. NoOrphanCopy
    <2> SUFFICES ASSUME NEW f \in Folder, Busy(f), ~Running("destructor")
                 PROVE  mCopyState[f].owner \in m_copyRequests
      BY DEF NoOrphanCopy
    <2>1. mCopyState[f].owner \in Id \cup {0}
      BY DEF SafeInv, TypeOK
    <2> QED
      BY <2>1 DEF SafeInv, OwnerInFlight, InFlight
  <1>3. NoCompletionLost
    <2> SUFFICES ASSUME stack = <<>>, NEW i \in m_copyRequests \ unreported, InFlight(i)
                 PROVE  \E f \in Folder : Busy(f) /\ mCopyState[f].owner = i
      BY DEF NoCompletionLost
    <2>1. Busy(Dst(i)) /\ Dst(i) \in Folder
      <3>1. i \in Id
        BY QueueFinite DEF SafeInv
      <3> QED
        BY <3>1, CallFields DEF SafeInv, Attended, AttendsTo, Running, InFlight, TypeOK, Dst
    <2>2. PICK k \in Id \cup {0} : mCopyState[Dst(i)].owner = k
      BY <2>1 DEF SafeInv, TypeOK
    <2>3. InFlight(k) /\ Dst(k) = Dst(i)
      BY <2>1, <2>2 DEF SafeInv, OwnerInFlight, Running
    <2>4. k = i
      BY <2>3, OneInFlight DEF SafeInv, InFlight
    <2> QED
      BY <2>1, <2>2, <2>4
  <1>4. NoLostWakeup
    BY DEF SafeInv, WhoIsServed, Running, Unserved, Served, NoLostWakeup
  <1> QED
    BY <1>1, <1>2, <1>3, <1>4 DEF SafeInv

(***************************************************************************)
(* For any folders, files and number of calls, when every call has one     *)
(* source: a folder is never asked for a second copy while it has one in   *)
(* progress; every copy that was started is still in progress and will be  *)
(* reported to its request, unless CopyMessages returned an error for it   *)
(* that it reported to nobody; a request that waits does so behind one to  *)
(* its destination that was started, no copy goes on after its listener    *)
(* was told that it stopped, and each listener is told so once.            *)
(***************************************************************************)
THEOREM OneSourceSafe ==
  ASSUME OneSourceScripts
  PROVE  Spec => [](OneCopyPerFolder /\ NoCompletionLost /\ NoLostWakeup /\ NoOrphanCopy /\ StopsOnce)
  <1>1. Init => SafeInv
    BY SafeInit
  <1>2. SafeInv /\ [Next]_vars => SafeInv'
    BY SafeStep
  <1>3. SafeInv => OneCopyPerFolder /\ NoCompletionLost /\ NoLostWakeup /\ NoOrphanCopy /\ StopsOnce
    BY SafeImplies
  <1> QED
    BY <1>1, <1>2, <1>3, PTL DEF Spec
=============================================================================
