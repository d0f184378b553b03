------------------------- MODULE MsgCopyServiceProofs -------------------------
(***************************************************************************)
(* Proofs about MsgCopyService for every set of folders, every sequence of *)
(* calls and any number of them.                                           *)
(***************************************************************************)
EXTENDS MsgCopyService, FiniteSetTheorems, TLAPS

(***************************************************************************)
(* The calls in progress: what the frames hold and how the stack grows.    *)
(***************************************************************************)
OwnerKinds ==
  {"CopyFolder", "CopyFolder returns", "CopyFileMessage",
   "CopyFileMessage returns", "store CopyMessages returns"}

LEMMA FrameFields ==
  ASSUME NEW fr \in Frame
  PROVE  /\ fr.kind = "CopyMessages" =>
              /\ fr.owner \in Id /\ fr.entry \in Nat
              /\ fr.sup \in Support /\ fr.dst \in Folder
         /\ fr.kind \in OwnerKinds => fr.owner \in Id
         /\ fr.kind = "NotifyCompletion" =>
              /\ fr.sup \in Support /\ fr.dst \in Folder
              /\ fr.ok \in BOOLEAN /\ fr.orig \in Nat
         /\ fr.kind = "result" => fr.ok \in BOOLEAN
  <1>1. CASE fr \in {DoNextCopyFrame, ListenerFrame, DestroyFrame}
    <2>1. fr.kind \in {"DoNextCopy", "OnStopCopy", "destructor"}
      BY <1>1 DEF DoNextCopyFrame, ListenerFrame, DestroyFrame
    <2> QED
      BY <2>1 DEF OwnerKinds
  <1>2. CASE fr \in [kind : {"CopyMessages"}, owner : Id, entry : Nat,
                     sup : Support, dst : Folder]
    BY <1>2 DEF OwnerKinds
  <1>3. CASE fr \in [kind : OwnerKinds, owner : Id]
    BY <1>3 DEF OwnerKinds
  <1>4. CASE fr \in [kind : {"NotifyCompletion"}, sup : Support,
                     dst : Folder, ok : BOOLEAN, orig : Nat]
    BY <1>4 DEF OwnerKinds
  <1>5. CASE fr \in [kind : {"result"}, ok : BOOLEAN]
    BY <1>5 DEF OwnerKinds
  <1> QED
    BY <1>1, <1>2, <1>3, <1>4, <1>5 DEF Frame, OwnerKinds

LEMMA FrameTypes ==
  /\ DoNextCopyFrame \in Frame
  /\ ListenerFrame \in Frame
  /\ DestroyFrame \in Frame
  /\ \A i \in Id, k \in Nat, sup \in Support, dst \in Folder :
       CopyMessagesFrame(i, k, sup, dst) \in Frame
  /\ \A i \in Id : /\ CopyFolderFrame(i) \in Frame
                   /\ CopyFolderReturn(i) \in Frame
                   /\ CopyFileMessageFrame(i) \in Frame
                   /\ CopyFileReturn(i) \in Frame
                   /\ MaildirReturn(i) \in Frame
  /\ \A sup \in Support, dst \in Folder, ok \in BOOLEAN, orig \in Nat :
       NotifyFrame(sup, dst, ok, orig) \in Frame
  /\ \A ok \in BOOLEAN : ResultFrame(ok) \in Frame
  BY DEF Frame, DoNextCopyFrame, ListenerFrame, DestroyFrame, CopyMessagesFrame,
         CopyFolderFrame, CopyFolderReturn, CopyFileMessageFrame, CopyFileReturn,
         MaildirReturn, NotifyFrame, ResultFrame

LEMMA PushType ==
  ASSUME NEW s \in Seq(Frame), NEW fr \in Frame
  PROVE  Push(fr, s) \in Seq(Frame)
  BY DEF Push

LEMMA YieldingType ==
  ASSUME NEW s \in Seq(Frame), NEW ok \in BOOLEAN
  PROVE  Yielding(ok, s) \in Seq(Frame)
  BY PushType, FrameTypes DEF Yielding

LEMMA RunningType ==
  ASSUME stack \in Seq(Frame), NEW kind, Running(kind)
  PROVE  Top \in Frame /\ Top.kind = kind /\ Below \in Seq(Frame)
  BY DEF Running, Top, Below

(***************************************************************************)
(* The calls of a script and their sources.                                *)
(***************************************************************************)
LEMMA CallFields ==
  ASSUME call \in Scripts, NEW i \in Id
  PROVE  /\ call[i].dst \in Folder
         /\ call[i].src \in Support
         /\ call[i].method \in {"messages", "files", "folders"}
         /\ call[i].from \in Seq(Folder \cup {NoFolder})
         /\ call[i].move \in BOOLEAN
         /\ call[i].method = "folders" => call[i].src \in Folder /\ call[i].from = <<call[i].src>>
  BY ScriptsAssumption, WellFormedCalls DEF CallRecord, Support

LEMMA SourcesType ==
  ASSUME call \in Scripts, NEW i \in Id
  PROVE  /\ Sources(i) \subseteq Nat
         /\ Pieces(i) \subseteq Nat
         /\ \A k \in Sources(i) : call[i].from[k] \in Support
  <1>1. call[i].from \in Seq(Folder \cup {NoFolder})
    BY CallFields
  <1>2. Sources(i) \subseteq 1..Len(call[i].from)
    BY <1>1 DEF Sources
  <1>3. \A k \in Sources(i) : call[i].from[k] \in Support
    BY <1>1, <1>2 DEF Support
  <1> QED
    BY <1>2, <1>3 DEF Pieces

LEMMA SourcesUnchanged ==
  ASSUME call' = call
  PROVE  \A i \in Id : Sources(i)' = Sources(i)
  BY DEF Sources

LEMMA QueueFinite ==
  ASSUME TypeOK
  PROVE  /\ IsFiniteSet(m_copyRequests)
         /\ Cardinality(m_copyRequests) \in Nat
         /\ m_copyRequests \subseteq Id
         /\ \A i \in Id : IndexOf(i) \in Nat
  <1>1. IsFiniteSet(1..issued)
    BY FS_Interval, MaxRequestsAssumption DEF TypeOK
  <1>2. IsFiniteSet(m_copyRequests)
    BY <1>1, FS_Subset DEF TypeOK
  <1>3. m_copyRequests \subseteq Id
    BY MaxRequestsAssumption DEF TypeOK, Id
  <1>4. ASSUME NEW i \in Id PROVE IndexOf(i) \in Nat
    <2>1. IsFiniteSet({k \in m_copyRequests : k < i})
      BY <1>2, FS_Subset
    <2> QED
      BY <2>1, FS_CardinalityType DEF IndexOf
  <1> QED
    BY <1>2, <1>3, <1>4, FS_CardinalityType

(***************************************************************************)
(* Type correctness, one lemma for each group of actions.                  *)
(***************************************************************************)
LEMMA InitTypeOK == Init => TypeOK
  <1> SUFFICES ASSUME Init PROVE TypeOK
    OBVIOUS
  <1>1. NoCopyState \in [owner : Id \cup {0}, entry : Nat, srcSupport : Support]
    BY DEF NoCopyState, Support
  <1> QED
    BY <1>1, FolderAssumption, MaxRequestsAssumption DEF Init, TypeOK, Id

LEMMA ClearRequestType ==
  ASSUME TypeOK, NEW i \in Id, NEW ok \in BOOLEAN, NEW s \in Seq(Frame),
         ClearRequest(i, ok, s),
         UNCHANGED <<call, mCopyState, folders, rv, copied, unreported>>
  PROVE  TypeOK'
  <1>1. stack' \in Seq(Frame)
    BY PushType, FrameTypes DEF ClearRequest, TellStopped
  <1>2. /\ stops' \in [Id -> Nat]
        /\ result' \in [Id -> {"none", "ok", "failed"}]
    BY DEF ClearRequest, TellStopped, TypeOK
  <1>3. /\ m_copyRequests' \subseteq 1..issued'
        /\ UNCHANGED <<issued, m_processed, sourceDone, starts>>
    BY DEF ClearRequest, TypeOK
  <1> QED
    BY SourcesUnchanged, <1>1, <1>2, <1>3 DEF TypeOK

LEMMA OnCopyCompletedType ==
  ASSUME TypeOK, NEW sup \in Support, NEW dst \in Folder,
         NEW ok \in BOOLEAN, NEW s \in Seq(Frame),
         OnCopyCompleted(sup, dst, ok, s)
  PROVE  /\ stack' \in Seq(Frame)
         /\ mCopyState' \in [Folder -> [owner : Id \cup {0}, entry : Nat,
                                       srcSupport : Support]]
  <1>1. NotifyFrame(sup, dst, ok, Cardinality(m_copyRequests)) \in Frame
    BY QueueFinite, FrameTypes
  <1>2. stack' \in Seq(Frame)
    BY <1>1, PushType DEF OnCopyCompleted
  <1>3. NoCopyState \in [owner : Id \cup {0}, entry : Nat, srcSupport : Support]
    BY DEF NoCopyState, Support
  <1> QED
    BY <1>2, <1>3 DEF OnCopyCompleted, TypeOK

LEMMA TopType ==
  ASSUME TypeOK, NEW kind, Running(kind)
  PROVE  /\ Below \in Seq(Frame)
         /\ kind = "CopyMessages" =>
              /\ Top.owner \in Id /\ Top.entry \in Nat
              /\ Top.sup \in Support /\ Top.dst \in Folder
         /\ kind \in OwnerKinds => Top.owner \in Id
         /\ kind = "NotifyCompletion" =>
              /\ Top.sup \in Support /\ Top.dst \in Folder
              /\ Top.ok \in BOOLEAN /\ Top.orig \in Nat
         /\ kind = "result" => Top.ok \in BOOLEAN
  <1>1. /\ Top \in Frame
        /\ Top.kind = kind
        /\ Below \in Seq(Frame)
    BY RunningType DEF TypeOK
  <1> QED
    BY <1>1, FrameFields

LEMMA MakeCallType ==
  ASSUME TypeOK, NEW s \in Seq(Frame), MakeCall(s)
  PROVE  TypeOK'
  <1> DEFINE i == issued + 1
  <1>1. /\ i \in Id
        /\ issued' = i
        /\ i \in 0..MaxRequests
    BY MaxRequestsAssumption DEF MakeCall, TypeOK, Id
  <1>2. CASE NothingToCopy(i, s)
    <2>1. stack' \in Seq(Frame)
      BY <1>2, PushType, FrameTypes DEF NothingToCopy, TellStopped
    <2>2. /\ starts' \in [Id -> Nat]
          /\ stops' \in [Id -> Nat]
          /\ result' \in [Id -> {"none", "ok", "failed"}]
      BY <1>1, <1>2 DEF NothingToCopy, TellStopped, TypeOK
    <2> QED
      BY SourcesUnchanged, <1>1, <1>2, <2>1, <2>2 DEF MakeCall, NothingToCopy, TypeOK
  <1>3. CASE DoCopy(i, s)
    <2>1. stack' \in Seq(Frame)
      BY <1>3, PushType, FrameTypes DEF DoCopy
    <2>2. /\ sourceDone' \in [Id -> SUBSET Nat]
          /\ \A j \in Id : sourceDone'[j] \subseteq Sources(j)
      BY <1>1, <1>3, SourcesType DEF DoCopy, TypeOK, AddNewCopySource
    <2>3. m_copyRequests' \subseteq 1..i
      BY <1>1, <1>3 DEF DoCopy, TypeOK
    <2> QED
      BY SourcesUnchanged, <1>1, <1>3, <2>1, <2>2, <2>3 DEF MakeCall, DoCopy, TypeOK, listenerVars
  <1> QED
    BY <1>2, <1>3 DEF MakeCall

LEMMA StackOnlyType ==
  ASSUME TypeOK, stack' \in Seq(Frame), rv' \in BOOLEAN,
         UNCHANGED <<call, queueVars, mCopyState, folders, listenerVars, copied, unreported>>
  PROVE  TypeOK'
  BY SourcesUnchanged DEF TypeOK, queueVars, listenerVars

LEMMA DoNextCopyStartsType ==
  ASSUME TypeOK, DoNextCopyStarts
  PROVE  TypeOK'
  <1>1. PICK i \in m_copyRequests :
          /\ starts' = [starts EXCEPT ![i] = @ + 1]
          /\ m_processed' = MarkStarted(i)
          /\ StartSource(i) \/ StartPlainFile(i)
    BY DEF DoNextCopyStarts
  <1>2. i \in Id
    BY QueueFinite
  <1>3. Below \in Seq(Frame)
    BY TopType DEF DoNextCopyStarts
  <1>4. /\ stack' \in Seq(Frame)
        /\ sourceDone' \in [Id -> SUBSET Nat]
        /\ \A j \in Id : sourceDone'[j] \subseteq Sources(j)
    <2>1. CASE StartPlainFile(i)
      BY <2>1, <1>2, <1>3, PushType, FrameTypes DEF StartPlainFile, TypeOK
    <2>2. CASE StartSource(i)
      <3>1. PICK k \in Sources(i) :
              /\ sourceDone' = [sourceDone EXCEPT ![i] = @ \cup {k}]
              /\ CASE call[i].method = "messages" ->
                        stack' = Push(CopyMessagesFrame(i, k, call[i].from[k], Dst(i)), Below)
                   [] call[i].method = "folders" ->
                        stack' = Push(CopyFolderFrame(i), Push(CopyFolderReturn(i), Below))
                   [] call[i].method = "files" ->
                        stack' = Push(CopyFileMessageFrame(i), Below)
        BY <2>2 DEF StartSource
      <3>2. /\ k \in Nat
            /\ call[i].from[k] \in Support
            /\ Dst(i) \in Folder
            /\ call[i].method \in {"messages", "folders", "files"}
        BY <1>2, SourcesType, CallFields DEF TypeOK, Dst
      <3>3. ASSUME call[i].method = "messages" PROVE stack' \in Seq(Frame)
        <4>1. CopyMessagesFrame(i, k, call[i].from[k], Dst(i)) \in Frame
          BY <1>2, <3>2, FrameTypes
        <4>2. stack' = Push(CopyMessagesFrame(i, k, call[i].from[k], Dst(i)), Below)
          BY <3>1, <3>3
        <4> QED
          BY <1>3, <4>1, <4>2, PushType
      <3>4. ASSUME call[i].method = "folders" PROVE stack' \in Seq(Frame)
        <4>1. Push(CopyFolderReturn(i), Below) \in Seq(Frame)
          BY <1>2, <1>3, PushType, FrameTypes
        <4>2. Push(CopyFolderFrame(i), Push(CopyFolderReturn(i), Below)) \in Seq(Frame)
          BY <1>2, <4>1, PushType, FrameTypes
        <4>3. stack' = Push(CopyFolderFrame(i), Push(CopyFolderReturn(i), Below))
          BY <3>1, <3>4
        <4> QED
          BY <4>2, <4>3
      <3>5. ASSUME call[i].method = "files" PROVE stack' \in Seq(Frame)
        <4>1. stack' = Push(CopyFileMessageFrame(i), Below)
          BY <3>1, <3>5
        <4> QED
          BY <1>2, <1>3, <4>1, PushType, FrameTypes
      <3>6. stack' \in Seq(Frame)
        BY <3>2, <3>3, <3>4, <3>5
      <3>7. /\ sourceDone' \in [Id -> SUBSET Nat]
            /\ \A j \in Id : sourceDone'[j] \subseteq Sources(j)
        BY <3>1, <3>2, <1>2 DEF TypeOK
      <3> QED
        BY <3>6, <3>7
    <2> QED
      BY <1>1, <2>1, <2>2
  <1>5. /\ m_processed' \subseteq {j \in Id : call[j].method = "files"}
        /\ starts' \in [Id -> Nat]
    <2>1. /\ m_processed \subseteq {j \in Id : call[j].method = "files"}
          /\ starts \in [Id -> Nat]
      BY DEF TypeOK
    <2> QED
      BY <1>1, <1>2, <2>1 DEF MarkStarted
  <1> QED
    BY SourcesUnchanged, <1>4, <1>5 DEF DoNextCopyStarts, TypeOK

(***************************************************************************)
(* numOrigRequests never drops below zero.                                 *)
(***************************************************************************)
LEMMA NotifyFrameType ==
  ASSUME TypeOK, Running("NotifyCompletion"), NEW i \in m_copyRequests, Clearable(i)
  PROVE  /\ Top.orig - 1 \in Nat
         /\ NotifyFrame(Top.sup, Top.dst, Top.ok, Top.orig - 1) \in Frame
  <1>1. IndexOf(i) \in Nat
    BY QueueFinite
  <1>2. /\ Top.sup \in Support
        /\ Top.dst \in Folder
        /\ Top.ok \in BOOLEAN
        /\ Top.orig \in Nat
    BY TopType
  <1>3. Top.orig - 1 \in Nat
    BY <1>1, <1>2 DEF Clearable
  <1> QED
    BY <1>2, <1>3, FrameTypes

LEMMA NotifyCompletionType ==
  ASSUME TypeOK, NotifyCompletionClears
  PROVE  TypeOK'
  <1>1. PICK i \in m_copyRequests :
          /\ Clearable(i)
          /\ ClearRequest(i, Top.ok, Push(NotifyFrame(Top.sup, Top.dst, Top.ok, Top.orig - 1), Below))
    BY DEF NotifyCompletionClears
  <1>2. i \in Id
    BY QueueFinite
  <1>3. Running("NotifyCompletion")
    BY DEF NotifyCompletionClears
  <1>4. /\ Below \in Seq(Frame)
        /\ Top.ok \in BOOLEAN
    BY <1>3, TopType
  <1>5. NotifyFrame(Top.sup, Top.dst, Top.ok, Top.orig - 1) \in Frame
    BY <1>1, <1>3, NotifyFrameType
  <1> QED
    BY <1>1, <1>2, <1>4, <1>5, PushType, ClearRequestType DEF NotifyCompletionClears

(***************************************************************************)
(* A step that completes a copy and counts what it copied.                 *)
(***************************************************************************)
LEMMA CompletionType ==
  ASSUME TypeOK, NEW sup \in Support, NEW dst \in Folder,
         NEW ok \in BOOLEAN, NEW s \in Seq(Frame),
         OnCopyCompleted(sup, dst, ok, s),
         folders' \subseteq Folder,
         starts' \in [Id -> Nat],
         copied' \in [Id -> SUBSET Nat],
         UNCHANGED <<call, queueVars, rv, stops, result, unreported>>
  PROVE  TypeOK'
  <1>1. /\ stack' \in Seq(Frame)
        /\ mCopyState' \in [Folder -> [owner : Id \cup {0}, entry : Nat,
                                      srcSupport : Support]]
    BY OnCopyCompletedType
  <1> QED
    BY SourcesUnchanged, <1>1 DEF TypeOK, queueVars

LEMMA MessagesType ==
  ASSUME TypeOK,
         \/ CopyMessagesFails \/ CopyMessagesErrs \/ InitCopyState
         \/ MaildirCopies \/ MaildirStops
  PROVE  TypeOK'
  <1>1. CASE CopyMessagesFails
    <2>1. /\ Below \in Seq(Frame)
          /\ Top.sup \in Support
          /\ Top.dst \in Folder
      BY <1>1, TopType DEF CopyMessagesFails
    <2>2. PICK s \in {Below, Yielding(TRUE, Below), Yielding(FALSE, Below)} :
            OnCopyCompleted(Top.sup, Top.dst, FALSE, s)
      BY <1>1 DEF CopyMessagesFails
    <2>3. s \in Seq(Frame)
      BY <2>1, YieldingType
    <2> QED
      BY <1>1, <2>1, <2>2, <2>3, CompletionType
         DEF CopyMessagesFails, TypeOK, listenerVars
  <1>2. CASE InitCopyState
    <2>1. /\ Below \in Seq(Frame)
          /\ Top.owner \in Id
          /\ Top.entry \in Nat
          /\ Top.sup \in Support
          /\ Top.dst \in Folder
      BY <1>2, TopType DEF InitCopyState
    <2>2. mCopyState' \in [Folder -> [owner : Id \cup {0}, entry : Nat,
                                    srcSupport : Support]]
      BY <1>2, <2>1 DEF InitCopyState, TypeOK
    <2> QED
      BY SourcesUnchanged, <1>2, <2>1, <2>2
         DEF InitCopyState, Return, TypeOK, queueVars, listenerVars
  <1>3. CASE MaildirCopies
    <2>1. /\ Below \in Seq(Frame)
          /\ Top.owner \in Id
          /\ Top.entry \in Nat
          /\ Top.sup \in Support
          /\ Top.dst \in Folder
      BY <1>3, TopType DEF MaildirCopies
    <2>2. Push(MaildirReturn(Top.owner), Yielding(TRUE, Below)) \in Seq(Frame)
      BY <2>1, YieldingType, PushType, FrameTypes
    <2>3. /\ starts' \in [Id -> Nat]
          /\ copied' \in [Id -> SUBSET Nat]
          /\ folders' \subseteq Folder
      BY <1>3, <2>1 DEF MaildirCopies, TypeOK
    <2>4. OnCopyCompleted(Top.sup, Top.dst, TRUE, Push(MaildirReturn(Top.owner), Yielding(TRUE, Below)))
      BY <1>3 DEF MaildirCopies
    <2> QED
      BY <1>3, <2>1, <2>2, <2>3, <2>4, CompletionType DEF MaildirCopies
  <1>4. CASE MaildirStops
    <2>1. /\ Below \in Seq(Frame)
          /\ Top.owner \in Id
      BY <1>4, TopType DEF MaildirStops, OwnerKinds
    <2>2. stack' \in Seq(Frame)
      BY <1>4, <2>1, PushType, FrameTypes DEF MaildirStops, TellStopped
    <2>3. /\ stops' = [stops EXCEPT ![Top.owner] = @ + 1]
          /\ result' = [result EXCEPT ![Top.owner] = "ok"]
          /\ UNCHANGED <<call, queueVars, mCopyState, folders, rv, starts, copied, unreported>>
      BY <1>4 DEF MaildirStops, TellStopped
    <2>4. /\ stops' \in [Id -> Nat]
          /\ result' \in [Id -> {"none", "ok", "failed"}]
      BY <2>1, <2>3 DEF TypeOK
    <2> QED
      BY SourcesUnchanged, <2>2, <2>3, <2>4 DEF TypeOK, queueVars
  <1>5. CASE CopyMessagesErrs
    <2>1. Below \in Seq(Frame) /\ Top.owner \in Id
      BY <1>5, TopType DEF CopyMessagesErrs
    <2>2. unreported' \subseteq Id
      BY <1>5, <2>1 DEF CopyMessagesErrs, TypeOK
    <2> QED
      BY SourcesUnchanged, <1>5, <2>1, <2>2
         DEF CopyMessagesErrs, Return, TypeOK, queueVars, listenerVars
  <1> QED
    BY <1>1, <1>2, <1>3, <1>4, <1>5

LEMMA CopyEndsType ==
  ASSUME TypeOK, NEW f \in Folder, CopyEnds(f)
  PROVE  TypeOK'
  <1> DEFINE c == mCopyState[f]
  <1>1. PICK ok \in BOOLEAN : StreamEnds(f, ok)
    BY DEF CopyEnds
  <1>2. /\ c.entry \in Nat
        /\ c.srcSupport \in Support
    BY DEF TypeOK
  <1>3. /\ copied' \in [Id -> SUBSET Nat]
    BY <1>1, <1>2 DEF StreamEnds, TypeOK
  <1>4. /\ OnCopyCompleted(c.srcSupport, f, ok, <<>>)
        /\ UNCHANGED <<call, queueVars, folders, rv, listenerVars, unreported>>
    BY <1>1 DEF StreamEnds
  <1>5. <<>> \in Seq(Frame)
    OBVIOUS
  <1>6. /\ folders' \subseteq Folder
        /\ starts' \in [Id -> Nat]
        /\ UNCHANGED <<call, queueVars, rv, stops, result, unreported>>
    BY <1>4 DEF TypeOK, listenerVars
  <1> QED
    BY <1>2, <1>3, <1>4, <1>5, <1>6, CompletionType

LEMMA FilesType ==
  ASSUME TypeOK, CopyFileFails \/ CopyFileCopies \/ CopyFileReturns
  PROVE  TypeOK'
  <1> DEFINE i == Top.owner
  <1>1. /\ Below \in Seq(Frame)
        /\ i \in Id
    BY TopType DEF CopyFileFails, CopyFileCopies, CopyFileReturns, OwnerKinds
  <1>2. /\ call[i].src \in Support
        /\ Dst(i) \in Folder
        /\ Pieces(i) \subseteq Nat
    BY <1>1, CallFields, SourcesType DEF TypeOK, Dst
  <1>3. CASE CopyFileFails
    <2>1. PICK ok \in BOOLEAN : OnCopyCompleted(call[i].src, Dst(i), FALSE, Yielding(ok, Below))
      BY <1>3 DEF CopyFileFails
    <2>2. Yielding(ok, Below) \in Seq(Frame)
      BY <1>1, YieldingType
    <2> QED
      BY <1>2, <1>3, <2>1, <2>2, CompletionType DEF CopyFileFails, TypeOK, listenerVars
  <1>4. CASE CopyFileCopies
    <2>1. PICK s \in {Yielding(TRUE, Below), Push(CopyFileReturn(i), Below)} :
            OnCopyCompleted(call[i].src, Dst(i), TRUE, s)
      BY <1>4 DEF CopyFileCopies
    <2>2. s \in Seq(Frame)
      BY <1>1, YieldingType, PushType, FrameTypes
    <2>3. copied' \in [Id -> SUBSET Nat]
      BY <1>1, <1>2, <1>4 DEF CopyFileCopies, TypeOK
    <2> QED
      BY <1>2, <1>4, <2>1, <2>2, <2>3, CompletionType DEF CopyFileCopies, TypeOK, listenerVars
  <1>5. CASE CopyFileReturns
    <2>1. CASE rv /\ Return(TRUE) /\ UNCHANGED mCopyState
      BY <1>1, <1>5, <2>1, StackOnlyType DEF CopyFileReturns, Return
    <2>2. CASE /\ OnCopyCompleted(call[i].src, Dst(i), FALSE, Yielding(FALSE, Below))
               /\ UNCHANGED rv
      <3>1. Yielding(FALSE, Below) \in Seq(Frame)
        BY <1>1, YieldingType
      <3> QED
        BY <1>2, <1>5, <2>2, <3>1, CompletionType DEF CopyFileReturns, TypeOK, listenerVars
    <2> QED
      BY <1>5, <2>1, <2>2 DEF CopyFileReturns
  <1> QED
    BY <1>3, <1>4, <1>5

LEMMA FoldersType ==
  ASSUME TypeOK, CopyFolderAcrossServer \/ CopyFolderLocal \/ CopyFolderReturns
  PROVE  TypeOK'
  <1> DEFINE i == Top.owner
  <1>1. /\ Below \in Seq(Frame)
        /\ i \in Id
    BY TopType DEF CopyFolderAcrossServer, CopyFolderLocal, CopyFolderReturns, OwnerKinds
  <1>2. /\ call[i].src \in Support
        /\ Pieces(i) \subseteq Nat
    BY <1>1, CallFields, SourcesType DEF TypeOK
  <1>3. Yielding(TRUE, Below) \in Seq(Frame) /\ Yielding(FALSE, Below) \in Seq(Frame)
    BY <1>1, YieldingType
  <1>4. CASE CopyFolderLocal
    <2>1. PICK g \in Folder \ folders, ok \in BOOLEAN :
            /\ folders' = folders \cup {g}
            /\ OnCopyCompleted(call[i].src, g, TRUE, Yielding(ok, Below))
      BY <1>4 DEF CopyFolderLocal
    <2>2. copied' \in [Id -> SUBSET Nat]
      BY <1>1, <1>2, <1>4 DEF CopyFolderLocal, TypeOK
    <2> QED
      BY <1>2, <1>3, <1>4, <2>1, <2>2, CompletionType DEF CopyFolderLocal, TypeOK, listenerVars
  <1>5. CASE CopyFolderReturns
    <2>1. CASE rv
      BY <1>1, <1>5, <2>1, StackOnlyType DEF CopyFolderReturns, Return
    <2>2. CASE ClearRequest(i, FALSE, Yielding(FALSE, Below)) /\ UNCHANGED rv
      BY <1>1, <1>3, <1>5, <2>2, ClearRequestType DEF CopyFolderReturns
    <2>3. CASE Return(FALSE) /\ UNCHANGED <<queueVars, listenerVars>>
      BY <1>1, <1>5, <2>3, StackOnlyType DEF CopyFolderReturns, Return
    <2> QED
      BY <1>5, <2>1, <2>2, <2>3 DEF CopyFolderReturns
  <1>6. CASE CopyFolderAcrossServer
    <2>1. PICK g \in Folder \ folders :
            /\ folders' = folders \cup {g}
            /\ \/ /\ stack' = Push(CopyMessagesFrame(i, 1, call[i].src, g), Yielding(TRUE, Below))
                  /\ UNCHANGED <<mCopyState, copied>>
               \/ /\ OnCopyCompleted(g, g, TRUE, Below)
                  /\ copied' = [copied EXCEPT ![i] = Pieces(i)]
      BY <1>6 DEF CopyFolderAcrossServer
    <2>2. UNCHANGED <<call, queueVars, rv, starts, stops, result, unreported>>
      BY <1>6 DEF CopyFolderAcrossServer, listenerVars
    <2>3. folders' \subseteq Folder
      BY <2>1 DEF TypeOK
    <2>4. CASE /\ OnCopyCompleted(g, g, TRUE, Below)
               /\ copied' = [copied EXCEPT ![i] = Pieces(i)]
      <3>1. copied' \in [Id -> SUBSET Nat]
        BY <1>1, <1>2, <2>4 DEF TypeOK
      <3> QED
        BY <1>1, <2>1, <2>2, <2>3, <2>4, <3>1, CompletionType DEF TypeOK, Support
    <2>5. CASE /\ stack' = Push(CopyMessagesFrame(i, 1, call[i].src, g), Yielding(TRUE, Below))
               /\ UNCHANGED <<mCopyState, copied>>
      <3>1. call[i].src \in Support
        BY <1>2 DEF Support
      <3>2. CopyMessagesFrame(i, 1, call[i].src, g) \in Frame
        BY <1>1, <2>1, <3>1, FrameTypes
      <3>3. stack' \in Seq(Frame)
        BY <1>3, <2>5, <3>2, PushType
      <3> QED
        <4>1. UNCHANGED <<call, issued, m_copyRequests, m_processed, sourceDone, mCopyState,
                          rv, starts, stops, result, copied, unreported>>
          BY <2>2, <2>5 DEF queueVars
        <4> QED
          BY SourcesUnchanged, <2>3, <3>3, <4>1 DEF TypeOK
    <2> QED
      BY <2>1, <2>4, <2>5
  <1> QED
    BY <1>4, <1>5, <1>6

(***************************************************************************)
(* Whatever the folders, stores and calls, the variables of the service,   *)
(* its destinations and the calls in progress keep their types; one part   *)
(* is not obvious: numOrigRequests never drops below zero.                 *)
(***************************************************************************)
LEMMA NextTypeOK == TypeOK /\ [Next]_vars => TypeOK'
  <1> SUFFICES ASSUME TypeOK, [Next]_vars PROVE TypeOK'
    OBVIOUS
  <1>1. CASE UserCall
    <2>1. <<>> \in Seq(Frame)
      OBVIOUS
    <2> QED
      BY <1>1, <2>1, MakeCallType DEF UserCall
  <1>2. CASE ListenerCalls
    BY <1>2, MakeCallType DEF ListenerCalls, TypeOK
  <1>3. CASE ListenerReturns \/ DoNextCopyFindsNone \/ CopyFolderRefuses
    BY <1>3, StackOnlyType, TopType
       DEF ListenerReturns, DoNextCopyFindsNone, CopyFolderRefuses, Return, TypeOK
  <1>4. CASE ResultReturns
    BY <1>4, StackOnlyType, TopType DEF ResultReturns, Return
  <1>5. CASE NotifyCompletionEnds
    <2>1. stack' \in Seq(Frame)
      BY <1>5, TopType, PushType, FrameTypes DEF NotifyCompletionEnds
    <2> QED
      BY <1>5, <2>1, StackOnlyType DEF NotifyCompletionEnds, TypeOK
  <1>6. CASE Destroy
    <2>1. stack' \in Seq(Frame)
      BY <1>6, FrameTypes DEF Destroy
    <2> QED
      BY <1>6, <2>1, StackOnlyType DEF Destroy, TypeOK
  <1>7. CASE DestructorClears
    BY <1>7, QueueFinite, ClearRequestType DEF DestructorClears, TypeOK
  <1>8. CASE DoNextCopyStarts
    BY <1>8, DoNextCopyStartsType
  <1>9. CASE NotifyCompletionClears
    BY <1>9, NotifyCompletionType
  <1>10. CASE \/ CopyMessagesFails \/ CopyMessagesErrs \/ InitCopyState
              \/ MaildirCopies \/ MaildirStops
    BY <1>10, MessagesType
  <1>11. CASE CopyFileFails \/ CopyFileCopies \/ CopyFileReturns
    BY <1>11, FilesType
  <1>12. CASE CopyFolderAcrossServer \/ CopyFolderLocal \/ CopyFolderReturns
    BY <1>12, FoldersType
  <1>13. CASE \E f \in Folder : CopyEnds(f)
    BY <1>13, CopyEndsType
  <1>14. CASE UNCHANGED vars
    BY <1>14, StackOnlyType DEF vars, TypeOK
  <1> QED
    BY <1>1, <1>2, <1>3, <1>4, <1>5, <1>6, <1>7, <1>8, <1>9, <1>10, <1>11, <1>12, <1>13, <1>14
       DEF Next, Service, LocalFolder

THEOREM TypeCorrect == Spec => []TypeOK
  <1>1. Init => TypeOK
    BY InitTypeOK
  <1>2. TypeOK /\ [Next]_vars => TypeOK'
    BY NextTypeOK
  <1> QED
    BY <1>1, <1>2, PTL DEF Spec

-----------------------------------------------------------------------------
(***************************************************************************)
(* The order in which copies start.  MaildirCopies counts a start too, so  *)
(* the owners of the frames that may lead to one must have been started.   *)
(***************************************************************************)
StartKinds == {"CopyMessages", "CopyFolder"}

Began(s, st) == \A n \in DOMAIN s : s[n].kind \in StartKinds => st[s[n].owner] > 0

OrderInv ==
  /\ TypeOK
  /\ \A i \in Id : i > issued => starts[i] = 0
  /\ Began(stack, starts)

LEMMA BeganPush ==
  ASSUME NEW st, NEW s \in Seq(Frame), NEW fr \in Frame, Began(s, st),
         fr.kind \in StartKinds => st[fr.owner] > 0
  PROVE  Began(Push(fr, s), st)
  <1> DEFINE t == <<fr>> \o s
  <1>1. /\ DOMAIN t = 1..(Len(s) + 1)
        /\ t[1] = fr
        /\ \A n \in 2..(Len(s) + 1) : t[n] = s[n - 1] /\ n - 1 \in DOMAIN s
    OBVIOUS
  <1>2. \A n \in DOMAIN t : n = 1 \/ n \in 2..(Len(s) + 1)
    BY <1>1
  <1> QED
    BY <1>1, <1>2 DEF Began, Push

LEMMA FrameKinds ==
  /\ DoNextCopyFrame.kind \notin StartKinds
  /\ ListenerFrame.kind \notin StartKinds
  /\ DestroyFrame.kind \notin StartKinds
  /\ \A i \in Id : /\ CopyFolderReturn(i).kind \notin StartKinds
                   /\ CopyFileMessageFrame(i).kind \notin StartKinds
                   /\ CopyFileReturn(i).kind \notin StartKinds
                   /\ MaildirReturn(i).kind \notin StartKinds
  /\ \A sup \in Support, dst \in Folder, ok \in BOOLEAN, orig \in Nat :
       NotifyFrame(sup, dst, ok, orig).kind \notin StartKinds
  /\ \A ok \in BOOLEAN : ResultFrame(ok).kind \notin StartKinds
  BY DEF DoNextCopyFrame, ListenerFrame, DestroyFrame, CopyFolderReturn, StartKinds,
         CopyFileMessageFrame, CopyFileReturn, MaildirReturn, NotifyFrame, ResultFrame

LEMMA BeganYielding ==
  ASSUME NEW st, NEW s \in Seq(Frame), Began(s, st), NEW ok \in BOOLEAN
  PROVE  Began(Yielding(ok, s), st)
  BY BeganPush, FrameTypes, FrameKinds DEF Yielding

LEMMA BeganBelow ==
  ASSUME OrderInv, stack # <<>>
  PROVE  /\ Began(Below, starts)
         /\ Below \in Seq(Frame)
         /\ Top \in Frame
         /\ Top.kind \in StartKinds => starts[Top.owner] > 0
  <1>1. stack \in Seq(Frame)
    BY DEF OrderInv, TypeOK
  <1>2. /\ Below \in Seq(Frame)
        /\ Top \in Frame
        /\ 1 \in DOMAIN stack
        /\ Top = stack[1]
        /\ \A n \in DOMAIN Below : n + 1 \in DOMAIN stack /\ Below[n] = stack[n + 1]
    BY <1>1 DEF Below, Top
  <1> QED
    BY <1>2 DEF OrderInv, Began

LEMMA BeganCompleted ==
  ASSUME OrderInv, NEW sup \in Support, NEW dst \in Folder, NEW ok \in BOOLEAN,
         NEW st, NEW s \in Seq(Frame), Began(s, st), OnCopyCompleted(sup, dst, ok, s)
  PROVE  Began(stack', st)
  <1>1. Cardinality(m_copyRequests) \in Nat
    BY QueueFinite DEF OrderInv
  <1> QED
    BY <1>1, BeganPush, FrameTypes, FrameKinds DEF OnCopyCompleted

LEMMA BeganStopped ==
  ASSUME NEW i \in Id, NEW ok \in BOOLEAN, NEW st,
         NEW s \in Seq(Frame), Began(s, st), TellStopped(i, ok, s)
  PROVE  Began(stack', st)
  BY BeganPush, FrameTypes, FrameKinds DEF TellStopped

LEMMA BeganGrows ==
  ASSUME starts \in [Id -> Nat], NEW i \in Id, NEW s \in Seq(Frame), Began(s, starts),
         starts' = [starts EXCEPT ![i] = @ + 1]
  PROVE  Began(s, starts')
  <1>1. ASSUME NEW n \in DOMAIN s, s[n].kind \in StartKinds PROVE s[n].owner \in Id
    <2>1. s[n] \in Frame
      OBVIOUS
    <2> QED
      BY <1>1, <2>1, FrameFields DEF StartKinds, OwnerKinds
  <1> QED
    BY <1>1 DEF Began

LEMMA QuietStep ==
  ASSUME OrderInv, TypeOK', m_copyRequests' \subseteq m_copyRequests,
         UNCHANGED <<issued, starts>>, Began(stack', starts)
  PROVE  OrderInv' /\ StartsOrdered
  BY DEF OrderInv, StartsOrdered, InFlight

LEMMA ServiceOrder ==
  ASSUME OrderInv, TypeOK',
         \/ ListenerReturns \/ DoNextCopyFindsNone \/ CopyFolderRefuses \/ ResultReturns
         \/ NotifyCompletionEnds \/ NotifyCompletionClears \/ Destroy \/ DestructorClears
  PROVE  OrderInv' /\ StartsOrdered
  <1>1. CASE ListenerReturns \/ DoNextCopyFindsNone \/ CopyFolderRefuses \/ ResultReturns
    <2>1. stack' = Below /\ stack # <<>> /\ UNCHANGED <<issued, m_copyRequests, starts>>
      BY <1>1 DEF ListenerReturns, DoNextCopyFindsNone, CopyFolderRefuses, ResultReturns,
                  Return, Running, queueVars, listenerVars
    <2> QED
      BY <2>1, BeganBelow, QuietStep
  <1>2. CASE NotifyCompletionEnds
    <2>1. /\ stack' = Push(DoNextCopyFrame, Below) /\ stack # <<>>
          /\ UNCHANGED <<issued, m_copyRequests, starts>>
      BY <1>2 DEF NotifyCompletionEnds, Running, queueVars, listenerVars
    <2>2. Began(stack', starts)
      BY <2>1, BeganBelow, BeganPush, FrameTypes, FrameKinds
    <2> QED
      BY <2>1, <2>2, QuietStep
  <1>3. CASE NotifyCompletionClears
    <2>1. PICK i \in m_copyRequests :
            /\ Clearable(i)
            /\ ClearRequest(i, Top.ok, Push(NotifyFrame(Top.sup, Top.dst, Top.ok, Top.orig - 1), Below))
      BY <1>3 DEF NotifyCompletionClears
    <2> DEFINE fr == NotifyFrame(Top.sup, Top.dst, Top.ok, Top.orig - 1)
    <2>2. /\ m_copyRequests' = m_copyRequests \ {i}
          /\ TellStopped(i, Top.ok, Push(fr, Below))
          /\ UNCHANGED <<issued, starts>>
      BY <2>1 DEF ClearRequest
    <2>3. /\ Running("NotifyCompletion")
          /\ Clearable(i)
          /\ stack # <<>>
      BY <1>3, <2>1 DEF NotifyCompletionClears, Running
    <2>4. /\ fr \in Frame
          /\ fr.kind = "NotifyCompletion"
          /\ Top.ok \in BOOLEAN
      BY <2>3, NotifyFrameType, TopType DEF OrderInv, NotifyFrame
    <2>5. Push(fr, Below) \in Seq(Frame) /\ Began(Push(fr, Below), starts)
      BY <2>3, <2>4, BeganBelow, BeganPush, PushType DEF StartKinds
    <2>6. Began(stack', starts)
      BY <2>2, <2>4, <2>5, BeganStopped, QueueFinite DEF OrderInv
    <2> QED
      BY <2>2, <2>6, QuietStep
  <1>4. CASE Destroy
    <2>1. /\ stack' = Push(DestroyFrame, <<>>)
          /\ UNCHANGED <<issued, m_copyRequests, starts>>
      BY <1>4 DEF Destroy, Push, queueVars, listenerVars
    <2>2. Began(<<>>, starts) /\ <<>> \in Seq(Frame)
      BY DEF Began
    <2>3. Began(stack', starts)
      BY <2>1, <2>2, BeganPush, FrameTypes, FrameKinds
    <2> QED
      BY <2>1, <2>3, QuietStep
  <1>5. CASE DestructorClears
    <2>1. PICK i \in m_copyRequests : ClearRequest(i, FALSE, stack)
      BY <1>5 DEF DestructorClears
    <2>2. /\ m_copyRequests' = m_copyRequests \ {i}
          /\ TellStopped(i, FALSE, stack)
          /\ UNCHANGED <<issued, starts>>
      BY <2>1 DEF ClearRequest
    <2>3. Began(stack', starts)
      BY <2>2, BeganStopped, QueueFinite DEF OrderInv, TypeOK
    <2> QED
      BY <2>2, <2>3, QuietStep
  <1> QED
    BY <1>1, <1>2, <1>3, <1>4, <1>5

LEMMA MessagesOrder ==
  ASSUME OrderInv, TypeOK',
         \/ CopyMessagesFails \/ CopyMessagesErrs \/ InitCopyState \/ MaildirStops
         \/ \E f \in Folder : CopyEnds(f)
  PROVE  OrderInv' /\ StartsOrdered
  <1> USE DEF OrderInv
  <1>1. CASE CopyMessagesFails
    <2>1. /\ Running("CopyMessages")
          /\ UNCHANGED <<issued, m_copyRequests, starts>>
      BY <1>1 DEF CopyMessagesFails, queueVars, listenerVars
    <2>2. PICK s \in {Below, Yielding(TRUE, Below), Yielding(FALSE, Below)} :
            OnCopyCompleted(Top.sup, Top.dst, FALSE, s)
      BY <1>1 DEF CopyMessagesFails
    <2>3. s \in Seq(Frame) /\ Began(s, starts)
      BY <2>1, BeganBelow, BeganYielding, YieldingType DEF Running
    <2>4. Began(stack', starts)
      BY <2>1, <2>2, <2>3, TopType, BeganCompleted
    <2> QED
      BY <2>1, <2>4, QuietStep
  <1>2. CASE CopyMessagesErrs \/ InitCopyState
    <2>1. stack' = Below /\ stack # <<>> /\ UNCHANGED <<issued, m_copyRequests, starts>>
      BY <1>2 DEF CopyMessagesErrs, InitCopyState, Return, Running, queueVars, listenerVars
    <2> QED
      BY <2>1, BeganBelow, QuietStep
  <1>3. CASE MaildirStops
    <2>1. /\ Running("store CopyMessages returns")
          /\ TellStopped(Top.owner, TRUE, Below)
          /\ UNCHANGED <<issued, m_copyRequests, starts>>
      BY <1>3 DEF MaildirStops, queueVars
    <2>2. Top.owner \in Id
      BY <2>1, TopType DEF OwnerKinds
    <2>3. Began(stack', starts)
      BY <2>1, <2>2, BeganBelow, BeganStopped DEF Running
    <2> QED
      BY <2>1, <2>3, QuietStep
  <1>4. ASSUME NEW f \in Folder, CopyEnds(f) PROVE OrderInv' /\ StartsOrdered
    <2>1. PICK ok \in BOOLEAN : StreamEnds(f, ok)
      BY <1>4 DEF CopyEnds
    <2>2. /\ OnCopyCompleted(mCopyState[f].srcSupport, f, ok, <<>>)
          /\ UNCHANGED <<issued, m_copyRequests, starts>>
      BY <2>1 DEF StreamEnds, queueVars, listenerVars
    <2>3. Began(<<>>, starts) /\ <<>> \in Seq(Frame)
      BY DEF Began
    <2>4. mCopyState[f].srcSupport \in Support
      BY DEF TypeOK
    <2>5. Began(stack', starts)
      BY <2>2, <2>3, <2>4, BeganCompleted
    <2> QED
      BY <2>2, <2>5, QuietStep
  <1> QED
    BY <1>1, <1>2, <1>3, <1>4

LEMMA FilesOrder ==
  ASSUME OrderInv, TypeOK', CopyFileFails \/ CopyFileCopies \/ CopyFileReturns
  PROVE  OrderInv' /\ StartsOrdered
  <1> DEFINE i == Top.owner
  <1>1. /\ Below \in Seq(Frame)
        /\ Began(Below, starts)
        /\ i \in Id
        /\ UNCHANGED <<issued, m_copyRequests, starts>>
    BY TopType, BeganBelow DEF CopyFileFails, CopyFileCopies, CopyFileReturns, Running,
                               OwnerKinds, OrderInv, queueVars, listenerVars
  <1>2. /\ call[i].src \in Support
        /\ Dst(i) \in Folder
    BY <1>1, CallFields DEF OrderInv, TypeOK, Dst
  <1>3. PICK ok \in BOOLEAN, s \in {Below, Yielding(TRUE, Below), Yielding(FALSE, Below),
                                    Push(CopyFileReturn(i), Below)} :
          OnCopyCompleted(call[i].src, Dst(i), ok, s) \/ stack' = s
    BY DEF CopyFileFails, CopyFileCopies, CopyFileReturns, Return
  <1>4. s \in Seq(Frame) /\ Began(s, starts)
    <2>1. CASE s \in {Yielding(TRUE, Below), Yielding(FALSE, Below)}
      BY <1>1, <2>1, BeganYielding, YieldingType
    <2>2. CASE s = Push(CopyFileReturn(i), Below)
      <3>1. CopyFileReturn(i) \in Frame /\ CopyFileReturn(i).kind \notin StartKinds
        BY <1>1, FrameTypes, FrameKinds
      <3> QED
        BY <1>1, <2>2, <3>1, BeganPush, PushType
    <2> QED
      BY <1>1, <1>3, <2>1, <2>2
  <1>5. Began(stack', starts)
    BY <1>2, <1>3, <1>4, BeganCompleted
  <1> QED
    BY <1>1, <1>5, QuietStep

LEMMA FoldersOrder ==
  ASSUME OrderInv, TypeOK',
         CopyFolderAcrossServer \/ CopyFolderLocal \/ CopyFolderReturns
  PROVE  OrderInv' /\ StartsOrdered
  <1> DEFINE i == Top.owner
  <1>1. /\ Below \in Seq(Frame)
        /\ Began(Below, starts)
        /\ i \in Id
        /\ stack # <<>>
    BY TopType, BeganBelow DEF CopyFolderAcrossServer, CopyFolderLocal, CopyFolderReturns,
                               Running, OwnerKinds, OrderInv
  <1>2. /\ call[i].src \in Support
        /\ \A ok \in BOOLEAN : Yielding(ok, Below) \in Seq(Frame) /\ Began(Yielding(ok, Below), starts)
    BY <1>1, CallFields, YieldingType, BeganYielding DEF OrderInv, TypeOK
  <1>3. CASE CopyFolderLocal
    <2>1. PICK g \in Folder, ok \in BOOLEAN :
            OnCopyCompleted(call[i].src, g, TRUE, Yielding(ok, Below))
      BY <1>3 DEF CopyFolderLocal
    <2>2. UNCHANGED <<issued, m_copyRequests, starts>>
      BY <1>3 DEF CopyFolderLocal, queueVars, listenerVars
    <2> QED
      BY <1>2, <2>1, <2>2, BeganCompleted, QuietStep
  <1>4. CASE CopyFolderReturns /\ stack' = Below /\ UNCHANGED <<queueVars, listenerVars>>
    <2>1. UNCHANGED <<issued, m_copyRequests, starts>>
      BY <1>4 DEF queueVars, listenerVars
    <2> QED
      BY <1>1, <1>4, <2>1, QuietStep
  <1>5. CASE CopyFolderReturns /\ ClearRequest(i, FALSE, Yielding(FALSE, Below))
    <2>1. /\ m_copyRequests' = m_copyRequests \ {i}
          /\ TellStopped(i, FALSE, Yielding(FALSE, Below))
          /\ UNCHANGED <<issued, starts>>
      BY <1>5 DEF ClearRequest
    <2> QED
      BY <1>1, <1>2, <2>1, BeganStopped, QuietStep
  <1>6. CASE CopyFolderAcrossServer
    <2>1. UNCHANGED <<issued, m_copyRequests, starts>>
      BY <1>6 DEF CopyFolderAcrossServer, queueVars, listenerVars
    <2>2. PICK g \in Folder :
            \/ stack' = Push(CopyMessagesFrame(i, 1, call[i].src, g), Yielding(TRUE, Below))
            \/ OnCopyCompleted(g, g, TRUE, Below)
      BY <1>6 DEF CopyFolderAcrossServer
    <2>3. CASE OnCopyCompleted(g, g, TRUE, Below)
      BY <1>1, <2>1, <2>3, BeganCompleted, QuietStep DEF Support
    <2>4. CASE stack' = Push(CopyMessagesFrame(i, 1, call[i].src, g), Yielding(TRUE, Below))
      <3> DEFINE fr == CopyMessagesFrame(i, 1, call[i].src, g)
      <3>1. fr \in Frame /\ fr.owner = i
        BY <1>1, <1>2, FrameTypes DEF CopyMessagesFrame
      <3>2. starts[i] > 0
        BY <1>1, <1>6, BeganBelow DEF CopyFolderAcrossServer, Running, StartKinds, Top
      <3>3. Began(stack', starts)
        BY <1>2, <2>4, <3>1, <3>2, BeganPush
      <3> QED
        BY <2>1, <3>3, QuietStep
    <2> QED
      BY <2>2, <2>3, <2>4
  <1> QED
    BY <1>3, <1>4, <1>5, <1>6 DEF CopyFolderReturns, Return

LEMMA CallOrder ==
  ASSUME OrderInv, TypeOK', NEW s \in Seq(Frame), Began(s, starts), MakeCall(s)
  PROVE  OrderInv' /\ StartsOrdered
  <1> DEFINE i == issued + 1
  <1>1. /\ i \in Id
        /\ issued' = i
        /\ call' = call
        /\ i \notin m_copyRequests
        /\ starts[i] = 0
        /\ starts \in [Id -> Nat]
        /\ issued \in Nat
    BY MaxRequestsAssumption DEF MakeCall, OrderInv, TypeOK, Id
  <1>2. CASE DoCopy(i, s)
    <2>1. /\ m_copyRequests' = m_copyRequests \cup {i}
          /\ starts' = starts
          /\ stack' = IF QueueRequest(i) THEN Push(DoNextCopyFrame, s) ELSE s
      BY <1>2 DEF DoCopy, listenerVars
    <2>2. Began(stack', starts)
      BY <2>1, BeganPush, FrameTypes, FrameKinds
    <2>3. \A j \in Id : j > issued' => starts'[j] = 0
      BY <1>1, <2>1 DEF OrderInv, Id
    <2>4. StartsOrdered
      BY <1>1, <2>1 DEF StartsOrdered, InFlight
    <2> QED
      BY <2>1, <2>2, <2>3, <2>4 DEF OrderInv
  <1>3. CASE NothingToCopy(i, s)
    <2>1. /\ starts' = [starts EXCEPT ![i] = @ + 1]
          /\ TellStopped(i, TRUE, s)
          /\ m_copyRequests' = m_copyRequests
      BY <1>3 DEF NothingToCopy
    <2>2. Began(s, starts')
      BY <1>1, <2>1, BeganGrows
    <2>3. Began(stack', starts')
      BY <1>1, <2>1, <2>2, BeganStopped
    <2>4. \A j \in Id : j > issued' => starts'[j] = 0
      BY <1>1, <2>1 DEF OrderInv, Id
    <2>5. StartsOrdered
      BY <1>1, <2>1 DEF StartsOrdered, InFlight
    <2> QED
      BY <2>3, <2>4, <2>5 DEF OrderInv
  <1> QED
    BY <1>2, <1>3 DEF MakeCall

(***************************************************************************)
(* The request that DoNextCopy starts is the first of its destination.     *)
(***************************************************************************)
LEMMA FirstOfTarget ==
  ASSUME TypeOK, NEW i \in m_copyRequests, NextToStart(i), NEW k \in m_copyRequests, k < i
  PROVE  Dst(k) # Dst(i)
  <1> SUFFICES ASSUME Dst(k) = Dst(i) PROVE FALSE
    OBVIOUS
  <1>1. /\ i \in Nat
        /\ m_copyRequests \subseteq Nat
    BY MaxRequestsAssumption DEF TypeOK
  <1>2. ~Processed(k) /\ ~ActiveTarget(i)
    BY DEF NextToStart, Startable, ActiveTarget
  <1>3. ~Startable(k)
    BY DEF NextToStart
  <1>4. ActiveTarget(k)
    BY <1>2, <1>3 DEF Startable
  <1>5. PICK j \in m_copyRequests : j < k /\ Dst(j) = Dst(k) /\ Processed(j)
    BY <1>4 DEF ActiveTarget
  <1>6. j < i
    BY <1>1, <1>5
  <1>7. ActiveTarget(i)
    BY <1>5, <1>6 DEF ActiveTarget
  <1> QED
    BY <1>2, <1>7

LEMMA DoNextCopyOrder ==
  ASSUME OrderInv, TypeOK', DoNextCopyStarts
  PROVE  OrderInv' /\ StartsOrdered
  <1>1. PICK i \in m_copyRequests :
          /\ NextToStart(i)
          /\ starts' = [starts EXCEPT ![i] = @ + 1]
          /\ StartSource(i) \/ StartPlainFile(i)
    BY DEF DoNextCopyStarts
  <1>2. /\ Running("DoNextCopy")
        /\ UNCHANGED <<call, issued, m_copyRequests>>
    BY DEF DoNextCopyStarts
  <1>3. /\ i \in Id
        /\ starts \in [Id -> Nat]
        /\ i <= issued
        /\ issued \in Nat
    <2>1. m_copyRequests \subseteq 1..issued /\ issued \in Nat /\ starts \in [Id -> Nat]
      BY MaxRequestsAssumption DEF OrderInv, TypeOK
    <2>2. m_copyRequests \subseteq Id
      BY QueueFinite DEF OrderInv
    <2> QED
      BY <2>1, <2>2
  <1>4. Below \in Seq(Frame) /\ Began(Below, starts')
    BY <1>1, <1>2, <1>3, BeganBelow, BeganGrows DEF Running
  <1>5. starts'[i] > 0
    BY <1>1, <1>3
  <1>6. Began(stack', starts')
    <2>1. \/ \E k \in Sources(i) :
              stack' = Push(CopyMessagesFrame(i, k, call[i].from[k], Dst(i)), Below)
          \/ stack' = Push(CopyFolderFrame(i), Push(CopyFolderReturn(i), Below))
          \/ stack' = Push(CopyFileMessageFrame(i), Below)
      <3>1. call[i].method \in {"messages", "folders", "files"}
        BY <1>3, CallFields DEF OrderInv, TypeOK
      <3> QED
        BY <1>1, <3>1 DEF StartSource, StartPlainFile
    <2>2. ASSUME NEW k \in Sources(i),
                 stack' = Push(CopyMessagesFrame(i, k, call[i].from[k], Dst(i)), Below)
          PROVE  Began(stack', starts')
      <3> DEFINE fr == CopyMessagesFrame(i, k, call[i].from[k], Dst(i))
      <3>1. k \in Nat /\ call[i].from[k] \in Support /\ Dst(i) \in Folder
        BY <1>3, SourcesType, CallFields DEF OrderInv, TypeOK, Dst
      <3>2. fr \in Frame /\ fr.owner = i
        BY <1>3, <3>1, FrameTypes DEF CopyMessagesFrame
      <3> QED
        BY <1>4, <1>5, <2>2, <3>2, BeganPush
    <2>3. CASE stack' = Push(CopyFileMessageFrame(i), Below)
      <3>1. CopyFileMessageFrame(i) \in Frame /\ CopyFileMessageFrame(i).kind \notin StartKinds
        BY <1>3, FrameTypes, FrameKinds
      <3> QED
        BY <1>4, <2>3, <3>1, BeganPush
    <2>4. CASE stack' = Push(CopyFolderFrame(i), Push(CopyFolderReturn(i), Below))
      <3>1. CopyFolderReturn(i) \in Frame /\ CopyFolderReturn(i).kind \notin StartKinds
        BY <1>3, FrameTypes, FrameKinds
      <3>2. CopyFolderFrame(i) \in Frame /\ CopyFolderFrame(i).owner = i
        BY <1>3, FrameTypes DEF CopyFolderFrame
      <3>3. /\ Push(CopyFolderReturn(i), Below) \in Seq(Frame)
            /\ Began(Push(CopyFolderReturn(i), Below), starts')
        BY <1>4, <3>1, BeganPush, PushType
      <3> QED
        BY <1>5, <2>4, <3>2, <3>3, BeganPush
    <2> QED
      BY <2>1, <2>2, <2>3, <2>4
  <1>7. \A j \in Id : j > issued' => starts'[j] = 0
    <2>1. \A j \in Id : j > issued => j # i
      BY <1>3 DEF Id
    <2> QED
      BY <1>1, <1>2, <1>3, <2>1 DEF OrderInv
  <1>8. StartsOrdered
    <2>1. \A k \in m_copyRequests : k < i => Dst(k) # Dst(i)
      BY <1>1, FirstOfTarget DEF OrderInv
    <2>2. \A j \in Id : j # i => (InFlight(j)' => InFlight(j))
      BY <1>1, <1>2, <1>3 DEF InFlight
    <2> QED
      BY <1>2, <2>1, <2>2 DEF StartsOrdered
  <1> QED
    BY <1>6, <1>7, <1>8 DEF OrderInv

LEMMA MaildirOrder ==
  ASSUME OrderInv, TypeOK', MaildirCopies
  PROVE  OrderInv' /\ StartsOrdered
  <1> DEFINE i == Top.owner
  <1>1. /\ i \in Id
        /\ Top.sup \in Support
        /\ Top.dst \in Folder
        /\ stack # <<>>
        /\ Top.kind \in StartKinds
    BY TopType DEF MaildirCopies, OrderInv, Running, StartKinds, Top
  <1>2. /\ starts' = [starts EXCEPT ![i] = @ + 1]
        /\ UNCHANGED <<call, issued, m_copyRequests>>
        /\ OnCopyCompleted(Top.sup, Top.dst, TRUE, Push(MaildirReturn(i), Yielding(TRUE, Below)))
    BY DEF MaildirCopies, queueVars
  <1>3. starts[i] > 0 /\ starts \in [Id -> Nat]
    BY <1>1, BeganBelow DEF OrderInv, TypeOK
  <1>4. Below \in Seq(Frame) /\ Began(Below, starts')
    BY <1>1, <1>2, <1>3, BeganBelow, BeganGrows
  <1>5. /\ Push(MaildirReturn(i), Yielding(TRUE, Below)) \in Seq(Frame)
        /\ Began(Push(MaildirReturn(i), Yielding(TRUE, Below)), starts')
    <2>1. Yielding(TRUE, Below) \in Seq(Frame) /\ Began(Yielding(TRUE, Below), starts')
      BY <1>4, YieldingType, BeganYielding
    <2>2. MaildirReturn(i) \in Frame /\ MaildirReturn(i).kind \notin StartKinds
      BY <1>1, FrameTypes, FrameKinds
    <2> QED
      BY <2>1, <2>2, BeganPush, PushType
  <1>6. Began(stack', starts')
    BY <1>1, <1>2, <1>5, BeganCompleted
  <1>7. \A j \in Id : j > issued' => starts'[j] = 0
    BY <1>2, <1>3 DEF OrderInv
  <1>8. StartsOrdered
    BY <1>2, <1>3 DEF StartsOrdered, InFlight
  <1> QED
    BY <1>6, <1>7, <1>8 DEF OrderInv

LEMMA OrderStep ==
  ASSUME OrderInv, [Next]_vars
  PROVE  OrderInv' /\ StartsOrdered
  <1>1. TypeOK'
    BY NextTypeOK DEF OrderInv
  <1>2. CASE UserCall
    <2>1. <<>> \in Seq(Frame) /\ Began(<<>>, starts)
      BY DEF Began
    <2> QED
      BY <1>1, <1>2, <2>1, CallOrder DEF UserCall
  <1>3. CASE ListenerCalls
    <2>1. MakeCall(stack) /\ stack \in Seq(Frame) /\ Began(stack, starts)
      BY <1>3 DEF ListenerCalls, OrderInv, TypeOK
    <2> QED
      BY <1>1, <2>1, CallOrder
  <1>4. CASE \/ ListenerReturns \/ DoNextCopyFindsNone \/ CopyFolderRefuses \/ ResultReturns
             \/ NotifyCompletionEnds \/ NotifyCompletionClears \/ Destroy \/ DestructorClears
    BY <1>1, <1>4, ServiceOrder
  <1>5. CASE \/ CopyMessagesFails \/ CopyMessagesErrs \/ InitCopyState \/ MaildirStops
             \/ \E f \in Folder : CopyEnds(f)
    BY <1>1, <1>5, MessagesOrder
  <1>6. CASE CopyFileFails \/ CopyFileCopies \/ CopyFileReturns
    BY <1>1, <1>6, FilesOrder
  <1>7. CASE CopyFolderAcrossServer \/ CopyFolderLocal \/ CopyFolderReturns
    BY <1>1, <1>7, FoldersOrder
  <1>8. CASE DoNextCopyStarts
    BY <1>1, <1>8, DoNextCopyOrder
  <1>9. CASE MaildirCopies
    BY <1>1, <1>9, MaildirOrder
  <1>10. CASE UNCHANGED vars
    BY <1>1, <1>10, QuietStep DEF vars, queueVars, listenerVars, OrderInv
  <1> QED
    BY <1>2, <1>3, <1>4, <1>5, <1>6, <1>7, <1>8, <1>9, <1>10 DEF Next, Service, LocalFolder

(***************************************************************************)
(* A destination is given to its requests in the order they were made: the *)
(* request that DoNextCopy starts is the first in the queue for its        *)
(* destination, for every mix of messages, files, folders and stores, and  *)
(* whatever listeners do.                                                  *)
(***************************************************************************)
THEOREM CopiesStartInOrder == Spec => StartsInOrder
  <1>1. Init => OrderInv
    <2> SUFFICES ASSUME Init PROVE OrderInv
      OBVIOUS
    <2> QED
      BY InitTypeOK DEF Init, OrderInv, Began
  <1>2. OrderInv /\ [Next]_vars => OrderInv'
    BY OrderStep
  <1>3. OrderInv /\ [Next]_vars => [StartsOrdered]_vars
    BY OrderStep
  <1> QED
    BY <1>1, <1>2, <1>3, PTL DEF Spec, StartsInOrder

-----------------------------------------------------------------------------
(***************************************************************************)
(* The requests for folders.  DoNextCopy keeps a pointer to the request    *)
(* while the folder is copied; calls nested inside may complete others.    *)
(*                                                                         *)
(* No folder is copied into its own parent (which refuses it), and no      *)
(* message or file is copied, from the folder that a request copies, to a  *)
(* child of the destination of that request: NotifyCompletion would take   *)
(* the one for the other.                                                  *)
(***************************************************************************)
FoldersApart ==
  \A script \in Scripts, i \in Id : script[i].method = "folders" =>
    /\ Parent[script[i].src] # script[i].dst
    /\ \A k \in Id : script[k].method # "folders" =>
         \/ Parent[script[k].dst] # script[i].dst
         \/ script[i].src \notin {script[k].src} \cup {script[k].from[n] : n \in DOMAIN script[k].from}

(***************************************************************************)
(* The inductive invariant.  In a stack "s" whose top gets "r" from the    *)
(* call that returned last, each call to CopyFolder that has yet to return *)
(* moves a folder, returns success or has its request in the queue "q",    *)
(* the first of its destination, with no completion coming that could      *)
(* clear it.                                                               *)
(***************************************************************************)
Emits(fr) == fr.kind \in {"CopyMessages", "NotifyCompletion"}
IsReturn(fr) == fr.kind = "CopyFolder returns"
Returns(s, p) == IsReturn(s[p])
Success == ResultFrame(TRUE)
Succeeds(s, p, r) ==
  call[s[p].owner].move \/ IF p = 1 THEN r ELSE s[p - 1] = Success

First(i, q) == i \in q /\ \A k \in q : k < i => Dst(k) # Dst(i)

Kept(s, p, q) ==
  /\ First(s[p].owner, q)
  /\ \A m \in 1..(p - 1) : Emits(s[m]) => ~SameEnds(s[p].owner, s[m].sup, s[m].dst)

InProgress(i, n, d) ==
  i \in 1..n /\ call[i].method = "folders" /\ Sources(i) \subseteq d[i]

Fits(fr) ==
  /\ fr.kind \notin {"CopyFolder", "destructor"}
  /\ fr.kind \in {"CopyFileMessage", "CopyFileMessage returns"} => call[fr.owner].method # "folders"

Sound(s, r, q, n, d) ==
  \A p \in DOMAIN s :
    /\ Fits(s[p])
    /\ Returns(s, p) =>
         /\ InProgress(s[p].owner, n, d)
         /\ \A m \in DOMAIN s : Returns(s, m) /\ s[m].owner = s[p].owner => m = p
         /\ Kept(s, p, q) \/ Succeeds(s, p, r)

FolderInv ==
  /\ TypeOK
  /\ Running("destructor") => Below = <<>>
  /\ Running("CopyFolder") =>
       /\ Below # <<>> /\ Head(Below) = CopyFolderReturn(Top.owner)
       /\ First(Top.owner, m_copyRequests)
       /\ Sound(Below, FALSE, m_copyRequests, issued, sourceDone)
  /\ ~Running("destructor") /\ ~Running("CopyFolder") =>
       Sound(stack, rv, m_copyRequests, issued, sourceDone)

(***************************************************************************)
(* A completion of a copy from sup to dst clears no request in s that      *)
(* still has to be in the queue.                                           *)
(***************************************************************************)
Clear(sup, dst, s) ==
  \A p \in DOMAIN s :
    Returns(s, p) /\ SameEnds(s[p].owner, sup, dst) => Succeeds(s, p, FALSE)

LEMMA PushFields ==
  ASSUME NEW s \in Seq(Frame), NEW fr \in Frame
  PROVE  LET t == Push(fr, s) IN
         /\ t \in Seq(Frame) /\ t # <<>> /\ Head(t) = fr /\ Tail(t) = s
         /\ t[1] = fr /\ 1 \in DOMAIN t /\ DOMAIN t = 1..(Len(s) + 1)
         /\ DOMAIN s = 1..Len(s) /\ Len(s) \in Nat
         /\ \A p \in DOMAIN t : p \in Nat /\ (p = 1 \/ (p - 1 \in DOMAIN s /\ t[p] = s[p - 1]))
         /\ \A p \in DOMAIN s : p + 1 \in DOMAIN t /\ t[p + 1] = s[p]
  BY DEF Push

LEMMA SoundMono ==
  ASSUME NEW s \in Seq(Frame), NEW r, NEW r2, NEW q, NEW n \in Nat, NEW d,
         NEW q2, NEW n2 \in Nat, NEW d2,
         Sound(s, r, q, n, d), r => r2, n <= n2,
         \A i \in 1..n : d[i] \subseteq d2[i],
         \A p \in DOMAIN s : Returns(s, p) /\ First(s[p].owner, q)
            => First(s[p].owner, q2) \/ Succeeds(s, p, r)
  PROVE  Sound(s, r2, q2, n2, d2)
  <1> SUFFICES ASSUME NEW p \in DOMAIN s, Returns(s, p)
               PROVE  /\ InProgress(s[p].owner, n2, d2)
                      /\ Kept(s, p, q2) \/ Succeeds(s, p, r2)
    BY DEF Sound
  <1>1. /\ InProgress(s[p].owner, n, d)
        /\ Kept(s, p, q) \/ Succeeds(s, p, r)
    BY DEF Sound
  <1>2. InProgress(s[p].owner, n2, d2)
    <2>1. s[p].owner \in 1..n2
      BY <1>1 DEF InProgress
    <2> QED
      BY <1>1, <2>1 DEF InProgress
  <1>3. Succeeds(s, p, r) => Succeeds(s, p, r2)
    BY DEF Succeeds
  <1>4. Kept(s, p, q) => Kept(s, p, q2) \/ Succeeds(s, p, r)
    BY DEF Kept
  <1> QED
    BY <1>1, <1>2, <1>3, <1>4

(***************************************************************************)
(* A frame that is not a return of CopyFolder, pushed and popped.          *)
(***************************************************************************)
LEMMA SoundPush ==
  ASSUME NEW s \in Seq(Frame), NEW fr \in Frame, NEW r, NEW q, NEW n, NEW d,
         Fits(fr), ~IsReturn(fr),
         Sound(s, fr = Success, q, n, d),
         Emits(fr) => Clear(fr.sup, fr.dst, s)
  PROVE  Sound(Push(fr, s), r, q, n, d)
  <1> DEFINE t == Push(fr, s)
  <1>1. /\ t[1] = fr /\ DOMAIN t = 1..(Len(s) + 1) /\ DOMAIN s = 1..Len(s) /\ Len(s) \in Nat
        /\ \A p \in DOMAIN t : p \in Nat /\ (p = 1 \/ (p - 1 \in DOMAIN s /\ t[p] = s[p - 1]))
    BY PushFields
  <1> HIDE DEF t
  <1> SUFFICES ASSUME NEW p \in DOMAIN t
               PROVE  /\ Fits(t[p])
                      /\ Returns(t, p) =>
                           /\ InProgress(t[p].owner, n, d)
                           /\ \A m \in DOMAIN t : Returns(t, m) /\ t[m].owner = t[p].owner => m = p
                           /\ Kept(t, p, q) \/ Succeeds(t, p, r)
    BY DEF Sound, t
  <1>2. CASE p = 1
    BY <1>1, <1>2 DEF Returns
  <1>3. CASE p # 1
    <2>0. p - 1 \in DOMAIN s /\ t[p] = s[p - 1] /\ p \in Nat
      BY <1>1, <1>3
    <2>1. p - 1 \in DOMAIN s /\ t[p] = s[p - 1] /\ p \in Nat /\ Fits(s[p - 1])
      BY <2>0 DEF Sound
    <2> SUFFICES ASSUME Returns(t, p)
                 PROVE  /\ InProgress(t[p].owner, n, d)
                        /\ \A m \in DOMAIN t : Returns(t, m) /\ t[m].owner = t[p].owner => m = p
                        /\ Kept(t, p, q) \/ Succeeds(t, p, r)
      BY <2>1
    <2>2. /\ Returns(s, p - 1)
          /\ InProgress(s[p - 1].owner, n, d)
          /\ \A m \in DOMAIN s : Returns(s, m) /\ s[m].owner = s[p - 1].owner => m = p - 1
          /\ Kept(s, p - 1, q) \/ Succeeds(s, p - 1, fr = Success)
      BY <2>1 DEF Sound, Returns
    <2>3. ASSUME NEW m \in DOMAIN t, Returns(t, m), t[m].owner = t[p].owner
          PROVE  m = p
      <3>1. m # 1
        BY <1>1, <2>3 DEF Returns
      <3>2. m - 1 \in DOMAIN s /\ t[m] = s[m - 1] /\ m \in Nat
        BY <1>1, <3>1
      <3>3. m - 1 = p - 1
        BY <2>1, <2>2, <2>3, <3>2 DEF Returns
      <3> QED
        BY <2>1, <3>2, <3>3
    <2>4. Succeeds(s, p - 1, fr = Success) => Succeeds(t, p, r)
      <3>1. CASE p - 1 = 1
        BY <1>1, <1>3, <3>1 DEF Succeeds
      <3>2. CASE p - 1 # 1
        <4>0. p - 1 \in DOMAIN t
          BY <1>1, <2>1
        <4>1. p - 1 \in DOMAIN t /\ t[p - 1] = s[p - 1 - 1]
          BY <1>1, <3>2, <4>0
        <4> QED
          BY <1>3, <2>1, <3>2, <4>1 DEF Succeeds
      <3> QED
        BY <3>1, <3>2
    <2>5. ASSUME Kept(s, p - 1, q), ~Succeeds(s, p - 1, fr = Success)
          PROVE  Kept(t, p, q)
      <3>1. ASSUME NEW m \in 1..(p - 1), Emits(t[m])
            PROVE  ~SameEnds(t[p].owner, t[m].sup, t[m].dst)
        <4>1. CASE m = 1
          <5>1. t[m] = fr /\ Emits(fr)
            BY <1>1, <3>1, <4>1
          <5>2. Succeeds(s, p - 1, FALSE) => Succeeds(s, p - 1, fr = Success)
            BY DEF Succeeds
          <5> QED
            BY <2>1, <2>2, <2>5, <5>1, <5>2 DEF Clear
        <4>2. CASE m # 1
          <5>0. m \in DOMAIN t /\ m - 1 \in 1..(p - 1 - 1)
            BY <1>1, <2>1, <4>2
          <5>1. m \in DOMAIN t /\ m - 1 \in 1..(p - 1 - 1) /\ t[m] = s[m - 1]
            BY <1>1, <4>2, <5>0
          <5> QED
            BY <2>1, <2>5, <3>1, <5>1 DEF Kept
        <4> QED
          BY <4>1, <4>2
      <3> QED
        BY <2>1, <2>5, <3>1 DEF Kept
    <2> QED
      BY <2>1, <2>2, <2>3, <2>4, <2>5
  <1> QED
    BY <1>2, <1>3

LEMMA SoundPop ==
  ASSUME NEW fr \in Frame, NEW s \in Seq(Frame), NEW r, NEW q, NEW n, NEW d,
         Sound(Push(fr, s), r, q, n, d)
  PROVE  /\ Sound(s, fr = Success, q, n, d)
         /\ Emits(fr) => Clear(fr.sup, fr.dst, s)
         /\ Fits(fr)
  <1> DEFINE t == Push(fr, s)
  <1>1. /\ t[1] = fr /\ 1 \in DOMAIN t /\ DOMAIN s = 1..Len(s) /\ Len(s) \in Nat
        /\ \A p \in DOMAIN s : p + 1 \in DOMAIN t /\ t[p + 1] = s[p]
    BY PushFields
  <1>2. Sound(t, r, q, n, d)
    OBVIOUS
  <1> HIDE DEF t
  <1>3. ASSUME NEW p \in DOMAIN s
        PROVE  Succeeds(t, p + 1, r) = Succeeds(s, p, fr = Success)
    <2>1. CASE p = 1
      BY <1>1, <2>1 DEF Succeeds
    <2>2. CASE p # 1
      <3>1. p - 1 \in DOMAIN s /\ p + 1 # 1 /\ (p + 1) - 1 = (p - 1) + 1
        BY <1>1, <2>2
      <3>2. t[(p + 1) - 1] = s[p - 1]
        BY <1>1, <3>1
      <3> QED
        BY <1>1, <2>2, <3>1, <3>2 DEF Succeeds
    <2> QED
      BY <2>1, <2>2
  <1>4. ASSUME NEW p \in DOMAIN s, Kept(t, p + 1, q)
        PROVE  /\ Kept(s, p, q)
               /\ Emits(fr) => ~SameEnds(s[p].owner, fr.sup, fr.dst)
    <2>1. ASSUME NEW m \in 1..(p - 1), Emits(s[m])
          PROVE  ~SameEnds(s[p].owner, s[m].sup, s[m].dst)
      <3>1. m \in DOMAIN s /\ m + 1 \in 1..((p + 1) - 1) /\ t[m + 1] = s[m] /\ t[p + 1] = s[p]
        BY <1>1
      <3> QED
        BY <1>4, <2>1, <3>1 DEF Kept
    <2>2. 1 \in 1..((p + 1) - 1) /\ t[p + 1] = s[p]
      BY <1>1
    <2> QED
      BY <1>1, <1>4, <2>1, <2>2 DEF Kept
  <1>5. ASSUME NEW p \in DOMAIN s
        PROVE  /\ Fits(s[p])
               /\ Returns(s, p) =>
                    /\ InProgress(s[p].owner, n, d)
                    /\ \A m \in DOMAIN s : Returns(s, m) /\ s[m].owner = s[p].owner => m = p
                    /\ Kept(t, p + 1, q) \/ Succeeds(t, p + 1, r)
    <2>1. p + 1 \in DOMAIN t /\ t[p + 1] = s[p]
      BY <1>1
    <2>2. /\ Fits(s[p])
          /\ Returns(s, p) =>
               /\ InProgress(s[p].owner, n, d)
               /\ \A m \in DOMAIN t : Returns(t, m) /\ t[m].owner = s[p].owner => m = p + 1
               /\ Kept(t, p + 1, q) \/ Succeeds(t, p + 1, r)
      BY <1>2, <2>1 DEF Sound, Returns
    <2>3. ASSUME Returns(s, p), NEW m \in DOMAIN s, Returns(s, m), s[m].owner = s[p].owner
          PROVE  m = p
      <3>1. m + 1 = p + 1
        BY <1>1, <2>2, <2>3 DEF Returns
      <3> QED
        BY <1>1, <3>1
    <2> QED
      BY <2>2, <2>3
  <1>6. Sound(s, fr = Success, q, n, d)
    BY <1>3, <1>4, <1>5 DEF Sound
  <1>7. ASSUME Emits(fr) PROVE Clear(fr.sup, fr.dst, s)
    <2> SUFFICES ASSUME NEW p \in DOMAIN s, Returns(s, p), SameEnds(s[p].owner, fr.sup, fr.dst)
                 PROVE  Succeeds(s, p, FALSE)
      BY DEF Clear
    <2>1. fr # Success
      BY <1>7 DEF Emits, ResultFrame, Success
    <2> QED
      BY <1>3, <1>4, <1>5, <1>7, <2>1
  <1>8. Fits(fr)
    BY <1>1, <1>2 DEF Sound
  <1> QED
    BY <1>6, <1>7, <1>8

LEMMA SoundEmpty == \A r, q, n, d : Sound(<<>>, r, q, n, d)
  BY DEF Sound

LEMMA ClearPush ==
  ASSUME NEW s \in Seq(Frame), NEW fr \in Frame, ~IsReturn(fr), NEW sup, NEW dst,
         Clear(sup, dst, s)
  PROVE  Clear(sup, dst, Push(fr, s))
  <1> DEFINE t == Push(fr, s)
  <1>1. /\ t[1] = fr /\ DOMAIN s = 1..Len(s) /\ Len(s) \in Nat
        /\ DOMAIN t = 1..(Len(s) + 1)
        /\ \A p \in DOMAIN t : p \in Nat /\ (p = 1 \/ (p - 1 \in DOMAIN s /\ t[p] = s[p - 1]))
    BY PushFields
  <1> HIDE DEF t
  <1> SUFFICES ASSUME NEW p \in DOMAIN t, Returns(t, p), SameEnds(t[p].owner, sup, dst)
               PROVE  Succeeds(t, p, FALSE)
    BY DEF Clear, t
  <1>2. p # 1
    BY <1>1 DEF Returns
  <1>3. p - 1 \in DOMAIN s /\ t[p] = s[p - 1]
    BY <1>1, <1>2
  <1>4. CASE call[s[p - 1].owner].move
    BY <1>3, <1>4 DEF Succeeds
  <1>5. CASE ~call[s[p - 1].owner].move
    <2>1. p - 1 # 1 /\ s[p - 1 - 1] = Success
      BY <1>3, <1>5 DEF Clear, Returns, Succeeds
    <2>2. p - 1 \in DOMAIN t
      BY <1>1, <1>3
    <2>3. t[p - 1] = s[p - 1 - 1]
      BY <1>1, <2>1, <2>2
    <2> QED
      BY <1>2, <2>1, <2>3 DEF Succeeds
  <1> QED
    BY <1>4, <1>5

(***************************************************************************)
(* What a caller gets instead of the result of the call above it.          *)
(***************************************************************************)
LEMMA SoundYielding ==
  ASSUME NEW s \in Seq(Frame), NEW ok \in BOOLEAN, NEW r, NEW q, NEW n \in Nat, NEW d,
         Sound(s, ok, q, n, d)
  PROVE  Sound(Yielding(ok, s), r, q, n, d)
  <1>1. CASE s # <<>> /\ Head(s).kind \in {"CopyFolder returns", "CopyFileMessage returns"}
    <2>1. Yielding(ok, s) = Push(ResultFrame(ok), s)
      BY <1>1 DEF Yielding
    <2>2. /\ ResultFrame(ok) \in Frame
          /\ Fits(ResultFrame(ok)) /\ ~IsReturn(ResultFrame(ok)) /\ ~Emits(ResultFrame(ok))
      BY FrameTypes DEF ResultFrame, Fits, IsReturn, Emits
    <2>3. (ResultFrame(ok) = Success) = ok
      <3>1. ResultFrame(ok).ok = ok /\ Success.ok = TRUE
        BY DEF ResultFrame, Success
      <3>2. CASE ok = TRUE
        BY <3>2 DEF Success
      <3>3. CASE ok = FALSE
        BY <3>1, <3>3
      <3> QED
        BY <3>2, <3>3
    <2>4. Sound(s, ResultFrame(ok) = Success, q, n, d)
      BY <2>3
    <2> QED
      BY <2>1, <2>2, <2>4, SoundPush
  <1>2. CASE ~(s # <<>> /\ Head(s).kind \in {"CopyFolder returns", "CopyFileMessage returns"})
    <2>1. Yielding(ok, s) = s
      BY <1>2 DEF Yielding
    <2>2. ASSUME NEW p \in DOMAIN s, Returns(s, p) PROVE p # 1
      <3>1. s # <<>> /\ Head(s) = s[1]
        OBVIOUS
      <3> QED
        BY <1>2, <2>2, <3>1 DEF Returns, IsReturn
    <2>3. Sound(s, r, q, n, d)
      BY <2>2 DEF Sound, Succeeds
    <2> QED
      BY <2>1, <2>3
  <1> QED
    BY <1>1, <1>2

LEMMA ClearYielding ==
  ASSUME NEW s \in Seq(Frame), NEW ok \in BOOLEAN, NEW sup, NEW dst, Clear(sup, dst, s)
  PROVE  Clear(sup, dst, Yielding(ok, s))
  <1>1. ResultFrame(ok) \in Frame /\ ~IsReturn(ResultFrame(ok))
    BY FrameTypes DEF ResultFrame, IsReturn
  <1> QED
    BY <1>1, ClearPush DEF Yielding

(***************************************************************************)
(* Sound, of the state that a step leads to.                               *)
(***************************************************************************)
LEMMA SoundNext ==
  ASSUME call' = call, TypeOK',
         Sound(stack', rv', m_copyRequests', issued', sourceDone')
  PROVE  FolderInv'
  <1>1. stack' \in Seq(Frame)
    BY DEF TypeOK
  <1>2. ASSUME stack' # <<>> PROVE Head(stack').kind \notin {"CopyFolder", "destructor"}
    <2>1. 1 \in DOMAIN stack' /\ Head(stack') = stack'[1]
      BY <1>1, <1>2
    <2> QED
      BY <2>1 DEF Sound, Fits
  <1>3. ~Running("destructor")' /\ ~Running("CopyFolder")'
    BY <1>2 DEF Running
  <1>4. Sound(stack, rv, m_copyRequests, issued, sourceDone)'
    BY DEF Sound, Fits, Returns, InProgress, Kept, Succeeds, First, SameEnds, Sources, Dst
  <1> QED
    BY <1>3, <1>4 DEF FolderInv

(***************************************************************************)
(* The call that runs, when it is not CopyFolder or the destructor.        *)
(***************************************************************************)
LEMMA SoundBelow ==
  ASSUME FolderInv, NEW kind, Running(kind), kind \notin {"CopyFolder", "destructor"}
  PROVE  /\ stack = Push(Top, Below) /\ Top \in Frame /\ Below \in Seq(Frame)
         /\ Top.kind = kind
         /\ Sound(Below, Top = Success, m_copyRequests, issued, sourceDone)
         /\ Sound(Below, FALSE, m_copyRequests, issued, sourceDone)
              \/ Top = Success
         /\ Emits(Top) => Clear(Top.sup, Top.dst, Below)
         /\ Fits(Top)
  <1>1. stack \in Seq(Frame) /\ stack # <<>>
    BY DEF FolderInv, TypeOK, Running
  <1>2. stack = Push(Top, Below) /\ Top \in Frame /\ Below \in Seq(Frame)
    BY <1>1 DEF Push, Top, Below
  <1>3. Top.kind = kind
    BY DEF Running, Top
  <1>4. Sound(Push(Top, Below), rv, m_copyRequests, issued, sourceDone)
    BY <1>2, <1>3 DEF FolderInv, Running, Top
  <1>5. /\ Sound(Below, Top = Success, m_copyRequests, issued, sourceDone)
        /\ Emits(Top) => Clear(Top.sup, Top.dst, Below)
        /\ Fits(Top)
    BY <1>2, <1>4, SoundPop
  <1>6. CASE Top # Success
    <2>1. (Top = Success) = FALSE
      BY <1>6
    <2>2. Sound(Below, FALSE, m_copyRequests, issued, sourceDone)
      BY <1>5, <2>1
    <2> QED
      BY <1>2, <1>3, <1>5, <2>2
  <1> QED
    BY <1>2, <1>3, <1>5, <1>6

(***************************************************************************)
(* A step that leaves the queue as it is.                                  *)
(***************************************************************************)
LEMMA SoundQueue ==
  ASSUME FolderInv, NEW s \in Seq(Frame), NEW r, NEW r2, r => r2,
         Sound(s, r, m_copyRequests, issued, sourceDone)
  PROVE  Sound(s, r2, m_copyRequests, issued, sourceDone)
  <1>1. issued \in Nat
    BY MaxRequestsAssumption DEF FolderInv, TypeOK
  <1> QED
    BY <1>1, SoundMono

LEMMA SoundReturns ==
  ASSUME FolderInv, TypeOK', NEW kind, Running(kind),
         kind \notin {"CopyFolder", "destructor", "result"},
         stack' = Below, UNCHANGED <<call, queueVars>>
  PROVE  FolderInv'
  <1>1. Top # Success
    <2>1. Top.kind = kind
      BY SoundBelow
    <2>2. Success.kind = "result"
      BY DEF Success, ResultFrame
    <2> QED
      BY <2>1, <2>2
  <1>2. Below \in Seq(Frame) /\ Sound(Below, FALSE, m_copyRequests, issued, sourceDone)
    BY <1>1, SoundBelow
  <1>3. Sound(Below, rv', m_copyRequests, issued, sourceDone)
    BY <1>2, SoundQueue
  <1> QED
    BY <1>3, SoundNext DEF queueVars

(***************************************************************************)
(* OnCopyCompleted: the completion must not clear a request still needed.  *)
(***************************************************************************)
LEMMA SoundCompletes ==
  ASSUME FolderInv, TypeOK', NEW sup \in Support, NEW dst \in Folder, NEW ok \in BOOLEAN,
         NEW s \in Seq(Frame), OnCopyCompleted(sup, dst, ok, s),
         Sound(s, FALSE, m_copyRequests, issued, sourceDone),
         Clear(sup, dst, s), UNCHANGED <<call, queueVars>>
  PROVE  FolderInv'
  <1> DEFINE fr == NotifyFrame(sup, dst, ok, Cardinality(m_copyRequests))
  <1>1. fr \in Frame
    BY QueueFinite, FrameTypes DEF FolderInv
  <1>2. /\ fr.kind = "NotifyCompletion" /\ fr.sup = sup /\ fr.dst = dst
        /\ (fr = Success) = FALSE
    BY DEF NotifyFrame, Success, ResultFrame
  <1>3. stack' = Push(fr, s)
    BY DEF OnCopyCompleted
  <1> HIDE DEF fr
  <1>4. Fits(fr) /\ ~IsReturn(fr)
    BY <1>2 DEF Fits, IsReturn
  <1>5. Sound(s, fr = Success, m_copyRequests, issued, sourceDone)
    BY <1>2
  <1>6. Sound(stack', rv', m_copyRequests, issued, sourceDone)
    BY <1>1, <1>2, <1>3, <1>4, <1>5, SoundPush
  <1> QED
    BY <1>6, SoundNext DEF queueVars

LEMMA SoundStopped ==
  ASSUME NEW i, NEW ok, NEW s \in Seq(Frame), TellStopped(i, ok, s), NEW r, NEW q, NEW n, NEW d,
         Sound(s, r, q, n, d), Sound(s, FALSE, q, n, d)
  PROVE  Sound(stack', r, q, n, d)
  <1>1. /\ ListenerFrame \in Frame /\ Fits(ListenerFrame)
        /\ ~IsReturn(ListenerFrame) /\ ~Emits(ListenerFrame)
        /\ (ListenerFrame = Success) = FALSE
    BY FrameTypes DEF ListenerFrame, Fits, IsReturn, Emits, Success, ResultFrame
  <1>2. Sound(s, ListenerFrame = Success, q, n, d)
    BY <1>1
  <1>3. Sound(Push(ListenerFrame, s), r, q, n, d)
    BY <1>1, <1>2, SoundPush
  <1> QED
    BY <1>3 DEF TellStopped

(***************************************************************************)
(* A request that leaves the queue, or joins it.                           *)
(***************************************************************************)
LEMMA SoundRemove ==
  ASSUME FolderInv, NEW s \in Seq(Frame), NEW r, NEW i,
         Sound(s, r, m_copyRequests, issued, sourceDone),
         \A p \in DOMAIN s : Returns(s, p) /\ s[p].owner = i => Succeeds(s, p, r)
  PROVE  Sound(s, r, m_copyRequests \ {i}, issued, sourceDone)
  <1>1. issued \in Nat
    BY MaxRequestsAssumption DEF FolderInv, TypeOK
  <1> DEFINE q == m_copyRequests \ {i}
  <1>2. \A k : First(k, m_copyRequests) /\ k # i => First(k, q)
    BY DEF First
  <1> HIDE DEF q
  <1>3. \A p \in DOMAIN s : Returns(s, p) /\ First(s[p].owner, m_copyRequests)
           => First(s[p].owner, q) \/ Succeeds(s, p, r)
    BY <1>2
  <1>4. issued <= issued /\ \A j \in 1..issued : sourceDone[j] \subseteq sourceDone[j]
    BY <1>1
  <1>5. Sound(s, r, q, issued, sourceDone)
    BY <1>1, <1>3, <1>4, SoundMono
  <1> QED
    BY <1>5 DEF q

LEMMA SoundCall ==
  ASSUME FolderInv, TypeOK', NEW s \in Seq(Frame),
         Sound(s, FALSE, m_copyRequests, issued, sourceDone), MakeCall(s)
  PROVE  FolderInv'
  <1>0. PICK i : i = issued + 1
    OBVIOUS
  <1>1. /\ issued \in Nat /\ i \in Id /\ i \in Nat /\ issued <= i
        /\ m_copyRequests \subseteq 1..issued
        /\ sourceDone \in [Id -> SUBSET Nat]
    BY <1>0, MaxRequestsAssumption DEF FolderInv, TypeOK, MakeCall, Id
  <1>2. issued' = i /\ UNCHANGED <<call, rv>>
    BY <1>0 DEF MakeCall
  <1>3. CASE NothingToCopy(i, s)
    <2>1. TellStopped(i, TRUE, s) /\ UNCHANGED <<m_copyRequests, sourceDone>>
      BY <1>3 DEF NothingToCopy
    <2>2. \A r \in BOOLEAN : Sound(s, r, m_copyRequests, i, sourceDone)
      <3> TAKE r \in BOOLEAN
      <3>1. \A j \in 1..issued : sourceDone[j] \subseteq sourceDone[j]
        OBVIOUS
      <3> QED
        BY <1>1, <3>1, SoundMono
    <2>0. rv \in BOOLEAN
      BY DEF FolderInv, TypeOK
    <2>3. Sound(stack', rv, m_copyRequests, i, sourceDone)
      BY <2>0, <2>1, <2>2, SoundStopped
    <2> QED
      BY <1>2, <2>1, <2>3, SoundNext
  <1>4. CASE DoCopy(i, s)
    <2> DEFINE q == m_copyRequests \cup {i}
    <2>1. /\ m_copyRequests' = q
          /\ sourceDone' = [sourceDone EXCEPT ![i] = AddNewCopySource(i)]
          /\ stack' = IF QueueRequest(i) THEN Push(DoNextCopyFrame, s) ELSE s
      BY <1>4 DEF DoCopy
    <2>2. \A j \in 1..issued : sourceDone[j] \subseteq sourceDone'[j]
      BY <1>0, <1>1, <2>1
    <2>3. \A p \in DOMAIN s : Returns(s, p) /\ First(s[p].owner, m_copyRequests)
             => First(s[p].owner, q)
      <3> SUFFICES ASSUME NEW p \in DOMAIN s, Returns(s, p), First(s[p].owner, m_copyRequests)
                   PROVE  First(s[p].owner, q)
        OBVIOUS
      <3>1. s[p].owner \in 1..issued
        BY DEF Sound, InProgress
      <3>2. ~(i < s[p].owner)
        BY <1>0, <1>1, <3>1
      <3> QED
        BY <3>2 DEF First
    <2> HIDE DEF q
    <2>4. \A r \in BOOLEAN : Sound(s, r, q, i, sourceDone')
      BY <1>1, <2>2, <2>3, SoundMono
    <2>5. /\ DoNextCopyFrame \in Frame /\ Fits(DoNextCopyFrame)
          /\ ~IsReturn(DoNextCopyFrame) /\ ~Emits(DoNextCopyFrame)
          /\ (DoNextCopyFrame = Success) = FALSE
      BY FrameTypes DEF DoNextCopyFrame, Fits, IsReturn, Emits, Success, ResultFrame
    <2>6. Sound(s, DoNextCopyFrame = Success, q, i, sourceDone')
      BY <2>4, <2>5
    <2>7. Sound(Push(DoNextCopyFrame, s), rv, q, i, sourceDone')
      BY <2>5, <2>6, SoundPush
    <2>8. Sound(stack', rv, q, i, sourceDone')
      BY <2>1, <2>4, <2>7 DEF FolderInv, TypeOK
    <2> QED
      BY <1>2, <2>1, <2>8, SoundNext
  <1> QED
    BY <1>0, <1>3, <1>4 DEF MakeCall

LEMMA ServiceSound ==
  ASSUME FolderInv, TypeOK',
         \/ ListenerReturns \/ DoNextCopyFindsNone \/ CopyFolderRefuses \/ ResultReturns
         \/ NotifyCompletionEnds \/ Destroy \/ DestructorClears
  PROVE  FolderInv'
  <1>1. CASE ListenerReturns
    BY <1>1, SoundReturns DEF ListenerReturns, Return
  <1>2. CASE DoNextCopyFindsNone
    BY <1>2, SoundReturns DEF DoNextCopyFindsNone, Return
  <1>3. CASE CopyFolderRefuses
    <2>1. /\ stack' = Below /\ rv' = FALSE /\ UNCHANGED <<call, queueVars>>
          /\ Sound(Below, FALSE, m_copyRequests, issued, sourceDone)
      BY <1>3 DEF CopyFolderRefuses, Return, FolderInv
    <2> QED
      BY <2>1, SoundNext DEF queueVars
  <1>4. CASE ResultReturns
    <2>1. Running("result") /\ stack' = Below /\ rv' = Top.ok /\ UNCHANGED <<call, queueVars>>
      BY <1>4 DEF ResultReturns, Return
    <2>2. Below \in Seq(Frame) /\ Sound(Below, Top = Success, m_copyRequests, issued, sourceDone)
      BY <2>1, SoundBelow
    <2>3. Top = Success => Top.ok
      BY DEF Success, ResultFrame
    <2>4. Sound(Below, rv', m_copyRequests, issued, sourceDone)
      BY <2>1, <2>2, <2>3, SoundQueue
    <2> QED
      BY <2>1, <2>4, SoundNext DEF queueVars
  <1>5. CASE NotifyCompletionEnds
    <2>1. /\ Running("NotifyCompletion") /\ stack' = Push(DoNextCopyFrame, Below)
          /\ UNCHANGED <<call, queueVars, rv>>
      BY <1>5 DEF NotifyCompletionEnds
    <2>2. Below \in Seq(Frame) /\ Top.kind = "NotifyCompletion"
      BY <2>1, SoundBelow
    <2>3. Sound(Below, FALSE, m_copyRequests, issued, sourceDone)
      <3>1. Top # Success
        BY <2>2 DEF Success, ResultFrame
      <3> QED
        BY <2>1, <3>1, SoundBelow
    <2>4. /\ DoNextCopyFrame \in Frame /\ Fits(DoNextCopyFrame)
          /\ ~IsReturn(DoNextCopyFrame) /\ ~Emits(DoNextCopyFrame)
          /\ (DoNextCopyFrame = Success) = FALSE
      BY FrameTypes DEF DoNextCopyFrame, Fits, IsReturn, Emits, Success, ResultFrame
    <2>5. Sound(Below, DoNextCopyFrame = Success, m_copyRequests, issued, sourceDone)
      BY <2>3, <2>4
    <2>6. Sound(stack', rv', m_copyRequests, issued, sourceDone)
      BY <2>1, <2>2, <2>4, <2>5, SoundPush
    <2> QED
      BY <2>1, <2>6, SoundNext DEF queueVars
  <1>6. CASE Destroy
    <2>1. stack' = <<DestroyFrame>> /\ DestroyFrame.kind = "destructor"
      BY <1>6 DEF Destroy, DestroyFrame
    <2>2. Below' = <<>> /\ Running("destructor")' /\ ~Running("CopyFolder")'
      BY <2>1 DEF Below, Running
    <2> QED
      BY <2>2 DEF FolderInv
  <1>7. CASE DestructorClears
    <2>1. PICK i \in m_copyRequests : ClearRequest(i, FALSE, stack)
      BY <1>7 DEF DestructorClears
    <2>2. /\ Top \in Frame /\ Top.kind = "destructor" /\ Below = <<>>
          /\ stack = <<Top>>
      <3>1. Running("destructor") /\ stack \in Seq(Frame)
        BY <1>7 DEF DestructorClears, FolderInv, TypeOK
      <3>2. Top \in Frame /\ Top.kind = "destructor" /\ Below = <<>>
        BY <3>1, RunningType DEF FolderInv
      <3>3. stack = <<Head(stack)>> \o Tail(stack)
        BY <3>1 DEF Running
      <3>4. stack = <<Top>> \o <<>>
        BY <3>2, <3>3 DEF Top, Below
      <3>5. <<Top>> \o <<>> = <<Top>>
        BY <3>2
      <3> QED
        BY <3>2, <3>4, <3>5
    <2>3. Top = DestroyFrame
      BY <2>2 DEF Frame, DestroyFrame, DoNextCopyFrame, ListenerFrame
    <2>4. stack' = stack
      BY <2>1, <2>2, <2>3 DEF ClearRequest, TellStopped
    <2>5. Below' = <<>> /\ Running("destructor")' /\ ~Running("CopyFolder")'
      BY <1>7, <2>2, <2>4 DEF DestructorClears, Below, Running
    <2> QED
      BY <2>5 DEF FolderInv
  <1> QED
    BY <1>1, <1>2, <1>3, <1>4, <1>5, <1>6, <1>7

(***************************************************************************)
(* Requests for messages and files complete no request for a folder.       *)
(***************************************************************************)
LEMMA ApartClear ==
  ASSUME FoldersApart, TypeOK, NEW i \in Id, call[i].method # "folders",
         NEW sup \in {call[i].src} \cup {call[i].from[k] : k \in DOMAIN call[i].from},
         NEW s, NEW r, NEW q, NEW d, Sound(s, r, q, issued, d)
  PROVE  Clear(sup, Dst(i), s)
  <1> SUFFICES ASSUME NEW p \in DOMAIN s, Returns(s, p), SameEnds(s[p].owner, sup, Dst(i))
               PROVE  FALSE
    BY DEF Clear
  <1>1. s[p].owner \in 1..issued /\ call[s[p].owner].method = "folders"
    BY DEF Sound, InProgress
  <1>2. s[p].owner \in Id /\ call \in Scripts
    BY <1>1, MaxRequestsAssumption DEF TypeOK, Id
  <1>3. \/ Parent[Dst(i)] # Dst(s[p].owner)
        \/ call[s[p].owner].src \notin {call[i].src} \cup {call[i].from[k] : k \in DOMAIN call[i].from}
    BY <1>1, <1>2 DEF FoldersApart, Dst
  <1> QED
    BY <1>1, <1>3 DEF SameEnds

LEMMA NotifyClearsSound ==
  ASSUME FolderInv, TypeOK', NotifyCompletionClears
  PROVE  FolderInv'
  <1>1. PICK i \in m_copyRequests :
          /\ Clearable(i)
          /\ ClearRequest(i, Top.ok, Push(NotifyFrame(Top.sup, Top.dst, Top.ok, Top.orig - 1), Below))
    BY DEF NotifyCompletionClears
  <1> DEFINE fr == NotifyFrame(Top.sup, Top.dst, Top.ok, Top.orig - 1)
             q == m_copyRequests \ {i}
  <1>2. /\ m_copyRequests' = q
        /\ TellStopped(i, Top.ok, Push(fr, Below))
        /\ UNCHANGED <<call, issued, sourceDone, rv>>
    BY <1>1 DEF ClearRequest, NotifyCompletionClears
  <1>3. Running("NotifyCompletion")
    BY DEF NotifyCompletionClears
  <1>4. Below \in Seq(Frame) /\ Top.kind = "NotifyCompletion"
    BY <1>3, SoundBelow
  <1>5. Top # Success /\ Emits(Top)
    BY <1>4 DEF Success, ResultFrame, Emits
  <1>6. Sound(Below, FALSE, m_copyRequests, issued, sourceDone) /\ Clear(Top.sup, Top.dst, Below)
    BY <1>3, <1>5, SoundBelow
  <1>7. SameEnds(i, Top.sup, Top.dst)
    BY <1>1 DEF Clearable, FindRequest
  <1>8. Sound(Below, FALSE, q, issued, sourceDone)
    BY <1>4, <1>6, <1>7, SoundRemove DEF Clear
  <1>9. /\ fr \in Frame /\ fr.kind = "NotifyCompletion" /\ fr.sup = Top.sup /\ fr.dst = Top.dst
        /\ (fr = Success) = FALSE
    BY <1>1, <1>3, NotifyFrameType DEF FolderInv, NotifyFrame, Success, ResultFrame
  <1> HIDE DEF fr, q
  <1>10. Fits(fr) /\ ~IsReturn(fr) /\ Sound(Below, fr = Success, q, issued, sourceDone)
    BY <1>8, <1>9 DEF Fits, IsReturn
  <1>11. \A r : Sound(Push(fr, Below), r, q, issued, sourceDone)
    BY <1>4, <1>6, <1>9, <1>10, SoundPush
  <1>12. Push(fr, Below) \in Seq(Frame)
    BY <1>4, <1>9, PushFields
  <1>13. Sound(stack', rv, q, issued, sourceDone)
    BY <1>2, <1>11, <1>12, SoundStopped
  <1> QED
    BY <1>2, <1>13, SoundNext

LEMMA MessagesSound ==
  ASSUME FolderInv, TypeOK',
         \/ CopyMessagesFails \/ CopyMessagesErrs \/ InitCopyState
         \/ MaildirCopies \/ MaildirStops
         \/ \E f \in Folder : CopyEnds(f)
  PROVE  FolderInv'
  <1>1. ASSUME Running("CopyMessages")
        PROVE  /\ Below \in Seq(Frame) /\ Top.sup \in Support /\ Top.dst \in Folder
               /\ Sound(Below, FALSE, m_copyRequests, issued, sourceDone)
               /\ Clear(Top.sup, Top.dst, Below)
    <2>1. Top.kind = "CopyMessages"
      BY <1>1, SoundBelow
    <2>2. Top # Success /\ Emits(Top)
      BY <2>1 DEF Success, ResultFrame, Emits
    <2>3. TypeOK
      BY DEF FolderInv
    <2> QED
      BY <1>1, <2>2, <2>3, SoundBelow, TopType
  <1>2. CASE CopyMessagesFails
    <2>1. Running("CopyMessages") /\ UNCHANGED <<call, queueVars>>
      BY <1>2 DEF CopyMessagesFails
    <2>2. PICK s \in {Below, Yielding(TRUE, Below), Yielding(FALSE, Below)} :
            OnCopyCompleted(Top.sup, Top.dst, FALSE, s)
      BY <1>2 DEF CopyMessagesFails
    <2>3. \A ok \in BOOLEAN : Sound(Below, ok, m_copyRequests, issued, sourceDone)
      BY <1>1, <2>1, SoundQueue
    <2>4. \A ok \in BOOLEAN : /\ Yielding(ok, Below) \in Seq(Frame)
                              /\ Sound(Yielding(ok, Below), FALSE, m_copyRequests, issued, sourceDone)
                              /\ Clear(Top.sup, Top.dst, Yielding(ok, Below))
      <3>1. issued \in Nat
        BY MaxRequestsAssumption DEF FolderInv, TypeOK
      <3> QED
        BY <1>1, <2>1, <2>3, <3>1, SoundYielding, ClearYielding, YieldingType
    <2>5. /\ s \in Seq(Frame) /\ Clear(Top.sup, Top.dst, s)
          /\ Sound(s, FALSE, m_copyRequests, issued, sourceDone)
      BY <1>1, <2>1, <2>4
    <2> QED
      BY <1>1, <2>1, <2>2, <2>5, SoundCompletes
  <1>3. CASE CopyMessagesErrs \/ InitCopyState
    BY <1>3, SoundReturns DEF CopyMessagesErrs, InitCopyState, Return
  <1>4. CASE MaildirCopies
    <2> DEFINE fr == MaildirReturn(Top.owner)
    <2>1. /\ Running("CopyMessages") /\ UNCHANGED <<call, queueVars>>
          /\ OnCopyCompleted(Top.sup, Top.dst, TRUE, Push(fr, Yielding(TRUE, Below)))
      BY <1>4 DEF MaildirCopies
    <2>2. /\ fr \in Frame /\ Fits(fr) /\ ~IsReturn(fr) /\ ~Emits(fr)
          /\ (fr = Success) = FALSE
      <3>1. Top.owner \in Id
        BY <2>1, TopType DEF FolderInv
      <3> QED
        BY <3>1, FrameTypes DEF MaildirReturn, Fits, IsReturn, Emits, Success, ResultFrame
    <2> HIDE DEF fr
    <2>0. issued \in Nat
      BY MaxRequestsAssumption DEF FolderInv, TypeOK
    <2>3. Sound(Below, TRUE, m_copyRequests, issued, sourceDone)
      BY <1>1, <2>1, SoundQueue
    <2>4. /\ Yielding(TRUE, Below) \in Seq(Frame)
          /\ Sound(Yielding(TRUE, Below), FALSE, m_copyRequests, issued, sourceDone)
          /\ Clear(Top.sup, Top.dst, Yielding(TRUE, Below))
      BY <1>1, <2>0, <2>1, <2>3, SoundYielding, ClearYielding, YieldingType
    <2>5. Sound(Yielding(TRUE, Below), fr = Success, m_copyRequests, issued, sourceDone)
      BY <2>2, <2>4
    <2>6. /\ Push(fr, Yielding(TRUE, Below)) \in Seq(Frame)
          /\ Sound(Push(fr, Yielding(TRUE, Below)), FALSE, m_copyRequests, issued, sourceDone)
          /\ Clear(Top.sup, Top.dst, Push(fr, Yielding(TRUE, Below)))
      BY <2>2, <2>4, <2>5, SoundPush, ClearPush, PushFields
    <2> QED
      BY <1>1, <2>1, <2>6, SoundCompletes
  <1>5. CASE MaildirStops
    <2>1. /\ Running("store CopyMessages returns") /\ UNCHANGED <<call, queueVars, rv>>
          /\ TellStopped(Top.owner, TRUE, Below)
      BY <1>5 DEF MaildirStops
    <2>2. Top.kind = "store CopyMessages returns" /\ Below \in Seq(Frame)
      BY <2>1, SoundBelow
    <2>3. Top # Success
      <3>1. Success.kind = "result"
        BY DEF Success, ResultFrame
      <3> QED
        BY <2>2, <3>1
    <2>4. Sound(Below, FALSE, m_copyRequests, issued, sourceDone)
      BY <2>1, <2>3, SoundBelow
    <2>5. Sound(Below, rv, m_copyRequests, issued, sourceDone)
      BY <2>2, <2>4, SoundQueue
    <2>6. Sound(stack', rv, m_copyRequests, issued, sourceDone)
      BY <2>1, <2>2, <2>4, <2>5, SoundStopped
    <2> QED
      BY <2>1, <2>6, SoundNext DEF queueVars
  <1>6. ASSUME NEW f \in Folder, CopyEnds(f) PROVE FolderInv'
    <2>1. PICK ok \in BOOLEAN : StreamEnds(f, ok)
      BY <1>6 DEF CopyEnds
    <2>2. /\ OnCopyCompleted(mCopyState[f].srcSupport, f, ok, <<>>)
          /\ UNCHANGED <<call, queueVars>>
      BY <2>1 DEF StreamEnds
    <2>3. mCopyState[f].srcSupport \in Support
      BY DEF FolderInv, TypeOK
    <2>4. <<>> \in Seq(Frame) /\ Clear(mCopyState[f].srcSupport, f, <<>>)
      BY DEF Clear
    <2> QED
      BY <2>2, <2>3, <2>4, SoundEmpty, SoundCompletes
  <1> QED
    BY <1>2, <1>3, <1>4, <1>5, <1>6

LEMMA FilesSound ==
  ASSUME FoldersApart, FolderInv, TypeOK', CopyFileFails \/ CopyFileCopies \/ CopyFileReturns
  PROVE  FolderInv'
  <1> DEFINE i == Top.owner
  <1>1. /\ Running("CopyFileMessage") \/ Running("CopyFileMessage returns")
        /\ UNCHANGED <<call, queueVars>>
    BY DEF CopyFileFails, CopyFileCopies, CopyFileReturns
  <1>2. i \in Id /\ Below \in Seq(Frame)
    BY <1>1, TopType DEF FolderInv, OwnerKinds
  <1>3. Top.kind \in {"CopyFileMessage", "CopyFileMessage returns"} /\ Fits(Top)
    BY <1>1, SoundBelow
  <1>4. call[i].method # "folders" /\ Top # Success
    <2>1. Success.kind = "result"
      BY DEF Success, ResultFrame
    <2> QED
      BY <1>3, <2>1 DEF Fits
  <1>5. Sound(Below, FALSE, m_copyRequests, issued, sourceDone)
    BY <1>1, <1>4, SoundBelow
  <1>6. Clear(call[i].src, Dst(i), Below)
    BY <1>2, <1>4, <1>5, ApartClear DEF FolderInv
  <1>7. call[i].src \in Support /\ Dst(i) \in Folder /\ issued \in Nat
    BY <1>2, CallFields, MaxRequestsAssumption DEF FolderInv, TypeOK, Dst
  <1>8. ASSUME NEW ok \in BOOLEAN
        PROVE  /\ Yielding(ok, Below) \in Seq(Frame)
               /\ Sound(Yielding(ok, Below), FALSE, m_copyRequests, issued, sourceDone)
               /\ Clear(call[i].src, Dst(i), Yielding(ok, Below))
    <2>1. Sound(Below, ok, m_copyRequests, issued, sourceDone)
      BY <1>2, <1>5, SoundQueue
    <2> QED
      BY <1>2, <1>6, <1>7, <2>1, SoundYielding, ClearYielding, YieldingType
  <1>9. ASSUME NEW s \in {Yielding(TRUE, Below), Yielding(FALSE, Below)}, NEW ok \in BOOLEAN,
               OnCopyCompleted(call[i].src, Dst(i), ok, s)
        PROVE  FolderInv'
    BY <1>1, <1>7, <1>8, <1>9, SoundCompletes
  <1>10. CASE CopyFileFails
    BY <1>9, <1>10 DEF CopyFileFails
  <1>11. CASE CopyFileCopies
    <2>1. CASE Sources(i) = {}
      BY <1>9, <1>11, <2>1 DEF CopyFileCopies
    <2>2. CASE Sources(i) # {}
      <3> DEFINE fr == CopyFileReturn(i)
      <3>1. OnCopyCompleted(call[i].src, Dst(i), TRUE, Push(fr, Below))
        BY <1>11, <2>2 DEF CopyFileCopies
      <3>2. fr \in Frame /\ fr.kind = "CopyFileMessage returns" /\ fr.owner = i
        BY <1>2, FrameTypes DEF CopyFileReturn
      <3>3. Success.kind = "result"
        BY DEF Success, ResultFrame
      <3>4. (fr = Success) = FALSE
        BY <3>2, <3>3
      <3>5. Fits(fr) /\ ~IsReturn(fr) /\ ~Emits(fr)
        BY <1>4, <3>2 DEF Fits, IsReturn, Emits
      <3> HIDE DEF fr
      <3>6. Sound(Below, fr = Success, m_copyRequests, issued, sourceDone)
        BY <1>5, <3>4
      <3>7. /\ Push(fr, Below) \in Seq(Frame)
            /\ Sound(Push(fr, Below), FALSE, m_copyRequests, issued, sourceDone)
            /\ Clear(call[i].src, Dst(i), Push(fr, Below))
        BY <1>2, <1>6, <3>2, <3>5, <3>6, SoundPush, ClearPush, PushFields
      <3> QED
        BY <1>1, <1>7, <3>1, <3>7, SoundCompletes
    <2> QED
      BY <2>1, <2>2
  <1>12. CASE CopyFileReturns
    <2>1. CASE rv /\ Return(TRUE) /\ UNCHANGED mCopyState
      <3>1. Running("CopyFileMessage returns") /\ stack' = Below
        BY <1>12, <2>1 DEF CopyFileReturns, Return
      <3> QED
        BY <1>1, <3>1, SoundReturns
    <2>2. CASE OnCopyCompleted(call[i].src, Dst(i), FALSE, Yielding(FALSE, Below))
      BY <1>9, <2>2
    <2> QED
      BY <1>12, <2>1, <2>2 DEF CopyFileReturns
  <1> QED
    BY <1>10, <1>11, <1>12

(***************************************************************************)
(* CopyFolder: the completion of the folder that was created clears the    *)
(* request only when CopyFolder will return success, or moves the folder.  *)
(***************************************************************************)
LEMMA FolderClear ==
  ASSUME FolderInv, NEW s \in Seq(Frame), s # <<>>, NEW i \in Id,
         Head(s) = CopyFolderReturn(i), First(i, m_copyRequests),
         Sound(s, FALSE, m_copyRequests, issued, sourceDone),
         NEW g \in Folder, Parent[g] = Dst(i),
         NEW ok \in BOOLEAN, ok \/ call[i].move
  PROVE  /\ Yielding(ok, s) \in Seq(Frame)
         /\ Sound(Yielding(ok, s), FALSE, m_copyRequests, issued, sourceDone)
         /\ Clear(call[i].src, g, Yielding(ok, s))
  <1> DEFINE t == Push(ResultFrame(ok), s)
             q == m_copyRequests
  <1>1. IsReturn(Head(s)) /\ Head(s).owner = i
    <2>1. CopyFolderReturn(i).kind = "CopyFolder returns"
      BY DEF CopyFolderReturn
    <2>2. CopyFolderReturn(i).owner = i
      BY DEF CopyFolderReturn
    <2> QED
      BY <2>1, <2>2 DEF IsReturn
  <1>2. Yielding(ok, s) = t
    BY <1>1 DEF Yielding, IsReturn
  <1>3. ResultFrame(ok) \in Frame
    BY FrameTypes
  <1>4. /\ t \in Seq(Frame) /\ t[1] = ResultFrame(ok) /\ DOMAIN s = 1..Len(s) /\ Len(s) \in Nat
        /\ DOMAIN t = 1..(Len(s) + 1)
        /\ \A p \in DOMAIN t : p \in Nat /\ (p = 1 \/ (p - 1 \in DOMAIN s /\ t[p] = s[p - 1]))
    BY <1>3, PushFields
  <1>5. Sound(t, FALSE, q, issued, sourceDone)
    <2>1. issued \in Nat
      BY MaxRequestsAssumption DEF FolderInv, TypeOK
    <2>2. Sound(s, ok, q, issued, sourceDone)
      BY SoundQueue
    <2> QED
      BY <1>2, <2>1, <2>2, SoundYielding
  <1>6. 1 \in DOMAIN s /\ s[1] = Head(s)
    BY <1>4
  <1>7. First(i, q) /\ Returns(s, 1) /\ s[1].owner = i
    BY <1>1, <1>6 DEF Returns
  <1>8. q \subseteq Nat
    BY QueueFinite DEF FolderInv, Id
  <1> HIDE DEF t, q
  <1>9. Clear(call[i].src, g, t)
    <2> SUFFICES ASSUME NEW p \in DOMAIN t, Returns(t, p), SameEnds(t[p].owner, call[i].src, g)
                 PROVE  Succeeds(t, p, FALSE)
      BY DEF Clear
    <2>1. p # 1
      <3>1. ~IsReturn(ResultFrame(ok))
        BY DEF ResultFrame, IsReturn
      <3> QED
        BY <1>4, <3>1 DEF Returns
    <2>2. p - 1 \in DOMAIN s /\ t[p] = s[p - 1] /\ Returns(s, p - 1) /\ p \in Nat
      BY <1>4, <2>1 DEF Returns
    <2>3. CASE p - 1 = 1
      <3>1. t[p].owner = i /\ (ok => t[p - 1] = Success)
        BY <1>4, <1>7, <2>2, <2>3 DEF Success
      <3> QED
        BY <2>1, <3>1 DEF Succeeds
    <2>4. CASE call[t[p].owner].move
      BY <2>4 DEF Succeeds
    <2>5. CASE p - 1 # 1 /\ ~call[t[p].owner].move
      <3>1. /\ call[s[p - 1].owner].method = "folders"
            /\ Kept(s, p - 1, q) \/ Succeeds(s, p - 1, FALSE)
            /\ s[p - 1].owner # i
        BY <1>6, <1>7, <2>2, <2>5 DEF Sound, InProgress, q
      <3>2. Dst(s[p - 1].owner) = Dst(i)
        BY <2>2, <3>1 DEF SameEnds
      <3>3. ~Kept(s, p - 1, q)
        <4> SUFFICES ASSUME First(s[p - 1].owner, q) PROVE FALSE
          BY DEF Kept
        <4>1. s[p - 1].owner \in Nat /\ i \in Nat /\ s[p - 1].owner \in q /\ i \in q
          BY <1>7, <1>8 DEF First
        <4>2. ~(s[p - 1].owner < i) /\ ~(i < s[p - 1].owner)
          BY <1>7, <3>2, <4>1 DEF First
        <4> QED
          BY <3>1, <4>1, <4>2
      <3>4. s[p - 1 - 1] = Success
        BY <2>2, <2>5, <3>1, <3>3 DEF Succeeds
      <3>5. p - 1 \in DOMAIN t
        BY <1>4, <2>2
      <3>6. t[p - 1] = s[p - 1 - 1]
        BY <1>4, <2>5, <3>5
      <3> QED
        BY <2>1, <3>4, <3>6 DEF Succeeds
    <2> QED
      BY <2>3, <2>4, <2>5
  <1> QED
    BY <1>2, <1>4, <1>5, <1>9 DEF q

LEMMA FoldersSound ==
  ASSUME FoldersApart, FolderInv, TypeOK', CopyFolderAcrossServer \/ CopyFolderLocal
  PROVE  FolderInv'
  <1> DEFINE i == Top.owner
  <1>1. Running("CopyFolder") /\ UNCHANGED <<call, queueVars>>
    BY DEF CopyFolderAcrossServer, CopyFolderLocal
  <1>2. i \in Id /\ Below \in Seq(Frame)
    BY <1>1, TopType DEF FolderInv, OwnerKinds
  <1>3. /\ Below # <<>> /\ Head(Below) = CopyFolderReturn(i)
        /\ First(i, m_copyRequests)
        /\ Sound(Below, FALSE, m_copyRequests, issued, sourceDone)
    BY <1>1 DEF FolderInv
  <1>4. call[i].src \in Support
    BY <1>2, CallFields DEF FolderInv, TypeOK
  <1>5. ASSUME NEW g \in Folder, Parent[g] = Dst(i), NEW ok \in BOOLEAN, ok \/ call[i].move
        PROVE  /\ Yielding(ok, Below) \in Seq(Frame)
               /\ Sound(Yielding(ok, Below), FALSE, m_copyRequests, issued, sourceDone)
               /\ Clear(call[i].src, g, Yielding(ok, Below))
    BY <1>2, <1>3, <1>5, FolderClear
  <1>6. CASE CopyFolderLocal
    <2>1. PICK g \in Folder, ok \in BOOLEAN :
            /\ Parent[g] = Dst(i) /\ call[i].move
            /\ OnCopyCompleted(call[i].src, g, TRUE, Yielding(ok, Below))
      BY <1>6 DEF CopyFolderLocal
    <2>2. /\ Yielding(ok, Below) \in Seq(Frame)
          /\ Sound(Yielding(ok, Below), FALSE, m_copyRequests, issued, sourceDone)
          /\ Clear(call[i].src, g, Yielding(ok, Below))
      BY <1>5, <2>1
    <2> QED
      BY <1>1, <1>4, <2>1, <2>2, SoundCompletes
  <1>7. CASE CopyFolderAcrossServer
    <2>1. PICK g \in Folder :
            /\ Parent[g] = Dst(i)
            /\ \/ /\ stack' = Push(CopyMessagesFrame(i, 1, call[i].src, g), Yielding(TRUE, Below))
               \/ OnCopyCompleted(g, g, TRUE, Below)
      BY <1>7 DEF CopyFolderAcrossServer
    <2>2. CASE OnCopyCompleted(g, g, TRUE, Below)
      <3>1. Clear(g, g, Below)
        <4> SUFFICES ASSUME NEW p \in DOMAIN Below, Returns(Below, p),
                            SameEnds(Below[p].owner, g, g)
                     PROVE  FALSE
          BY DEF Clear
        <4>1. Below[p].owner \in 1..issued /\ call[Below[p].owner].method = "folders"
          BY <1>3 DEF Sound, InProgress
        <4>2. Below[p].owner \in Id /\ call \in Scripts
          BY <4>1, MaxRequestsAssumption DEF FolderInv, TypeOK, Id
        <4> QED
          BY <4>1, <4>2 DEF SameEnds, FoldersApart, Dst
      <3>2. g \in Support
        BY DEF Support
      <3> QED
        BY <1>1, <1>2, <1>3, <2>2, <3>1, <3>2, SoundCompletes
    <2>3. CASE stack' = Push(CopyMessagesFrame(i, 1, call[i].src, g), Yielding(TRUE, Below))
      <3> DEFINE fr == CopyMessagesFrame(i, 1, call[i].src, g)
      <3>1. fr \in Frame /\ fr.kind = "CopyMessages" /\ fr.sup = call[i].src /\ fr.dst = g
        BY <1>2, <1>4, FrameTypes DEF CopyMessagesFrame
      <3>2. (fr = Success) = FALSE
        BY <3>1 DEF Success, ResultFrame
      <3>3. stack' = Push(fr, Yielding(TRUE, Below))
        BY <2>3
      <3> HIDE DEF fr
      <3>4. Fits(fr) /\ ~IsReturn(fr)
        BY <3>1 DEF Fits, IsReturn
      <3>5. Sound(Yielding(TRUE, Below), fr = Success, m_copyRequests, issued, sourceDone)
        BY <1>5, <2>1, <3>2
      <3>6. Yielding(TRUE, Below) \in Seq(Frame) /\ Clear(fr.sup, fr.dst, Yielding(TRUE, Below))
        BY <1>5, <2>1, <3>1
      <3>7. Sound(stack', rv', m_copyRequests, issued, sourceDone)
        BY <3>1, <3>3, <3>4, <3>5, <3>6, SoundPush
      <3> QED
        BY <1>1, <3>7, SoundNext DEF queueVars
    <2> QED
      BY <2>1, <2>2, <2>3
  <1> QED
    BY <1>6, <1>7

LEMMA FolderReturnsSound ==
  ASSUME FolderInv, TypeOK', CopyFolderReturns
  PROVE  FolderInv'
  <1> DEFINE i == Top.owner
  <1>1. Running("CopyFolder returns") /\ UNCHANGED call
    BY DEF CopyFolderReturns
  <1>2. CASE stack' = Below /\ UNCHANGED <<queueVars, listenerVars>>
    BY <1>1, <1>2, SoundReturns
  <1>3. CASE ClearRequest(i, FALSE, Yielding(FALSE, Below)) /\ UNCHANGED rv
    <2>1. /\ ClearRequest(i, FALSE, Yielding(FALSE, Below))
          /\ UNCHANGED <<call, rv>>
      BY <1>1, <1>3
    <2>2. /\ m_copyRequests' = m_copyRequests \ {i}
          /\ TellStopped(i, FALSE, Yielding(FALSE, Below))
          /\ UNCHANGED <<issued, sourceDone>>
      BY <2>1 DEF ClearRequest
    <2>3. /\ stack = Push(Top, Below) /\ Top \in Frame /\ Below \in Seq(Frame)
          /\ Top.kind = "CopyFolder returns"
      BY <1>1, SoundBelow
    <2>4. Top # Success
      <3>1. Success.kind = "result"
        BY DEF Success, ResultFrame
      <3> QED
        BY <2>3, <3>1
    <2>5. Sound(Below, FALSE, m_copyRequests, issued, sourceDone)
      BY <1>1, <2>4, SoundBelow
    <2>6. Sound(stack, rv, m_copyRequests, issued, sourceDone)
      BY <1>1 DEF FolderInv, Running
    <2>7. ASSUME NEW p \in DOMAIN Below, Returns(Below, p), Below[p].owner = i PROVE FALSE
      <3>1. /\ stack[1] = Top /\ 1 \in DOMAIN stack /\ p \in Nat /\ p # 0
            /\ p + 1 \in DOMAIN stack /\ stack[p + 1] = Below[p]
        <4>1. Below \in Seq(Frame)
          BY <2>3
        <4>2. p \in Nat /\ p # 0
          BY <4>1
        <4> QED
          BY <2>3, <4>2, PushFields
      <3>2. IsReturn(Top)
        BY <2>3 DEF IsReturn
      <3>3. Returns(stack, 1) /\ Returns(stack, p + 1) /\ stack[1].owner = stack[p + 1].owner
        BY <2>7, <3>1, <3>2 DEF Returns
      <3>4. 1 = p + 1
        BY <2>6, <3>1, <3>3 DEF Sound
      <3> QED
        BY <3>1, <3>4
    <2>8. Sound(Below, FALSE, m_copyRequests \ {i}, issued, sourceDone)
      BY <2>3, <2>5, <2>7, SoundRemove
    <2>9. issued \in Nat
      BY MaxRequestsAssumption DEF FolderInv, TypeOK
    <2>10. /\ Yielding(FALSE, Below) \in Seq(Frame)
           /\ \A r : Sound(Yielding(FALSE, Below), r, m_copyRequests \ {i}, issued, sourceDone)
      BY <2>3, <2>8, <2>9, SoundYielding, YieldingType
    <2>11. Sound(stack', rv, m_copyRequests \ {i}, issued, sourceDone)
      BY <2>2, <2>10, SoundStopped
    <2> QED
      BY <2>1, <2>2, <2>11, SoundNext
  <1> QED
    BY <1>2, <1>3 DEF CopyFolderReturns, Return

(***************************************************************************)
(* DoNextCopy starts the first request of its destination, for one whose   *)
(* folder is not already being copied.                                     *)
(***************************************************************************)
LEMMA FolderStarts ==
  ASSUME FolderInv, NEW i \in m_copyRequests, NextToStart(i), call[i].method = "folders",
         NEW s \in Seq(Frame), Sound(s, FALSE, m_copyRequests, issued, sourceDone),
         NEW d, \A j \in 1..issued : sourceDone[j] \subseteq d[j],
         Sources(i) \subseteq d[i]
  PROVE  /\ First(i, m_copyRequests)
         /\ Sound(Push(CopyFolderReturn(i), s), FALSE, m_copyRequests, issued, d)
  <1> DEFINE fr == CopyFolderReturn(i)
             t == Push(fr, s)
             q == m_copyRequests
  <1>0. TypeOK
    BY DEF FolderInv
  <1>1. i \in Id /\ i \in 1..issued /\ issued \in Nat
    BY <1>0, QueueFinite, MaxRequestsAssumption DEF TypeOK, Id
  <1>2. fr.kind = "CopyFolder returns" /\ fr.owner = i
    BY DEF CopyFolderReturn
  <1>3. fr \in Frame
    BY <1>1, FrameTypes
  <1>4. /\ t[1] = fr /\ DOMAIN s = 1..Len(s) /\ Len(s) \in Nat
        /\ DOMAIN t = 1..(Len(s) + 1)
        /\ \A p \in DOMAIN t : p \in Nat /\ (p = 1 \/ (p - 1 \in DOMAIN s /\ t[p] = s[p - 1]))
    BY <1>3, PushFields
  <1>5. IsReturn(fr) /\ Fits(fr) /\ ~Emits(fr)
    BY <1>2 DEF IsReturn, Fits, Emits
  <1>6. fr # Success
    <2>1. Success.kind = "result"
      BY DEF Success, ResultFrame
    <2> QED
      BY <1>2, <2>1
  <1>7. First(i, q)
    BY FirstOfTarget DEF First, FolderInv
  <1>8. Sound(s, FALSE, q, issued, d)
    <2>1. issued <= issued
      BY <1>1
    <2>2. \A p \in DOMAIN s : Returns(s, p) /\ First(s[p].owner, m_copyRequests)
             => First(s[p].owner, m_copyRequests) \/ Succeeds(s, p, FALSE)
      OBVIOUS
    <2>3. Sound(s, FALSE, m_copyRequests, issued, d)
      BY <1>1, <2>1, <2>2, SoundMono
    <2> QED
      BY <2>3
  <1>9. \A p \in DOMAIN s : Returns(s, p) => s[p].owner # i
    <2> SUFFICES ASSUME NEW p \in DOMAIN s, Returns(s, p), s[p].owner = i PROVE FALSE
      OBVIOUS
    <2>1. Sources(i) \subseteq sourceDone[i]
      BY DEF Sound, InProgress
    <2>2. Sources(i) # {}
      <3>1. call[i].from = <<call[i].src>>
        BY <1>1, CallFields DEF FolderInv, TypeOK
      <3>2. 1 \in Sources(i)
        BY <3>1 DEF Sources
      <3> QED
        BY <3>2
    <2>3. ~Processed(i)
      BY DEF NextToStart, Startable
    <2> QED
      BY <2>1, <2>2, <2>3 DEF Processed, AllSourcesDone
  <1>10. fr.owner = i /\ InProgress(i, issued, d)
    BY <1>1, <1>2 DEF InProgress
  <1> SUFFICES ASSUME NEW p \in DOMAIN t
               PROVE  /\ Fits(t[p])
                      /\ Returns(t, p) =>
                           /\ InProgress(t[p].owner, issued, d)
                           /\ \A m \in DOMAIN t : Returns(t, m) /\ t[m].owner = t[p].owner => m = p
                           /\ Kept(t, p, q) \/ Succeeds(t, p, FALSE)
    BY <1>7 DEF Sound
  <1> HIDE DEF fr, t, q
  <1>11. CASE p = 1
    <2>1. ASSUME NEW m \in DOMAIN t, Returns(t, m), t[m].owner = i PROVE m = 1
      <3> SUFFICES ASSUME m # 1 PROVE FALSE
        OBVIOUS
      <3>1. m - 1 \in DOMAIN s /\ t[m] = s[m - 1]
        BY <1>4
      <3> QED
        BY <1>9, <2>1, <3>1 DEF Returns
    <2>2. 1..(1 - 1) = {}
      OBVIOUS
    <2>3. Kept(t, 1, q)
      BY <1>4, <1>7, <1>10, <2>2 DEF Kept
    <2> QED
      BY <1>4, <1>5, <1>10, <1>11, <2>1, <2>3
  <1>12. CASE p # 1
    <2>0. p - 1 \in DOMAIN s /\ t[p] = s[p - 1] /\ p \in Nat
      BY <1>4, <1>12
    <2>1. p - 1 \in DOMAIN s /\ t[p] = s[p - 1] /\ p \in Nat /\ Fits(s[p - 1])
      BY <1>8, <2>0 DEF Sound
    <2> SUFFICES ASSUME Returns(t, p)
                 PROVE  /\ InProgress(t[p].owner, issued, d)
                        /\ \A m \in DOMAIN t : Returns(t, m) /\ t[m].owner = t[p].owner => m = p
                        /\ Kept(t, p, q) \/ Succeeds(t, p, FALSE)
      BY <2>1
    <2>2. /\ Returns(s, p - 1)
          /\ InProgress(s[p - 1].owner, issued, d)
          /\ \A m \in DOMAIN s : Returns(s, m) /\ s[m].owner = s[p - 1].owner => m = p - 1
          /\ Kept(s, p - 1, q) \/ Succeeds(s, p - 1, FALSE)
      BY <1>8, <2>1 DEF Sound, Returns
    <2>3. ASSUME NEW m \in DOMAIN t, Returns(t, m), t[m].owner = t[p].owner
          PROVE  m = p
      <3>1. m # 1
        BY <1>4, <1>9, <1>10, <2>1, <2>2, <2>3
      <3>2. m - 1 \in DOMAIN s /\ t[m] = s[m - 1] /\ m \in Nat
        BY <1>4, <3>1
      <3>3. m - 1 = p - 1
        BY <2>1, <2>2, <2>3, <3>2 DEF Returns
      <3> QED
        BY <2>1, <3>2, <3>3
    <2>4. Succeeds(s, p - 1, FALSE) => Succeeds(t, p, FALSE)
      <3> SUFFICES ASSUME Succeeds(s, p - 1, FALSE) PROVE Succeeds(t, p, FALSE)
        OBVIOUS
      <3>1. CASE call[s[p - 1].owner].move
        BY <2>1, <3>1 DEF Succeeds
      <3>2. CASE p - 1 # 1 /\ s[p - 1 - 1] = Success
        <4>1. p - 1 \in DOMAIN t
          BY <1>4, <2>1
        <4>2. t[p - 1] = s[p - 1 - 1]
          BY <1>4, <3>2, <4>1
        <4> QED
          BY <1>12, <3>2, <4>2 DEF Succeeds
      <3> QED
        BY <3>1, <3>2 DEF Succeeds
    <2>5. ASSUME Kept(s, p - 1, q)
          PROVE  Kept(t, p, q)
      <3>1. ASSUME NEW m \in 1..(p - 1), Emits(t[m])
            PROVE  ~SameEnds(t[p].owner, t[m].sup, t[m].dst)
        <4>1. m # 1
          BY <1>4, <1>5, <3>1
        <4>2. m \in DOMAIN t /\ m - 1 \in 1..(p - 1 - 1)
          BY <1>4, <2>1, <4>1
        <4>3. t[m] = s[m - 1]
          BY <1>4, <4>1, <4>2
        <4> QED
          BY <2>1, <2>5, <3>1, <4>2, <4>3 DEF Kept
      <3> QED
        BY <2>1, <2>5, <3>1 DEF Kept
    <2> QED
      BY <2>1, <2>2, <2>3, <2>4, <2>5
  <1> QED
    BY <1>11, <1>12

LEMMA DoNextCopySound ==
  ASSUME FoldersApart, FolderInv, TypeOK', DoNextCopyStarts
  PROVE  FolderInv'
  <1>1. PICK i \in m_copyRequests : NextToStart(i) /\ (StartSource(i) \/ StartPlainFile(i))
    BY DEF DoNextCopyStarts
  <1>2. /\ Running("DoNextCopy")
        /\ UNCHANGED <<call, issued, m_copyRequests, rv>>
    BY DEF DoNextCopyStarts
  <1>3. i \in Id /\ issued \in Nat /\ i \in 1..issued
    BY QueueFinite, MaxRequestsAssumption DEF FolderInv, TypeOK
  <1>4. Top.kind = "DoNextCopy" /\ Below \in Seq(Frame)
    BY <1>2, SoundBelow
  <1>5. Sound(Below, FALSE, m_copyRequests, issued, sourceDone)
    <2>1. Top # Success
      BY <1>4 DEF Success, ResultFrame
    <2> QED
      BY <1>2, <2>1, SoundBelow
  <1>6. /\ sourceDone \in [Id -> SUBSET Nat]
        /\ call \in Scripts /\ TypeOK
    BY DEF FolderInv, TypeOK
  <1>7. ASSUME NEW d, \A j \in 1..issued : sourceDone[j] \subseteq d[j]
        PROVE  Sound(Below, FALSE, m_copyRequests, issued, d)
    <2>1. issued <= issued
      BY <1>3
    <2>2. \A p \in DOMAIN Below : Returns(Below, p) /\ First(Below[p].owner, m_copyRequests)
             => First(Below[p].owner, m_copyRequests) \/ Succeeds(Below, p, FALSE)
      OBVIOUS
    <2> QED
      BY <1>3, <1>4, <1>5, <1>7, <2>1, <2>2, SoundMono
  <1>8. ASSUME NEW fr \in Frame, fr.kind # "result", Fits(fr), ~IsReturn(fr),
               Emits(fr) => Clear(fr.sup, fr.dst, Below),
               stack' = Push(fr, Below), \A j \in 1..issued : sourceDone[j] \subseteq sourceDone'[j]
        PROVE  FolderInv'
    <2>1. (fr = Success) = FALSE
      BY <1>8 DEF Success, ResultFrame
    <2>2. Sound(Below, fr = Success, m_copyRequests, issued, sourceDone')
      BY <1>7, <1>8, <2>1
    <2>3. Sound(stack', rv', m_copyRequests, issued, sourceDone')
      BY <1>4, <1>8, <2>2, SoundPush
    <2> QED
      BY <1>2, <2>3, SoundNext
  <1>9. ASSUME stack' = Push(CopyFileMessageFrame(i), Below), call[i].method # "folders",
               \A j \in 1..issued : sourceDone[j] \subseteq sourceDone'[j]
        PROVE  FolderInv'
    <2> DEFINE fr == CopyFileMessageFrame(i)
    <2>1. fr \in Frame /\ fr.kind = "CopyFileMessage" /\ fr.owner = i
      BY <1>3, FrameTypes DEF CopyFileMessageFrame
    <2>2. fr.kind # "result" /\ Fits(fr) /\ ~IsReturn(fr) /\ ~Emits(fr)
      BY <1>9, <2>1 DEF Fits, IsReturn, Emits
    <2> QED
      BY <1>8, <1>9, <2>1, <2>2
  <1>10. CASE StartPlainFile(i)
    <2>1. call[i].method # "folders"
      <3> SUFFICES ASSUME call[i].method = "folders" PROVE FALSE
        OBVIOUS
      <3>1. call[i].from = <<call[i].src>>
        BY <1>3, <1>6, CallFields
      <3>2. 1 \in Sources(i)
        BY <3>1 DEF Sources
      <3> QED
        BY <1>10, <3>2 DEF StartPlainFile
    <2> QED
      BY <1>9, <1>10, <2>1 DEF StartPlainFile
  <1>11. CASE StartSource(i)
    <2>1. PICK k \in Sources(i) :
            /\ sourceDone' = [sourceDone EXCEPT ![i] = @ \cup {k}]
            /\ CASE call[i].method = "messages" ->
                      stack' = Push(CopyMessagesFrame(i, k, call[i].from[k], Dst(i)), Below)
                 [] call[i].method = "folders" ->
                      stack' = Push(CopyFolderFrame(i), Push(CopyFolderReturn(i), Below))
                 [] call[i].method = "files" ->
                      stack' = Push(CopyFileMessageFrame(i), Below)
      BY <1>11 DEF StartSource
    <2>2. \A j \in 1..issued : sourceDone[j] \subseteq sourceDone'[j]
      <3>1. \A j \in Id : sourceDone[j] \subseteq sourceDone'[j]
        BY <1>3, <1>6, <2>1
      <3>2. 1..issued \subseteq Id
        BY MaxRequestsAssumption DEF FolderInv, TypeOK, Id
      <3> QED
        BY <3>1, <3>2
    <2>3. CASE call[i].method = "files"
      BY <1>9, <2>1, <2>2, <2>3
    <2>4. CASE call[i].method = "messages"
      <3> DEFINE fr == CopyMessagesFrame(i, k, call[i].from[k], Dst(i))
      <3>1. k \in DOMAIN call[i].from
        BY <2>1 DEF Sources
      <3>2. call[i].from[k] \in Support /\ k \in Nat /\ Dst(i) \in Folder
        BY <1>3, <1>6, SourcesType, CallFields DEF Dst
      <3>3. /\ fr \in Frame /\ fr.kind = "CopyMessages"
            /\ fr.sup = call[i].from[k] /\ fr.dst = Dst(i)
        BY <1>3, <3>2, FrameTypes DEF CopyMessagesFrame
      <3>4. Clear(call[i].from[k], Dst(i), Below)
        BY <1>3, <1>5, <1>6, <2>4, <3>1, ApartClear
      <3>5. stack' = Push(fr, Below)
        BY <2>1, <2>4
      <3> HIDE DEF fr
      <3>6. fr.kind # "result" /\ Fits(fr) /\ ~IsReturn(fr)
        BY <3>3 DEF Fits, IsReturn
      <3> QED
        BY <1>8, <2>2, <3>3, <3>4, <3>5, <3>6
    <2>5. CASE call[i].method = "folders"
      <3> DEFINE s == Push(CopyFolderReturn(i), Below)
      <3>1. stack' = Push(CopyFolderFrame(i), s)
        BY <2>1, <2>5
      <3>2. CopyFolderReturn(i) \in Frame /\ CopyFolderFrame(i) \in Frame
        BY <1>3, FrameTypes
      <3>3. s \in Seq(Frame) /\ s # <<>> /\ Head(s) = CopyFolderReturn(i)
        BY <1>4, <3>2, PushFields
      <3> HIDE DEF s
      <3>4. Top' = CopyFolderFrame(i) /\ Below' = s /\ stack' # <<>>
        BY <3>1, <3>2, <3>3, PushFields DEF Top, Below
      <3>5. CopyFolderFrame(i).kind = "CopyFolder" /\ CopyFolderFrame(i).owner = i
        BY DEF CopyFolderFrame
      <3>6. ~Running("destructor")' /\ Top'.owner = i /\ Running("CopyFolder")'
        BY <3>4, <3>5 DEF Running, Top
      <3>7. Sources(i) \subseteq sourceDone'[i]
        <4>1. call[i].from = <<call[i].src>>
          BY <1>3, <1>6, <2>5, CallFields
        <4>2. Sources(i) \subseteq {1} /\ k = 1
          BY <2>1, <4>1 DEF Sources
        <4> QED
          BY <1>3, <1>6, <2>1, <4>2
      <3>8. First(i, m_copyRequests) /\ Sound(s, FALSE, m_copyRequests, issued, sourceDone')
        BY <1>1, <1>4, <1>5, <2>2, <2>5, <3>7, FolderStarts DEF s
      <3>9. Sound(Below, FALSE, m_copyRequests, issued, sourceDone)'
        BY <1>2, <3>4, <3>8
           DEF Sound, Fits, Returns, InProgress, Kept, Succeeds, First, SameEnds, Sources, Dst
      <3>10. /\ Head(Below') = CopyFolderReturn(Top'.owner) /\ Below' # <<>>
             /\ First(Top.owner, m_copyRequests)'
        BY <1>2, <3>3, <3>4, <3>6, <3>8 DEF First, Dst
      <3> QED
        BY <3>6, <3>9, <3>10 DEF FolderInv, CopyFolderReturn
    <2> QED
      BY <1>3, <1>6, <2>3, <2>4, <2>5, CallFields
  <1> QED
    BY <1>1, <1>10, <1>11

LEMMA TopFirst ==
  ASSUME stack \in Seq(Frame), stack # <<>>
  PROVE  1 \in DOMAIN stack /\ Top = stack[1]
  BY DEF Top

LEMMA FolderStep ==
  ASSUME FoldersApart, FolderInv, [Next]_vars
  PROVE  FolderInv'
  <1>1. TypeOK'
    BY NextTypeOK DEF FolderInv
  <1>2. CASE UserCall
    <2>1. <<>> \in Seq(Frame)
      OBVIOUS
    <2> QED
      BY <1>1, <1>2, <2>1, SoundEmpty, SoundCall DEF UserCall
  <1>3. CASE ListenerCalls
    <2>1. Running("OnStopCopy") /\ MakeCall(stack)
      BY <1>3 DEF ListenerCalls
    <2>2. /\ Top.kind = "OnStopCopy" /\ Below \in Seq(Frame) /\ Top \in Frame
          /\ stack = Push(Top, Below) /\ Fits(Top)
          /\ Sound(Below, Top = Success, m_copyRequests, issued, sourceDone)
      BY <2>1, SoundBelow
    <2>3. ~IsReturn(Top) /\ ~Emits(Top)
      BY <2>2 DEF IsReturn, Emits
    <2>4. Sound(stack, FALSE, m_copyRequests, issued, sourceDone) /\ stack \in Seq(Frame)
      BY <2>2, <2>3, SoundPush, PushType
    <2> QED
      BY <1>1, <2>1, <2>4, SoundCall
  <1>4. CASE \/ ListenerReturns \/ DoNextCopyFindsNone \/ CopyFolderRefuses \/ ResultReturns
             \/ NotifyCompletionEnds \/ Destroy \/ DestructorClears
    BY <1>1, <1>4, ServiceSound
  <1>5. CASE NotifyCompletionClears
    BY <1>1, <1>5, NotifyClearsSound
  <1>6. CASE \/ CopyMessagesFails \/ CopyMessagesErrs \/ InitCopyState
             \/ MaildirCopies \/ MaildirStops
             \/ \E f \in Folder : CopyEnds(f)
    BY <1>1, <1>6, MessagesSound
  <1>7. CASE CopyFileFails \/ CopyFileCopies \/ CopyFileReturns
    BY <1>1, <1>7, FilesSound
  <1>8. CASE CopyFolderAcrossServer \/ CopyFolderLocal
    BY <1>1, <1>8, FoldersSound
  <1>9. CASE CopyFolderReturns
    BY <1>1, <1>9, FolderReturnsSound
  <1>10. CASE DoNextCopyStarts
    BY <1>1, <1>10, DoNextCopySound
  <1>11. CASE UNCHANGED vars
    <2>1. UNCHANGED <<call, m_copyRequests, issued, sourceDone, stack, rv>>
      BY <1>11 DEF vars, queueVars
    <2>2. Top' = Top /\ Below' = Below /\ \A kind : Running(kind)' <=> Running(kind)
      BY <2>1 DEF Running, Top, Below
    <2>3. CASE ~Running("destructor") /\ ~Running("CopyFolder")
      BY <1>1, <2>1, <2>3, SoundNext DEF FolderInv
    <2>4. CASE Running("destructor")
      <3>1. ~Running("CopyFolder")
        BY <2>4 DEF Running
      <3> QED
        BY <1>1, <2>2, <2>4, <3>1 DEF FolderInv
    <2>5. CASE Running("CopyFolder")
      <3>1. ~Running("destructor")
        BY <2>5 DEF Running
      <3>2. Sound(Below, FALSE, m_copyRequests, issued, sourceDone)'
            <=> Sound(Below, FALSE, m_copyRequests, issued, sourceDone)
        BY <2>1, <2>2
           DEF Sound, Fits, Returns, InProgress, Kept, Succeeds, First, SameEnds, Sources, Dst
      <3>3. /\ CopyFolderReturn(Top.owner)' = CopyFolderReturn(Top.owner)
            /\ First(Top.owner, m_copyRequests)' <=> First(Top.owner, m_copyRequests)
        BY <2>1, <2>2 DEF First, Dst
      <3> QED
        BY <1>1, <2>2, <2>5, <3>1, <3>2, <3>3 DEF FolderInv
    <2> QED
      BY <2>3, <2>4, <2>5
  <1> QED
    BY <1>2, <1>3, <1>4, <1>5, <1>6, <1>7, <1>8, <1>9, <1>10, <1>11
       DEF Next, Service, LocalFolder

(***************************************************************************)
(* For any mix of messages, files and folders, any stores and whatever     *)
(* listeners do, as long as no copy goes from the folder that a request    *)
(* copies to a child of that request's destination: the request that       *)
(* DoNextCopy clears after an error of CopyFolder is still in the queue,   *)
(* unless it moves the folder.                                             *)
(***************************************************************************)
THEOREM FolderRequestsKept ==
  ASSUME FoldersApart
  PROVE  Spec => []CopyFolderNotFreed
  <1>1. Init => FolderInv
    <2> SUFFICES ASSUME Init PROVE FolderInv
      OBVIOUS
    <2>1. TypeOK /\ stack = <<>>
      BY InitTypeOK DEF Init
    <2> QED
      BY <2>1, SoundEmpty DEF FolderInv, Running
  <1>2. FolderInv /\ [Next]_vars => FolderInv'
    BY FolderStep
  <1>3. FolderInv => CopyFolderNotFreed
    <2> SUFFICES ASSUME FolderInv, Running("CopyFolder returns"), ~rv, ~call[Top.owner].move
                 PROVE  Top.owner \in m_copyRequests
      BY DEF CopyFolderNotFreed
    <2>1. /\ Sound(stack, rv, m_copyRequests, issued, sourceDone)
          /\ IsReturn(Top)
      BY DEF FolderInv, Running, Top, IsReturn
    <2>2. stack \in Seq(Frame) /\ stack # <<>>
      BY DEF FolderInv, TypeOK, Running
    <2>3. 1 \in DOMAIN stack /\ Top = stack[1]
      BY <2>2, TopFirst
    <2> QED
      BY <2>1, <2>3 DEF Sound, Returns, Kept, Succeeds, First
  <1> QED
    BY <1>1, <1>2, <1>3, PTL DEF Spec
=============================================================================
