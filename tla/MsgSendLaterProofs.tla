-------------------------- MODULE MsgSendLaterProofs --------------------------
(***************************************************************************)
(* Proofs about MsgSendLater for every set of messages, every kind of      *)
(* failure and any number of sessions and exits.                           *)
(***************************************************************************)
EXTENDS MsgSendLater, FiniteSetTheorems, SequenceTheorems, TLAPS

(***************************************************************************)
(* Below the call that runs there are only those of EndSendMessages whose  *)
(* listeners are being told.                                               *)
(***************************************************************************)
OnlyEnds(s) == \A i \in 1..Len(s) : s[i] = EndSendFrame
Stacked == stack # <<>> => OnlyEnds(Tail(stack))

Typed == TypeOK /\ IsFiniteSet(written) /\ Stacked

(***************************************************************************)
(* A session that waits for a step waits for one, and does not look for    *)
(* its next message meanwhile; without a session there are no messages.    *)
(***************************************************************************)
OneStep ==
  /\ \A p \in pending, q \in pending : p = q
  /\ pending # {} => mSendingMessages /\ ~Running("StartNextMailFileSend")
  /\ Running("StartNextMailFileSend") => mSendingMessages
  /\ ~mSendingMessages => mMessagesToSend = {}

(***************************************************************************)
(* The session goes through messages of the outbox, and mMessage is the    *)
(* one that is being read or sent, which it does not come to again.        *)
(***************************************************************************)
Current ==
  /\ mEnumerator \subseteq outbox
  /\ \A p \in pending :
       /\ p.step # "copy" =>
            /\ mMessage = p.msg
            /\ p.msg \in outbox \cap mMessagesToSend
            /\ p.msg \notin mEnumerator
       /\ p.step = "accepted" => sent[p.msg] > 0

(***************************************************************************)
(* A message in the outbox was sent as often as it was kept there, one     *)
(* time more while its acceptance is not known here.                       *)
(***************************************************************************)
Answers ==
  /\ \A m \in Message : m \notin written => sent[m] = 0
  /\ \A m \in outbox :
       Step("accepted", m) \notin pending => sent[m] <= kept[m]
  /\ SentOnce

(***************************************************************************)
(* The counts speak of the messages the session has come to; the one that  *)
(* is being sent is not counted as sent yet.                               *)
(***************************************************************************)
Done == mMessagesToSend \ mEnumerator
Tried == {m \in Message : \E p \in pending : p.step # "copy" /\ p.msg = m}
Counts ==
  mSendingMessages =>
    /\ mTotalSendCount <= Cardinality(Done)
    /\ mTotalSentSuccessfully <=
         Cardinality({m \in Done \ Tried : sent[m] > 0})

DataInv == OneStep /\ Current /\ Answers /\ NothingLost /\ Counts

-----------------------------------------------------------------------------
(* The calls in progress.                                                  *)
-----------------------------------------------------------------------------
LEMMA Frames ==
  /\ \A ends \in BOOLEAN : StartNextFrame(ends) \in Frame
                           /\ StartNextFrame(ends).kind = "StartNextMailFileSend"
  /\ EndSendFrame \in Frame /\ EndSendFrame.kind = "EndSendMessages"
  /\ ReparsedFrame \in Frame /\ ReparsedFrame.kind = "OnStopRunningUrl"
  BY DEF Frame, StartNextFrame, EndSendFrame, ReparsedFrame

LEMMA PushFacts ==
  ASSUME NEW f \in Frame, NEW s \in Seq(Frame)
  PROVE  /\ Push(f, s) \in Seq(Frame) /\ Push(f, s) # <<>>
         /\ Head(Push(f, s)) = f /\ Tail(Push(f, s)) = s
  <1>1. Push(f, s) = <<f>> \o s /\ <<f>> \in Seq(Frame)
    BY DEF Push
  <1>2. /\ Push(f, s) \in Seq(Frame) /\ Len(Push(f, s)) = 1 + Len(s)
        /\ Push(f, s)[1] = f
        /\ \A i \in 1..Len(s) : Push(f, s)[i + 1] = s[i]
    BY <1>1
  <1> HIDE DEF Push
  <1>3. Push(f, s) # <<>> /\ Head(Push(f, s)) = f
    BY <1>2
  <1>4. /\ Tail(Push(f, s)) \in Seq(Frame) /\ Len(Tail(Push(f, s))) = Len(s)
        /\ \A i \in 1..Len(s) : Tail(Push(f, s))[i] = s[i]
    BY <1>2, <1>3
  <1>5. Tail(Push(f, s)) = s
    BY <1>4, SeqEqual
  <1> QED
    BY <1>2, <1>3, <1>5

LEMMA PopFacts ==
  ASSUME stack \in Seq(Frame), stack # <<>>, Stacked
  PROVE  /\ Top \in Frame /\ Below \in Seq(Frame) /\ OnlyEnds(Below)
         /\ Below # <<>> => Head(Below) = EndSendFrame /\ OnlyEnds(Tail(Below))
  <1>1. Top \in Frame /\ Below \in Seq(Frame) /\ OnlyEnds(Below)
    BY DEF Stacked, Top, Below
  <1>2. ASSUME Below # <<>>
        PROVE  Head(Below) = EndSendFrame /\ OnlyEnds(Tail(Below))
    <2>1. Len(Below) >= 1 /\ Head(Below) = Below[1]
      BY <1>1, <1>2
    <2>2. /\ Tail(Below) \in Seq(Frame) /\ Len(Tail(Below)) = Len(Below) - 1
          /\ \A i \in 1..Len(Tail(Below)) : Tail(Below)[i] = Below[i + 1]
      BY <1>1, <1>2
    <2>3. \A i \in 1..Len(Tail(Below)) : i + 1 \in 1..Len(Below)
      BY <1>1, <2>1, <2>2
    <2> QED
      BY <1>1, <2>1, <2>2, <2>3 DEF OnlyEnds
  <1> QED
    BY <1>1, <1>2

(***************************************************************************)
(* The new stacks of a step: the same, without its top, or with a new top. *)
(***************************************************************************)
LEMMA NewStack ==
  ASSUME stack \in Seq(Frame), Stacked
  PROVE  /\ stack' = stack => stack' \in Seq(Frame) /\ Stacked'
         /\ stack # <<>> /\ stack' = Below =>
              /\ stack' \in Seq(Frame) /\ Stacked'
              /\ ~Running("StartNextMailFileSend")'
         /\ stack' = <<>> =>
              /\ stack' \in Seq(Frame) /\ Stacked'
              /\ ~Running("StartNextMailFileSend")'
         /\ \A f \in Frame, s \in Seq(Frame) :
              OnlyEnds(s) /\ stack' = Push(f, s) =>
                /\ stack' \in Seq(Frame) /\ Stacked'
                /\ (Running("StartNextMailFileSend")'
                     <=> f.kind = "StartNextMailFileSend")
         /\ \A f \in Frame : stack' = <<f>> =>
              /\ stack' \in Seq(Frame) /\ Stacked'
              /\ (Running("StartNextMailFileSend")'
                   <=> f.kind = "StartNextMailFileSend")
  <1>1. stack' = stack => stack' \in Seq(Frame) /\ Stacked'
    BY DEF Stacked, OnlyEnds, EndSendFrame
  <1>2. ASSUME stack # <<>>, stack' = Below
        PROVE  /\ stack' \in Seq(Frame) /\ Stacked'
               /\ ~Running("StartNextMailFileSend")'
    <2>1. /\ Below \in Seq(Frame)
          /\ Below # <<>> => Head(Below) = EndSendFrame /\ OnlyEnds(Tail(Below))
      BY <1>2, PopFacts
    <2> QED
      BY <1>2, <2>1, Frames DEF Stacked, OnlyEnds, Running, EndSendFrame
  <1>3. stack' = <<>> => /\ stack' \in Seq(Frame) /\ Stacked'
                         /\ ~Running("StartNextMailFileSend")'
    BY DEF Stacked, Running
  <1>4. ASSUME NEW f \in Frame, NEW s \in Seq(Frame),
               OnlyEnds(s), stack' = Push(f, s)
        PROVE  /\ stack' \in Seq(Frame) /\ Stacked'
               /\ (Running("StartNextMailFileSend")'
                    <=> f.kind = "StartNextMailFileSend")
    <2>1. /\ stack' \in Seq(Frame) /\ stack' # <<>>
          /\ Head(stack') = f /\ Tail(stack') = s
      BY <1>4, PushFacts
    <2> QED
      BY <1>4, <2>1 DEF Stacked, OnlyEnds, Running, EndSendFrame
  <1>5. ASSUME NEW f \in Frame, stack' = <<f>>
        PROVE  /\ stack' \in Seq(Frame) /\ Stacked'
               /\ (Running("StartNextMailFileSend")'
                    <=> f.kind = "StartNextMailFileSend")
    BY <1>5 DEF Stacked, OnlyEnds, Running
  <1> QED
    BY <1>1, <1>2, <1>3, <1>4, <1>5

-----------------------------------------------------------------------------
(* Types.                                                                  *)
-----------------------------------------------------------------------------
FieldTypes ==
  /\ outbox \subseteq written /\ written \subseteq Message
  /\ mSendingMessages \in BOOLEAN
  /\ mUserInitiated \in BOOLEAN
  /\ mMessagesToSend \subseteq written
  /\ mEnumerator \subseteq mMessagesToSend
  /\ mMessage \in written \cup {NoMessage}
  /\ mTotalSendCount \in Nat /\ mTotalSentSuccessfully \in Nat
  /\ mTimerSet \in BOOLEAN /\ timer \in BOOLEAN
  /\ mShutdownListener \in BOOLEAN
  /\ summary \in {"valid", "stale", "parsing"}
  /\ mReparseListener \in BOOLEAN
  /\ pending \subseteq Steps
  /\ sent \in [Message -> Nat]
  /\ kept \in [Message -> Nat]
  /\ sends \in 0..MaxSends /\ exits \in 0..MaxExits

LEMMA TypesSplit == TypeOK <=> FieldTypes /\ stack \in Seq(Frame)
  BY DEF TypeOK, FieldTypes

(***************************************************************************)
(* InternalSendMessages, on top of calls that only tell listeners.         *)
(***************************************************************************)
LEMMA InternalTypes ==
  ASSUME Typed, NEW s \in Seq(Frame), OnlyEnds(s),
         s = stack \/ (stack # <<>> /\ s = Below),
         NEW userInitiated \in BOOLEAN, InternalSendMessages(userInitiated, s),
         mTimerSet' \in BOOLEAN, timer' \in BOOLEAN, sends' \in 0..MaxSends
  PROVE  Typed'
  <1>1. FieldTypes /\ stack \in Seq(Frame) /\ Stacked /\ IsFiniteSet(written)
    BY TypesSplit DEF Typed
  <1>2. /\ written' = written /\ outbox' = outbox /\ pending' = pending
        /\ sent' = sent /\ kept' = kept /\ exits' = exits
        /\ mShutdownListener' = mShutdownListener
    BY DEF InternalSendMessages, folderVars, dataVars
  <1>3. CASE SendRefused(s) \/ SendPostponed(userInitiated, s)
    <2>1. stack' = s
      BY <1>3 DEF SendRefused, SendPostponed
    <2>2. stack' \in Seq(Frame) /\ Stacked'
      BY <1>1, <2>1, NewStack
    <2>3. FieldTypes'
      BY <1>1, <1>2, <1>3
      DEF FieldTypes, SendRefused, SendPostponed, sessionVars, reparseVars
    <2> QED
      BY <1>1, <1>2, <2>2, <2>3, TypesSplit DEF Typed, TypeOK, FieldTypes
  <1>4. CASE SessionStarts(userInitiated, s)
    <2>1. stack' = Push(StartNextFrame(FALSE), s)
      BY <1>4 DEF SessionStarts
    <2>2. stack' \in Seq(Frame) /\ Stacked'
      BY <1>1, <2>1, NewStack, Frames
    <2>3. FieldTypes'
      BY <1>1, <1>2, <1>4 DEF FieldTypes, SessionStarts, MessagesFor
    <2> QED
      BY <1>1, <1>2, <2>2, <2>3, TypesSplit DEF Typed, TypeOK, FieldTypes
  <1> QED
    BY <1>3, <1>4 DEF InternalSendMessages

(***************************************************************************)
(* Calls of users, of the timer, of listeners, and after a reparse.        *)
(***************************************************************************)
LEMMA SendsTypes ==
  ASSUME Typed,
         \/ UserSends \/ OnStopSendingSends \/ OnStopRunningUrl
         \/ TimerFires /\ ~mSendingMessages
  PROVE  /\ Typed'
         /\ \E userInitiated \in BOOLEAN, s \in Seq(Frame) :
              /\ OnlyEnds(s)
              /\ InternalSendMessages(userInitiated, s)
              /\ s = stack \/ (stack # <<>> /\ s = Below)
  <1>1. /\ FieldTypes /\ stack \in Seq(Frame) /\ Stacked
        /\ <<>> \in Seq(Frame) /\ OnlyEnds(<<>>)
        /\ sends \in 0..MaxSends /\ sends \in Nat
        /\ mTimerSet \in BOOLEAN /\ timer \in BOOLEAN
        /\ mUserInitiated \in BOOLEAN
    BY TypesSplit DEF Typed, FieldTypes, OnlyEnds
  <1>2. CASE UserSends
    <2>1. /\ stack = <<>> /\ InternalSendMessages(TRUE, <<>>)
          /\ sends < MaxSends /\ sends' = sends + 1
          /\ mTimerSet' = mTimerSet /\ timer' = timer
      BY <1>2 DEF UserSends, SendUnsentMessages, timerVars
    <2>2. sends' \in 0..MaxSends
      BY <1>1, <2>1, BoundsAssumption
    <2> QED
      BY <1>1, <2>1, <2>2, InternalTypes
  <1>3. CASE OnStopSendingSends
    <2>1. /\ stack # <<>> /\ Top.kind = "EndSendMessages"
          /\ InternalSendMessages(TRUE, stack)
          /\ sends < MaxSends /\ sends' = sends + 1
          /\ mTimerSet' = mTimerSet /\ timer' = timer
      BY <1>3 DEF OnStopSendingSends, Running, Top, SendUnsentMessages, timerVars
    <2>2. sends' \in 0..MaxSends
      BY <1>1, <2>1, BoundsAssumption
    <2>3. OnlyEnds(stack)
      <3>1. Top = EndSendFrame
        BY <1>1, <2>1, PopFacts DEF Frame, EndSendFrame, ReparsedFrame
      <3>2. OnlyEnds(Tail(stack))
        BY <2>1, <1>1 DEF Stacked
      <3>3. /\ stack[1] = EndSendFrame /\ Len(Tail(stack)) = Len(stack) - 1
            /\ \A i \in 1..Len(Tail(stack)) : Tail(stack)[i] = stack[i + 1]
        BY <1>1, <2>1, <3>1 DEF Top
      <3> SUFFICES ASSUME NEW i \in 1..Len(stack)
                   PROVE  stack[i] = EndSendFrame
        BY DEF OnlyEnds
      <3>4. CASE i # 1
        <4>1. i - 1 \in 1..Len(Tail(stack)) /\ (i - 1) + 1 = i
          BY <1>1, <3>3, <3>4
        <4> QED
          BY <3>2, <3>3, <4>1 DEF OnlyEnds
      <3> QED
        BY <3>3, <3>4
    <2> QED
      BY <1>1, <2>1, <2>2, <2>3, InternalTypes
  <1>4. CASE OnStopRunningUrl
    <2>1. /\ stack # <<>> /\ InternalSendMessages(mUserInitiated, Below)
          /\ sends' = sends /\ mTimerSet' = mTimerSet /\ timer' = timer
      BY <1>4 DEF OnStopRunningUrl, Running, timerVars
    <2>2. Below \in Seq(Frame) /\ OnlyEnds(Below)
      BY <1>1, <2>1, PopFacts
    <2> QED
      BY <1>1, <2>1, <2>2, InternalTypes
  <1>5. CASE TimerFires /\ ~mSendingMessages
    <2>1. /\ stack = <<>> /\ InternalSendMessages(FALSE, <<>>)
          /\ sends' = sends /\ mTimerSet' = FALSE /\ timer' = FALSE
      BY <1>5 DEF TimerFires
    <2> QED
      BY <1>1, <2>1, InternalTypes
  <1> QED
    BY <1>2, <1>3, <1>4, <1>5

(***************************************************************************)
(* What a session does between the steps that end in the event loop.       *)
(***************************************************************************)
LEMMA SessionTypes ==
  ASSUME Typed, NoneLeft \/ OpenFails \/ StartNextMailFileSend \/ StoppedSending
  PROVE  Typed'
  <1>1. FieldTypes /\ stack \in Seq(Frame) /\ Stacked /\ IsFiniteSet(written)
    BY TypesSplit DEF Typed
  <1>2. stack # <<>> /\ written' = written
    BY DEF NoneLeft, OpenFails, StartNextMailFileSend, StoppedSending, Running,
           folderVars
  <1>3. Below \in Seq(Frame) /\ OnlyEnds(Below)
    BY <1>1, <1>2, PopFacts
  <1>4. stack' = Below \/ stack' = Push(EndSendFrame, Below)
    BY DEF NoneLeft, OpenFails, StartNextMailFileSend, StoppedSending,
           EndSendMessages
  <1>5. stack' \in Seq(Frame) /\ Stacked'
    BY <1>1, <1>2, <1>3, <1>4, NewStack, Frames
  <1>6. FieldTypes'
    <2>1. CASE NoneLeft
      BY <1>1, <2>1
      DEF FieldTypes, NoneLeft, EndSendMessages, timerVars, folderVars,
          reparseVars, dataVars
    <2>2. CASE OpenFails
      <3>1. PICK m \in Message :
              /\ m \in mEnumerator /\ mMessage' = m
              /\ \/ mMessagesToSend' = {} /\ mEnumerator' = {}
                    /\ mSendingMessages' = FALSE
                 \/ /\ mEnumerator' = mEnumerator \ {m}
                    /\ UNCHANGED <<mSendingMessages, mMessagesToSend>>
        BY <2>2 DEF OpenFails, TakeNext, EndSendMessages
      <3>2. /\ mTotalSendCount' \in {mTotalSendCount, mTotalSendCount + 1}
            /\ UNCHANGED <<timerVars, folderVars, reparseVars, dataVars,
                           mTotalSentSuccessfully, mShutdownListener, pending,
                           sends, exits>>
        BY <2>2 DEF OpenFails
      <3>3. /\ m \in written /\ mMessage' \in written \cup {NoMessage}
            /\ mTotalSendCount' \in Nat
            /\ mMessagesToSend' \subseteq written
            /\ mEnumerator' \subseteq mMessagesToSend'
            /\ mSendingMessages' \in BOOLEAN
        <4>1. m \in written
          BY <1>1, <3>1 DEF FieldTypes
        <4>2. mTotalSendCount' \in Nat
          BY <1>1, <3>2 DEF FieldTypes
        <4>3. /\ mMessagesToSend' \subseteq written
              /\ mEnumerator' \subseteq mMessagesToSend'
              /\ mSendingMessages' \in BOOLEAN
          BY <1>1, <3>1 DEF FieldTypes
        <4> QED
          BY <3>1, <4>1, <4>2, <4>3
      <3> QED
        BY <1>1, <3>2, <3>3
        DEF FieldTypes, timerVars, folderVars, reparseVars, dataVars
    <2>3. CASE StartNextMailFileSend
      <3>1. PICK m \in Message :
              /\ m \in mEnumerator /\ mMessage' = m
              /\ mEnumerator' = mEnumerator \ {m}
              /\ pending' = pending \cup {Step("stream", m)}
        BY <2>3 DEF StartNextMailFileSend, TakeNext
      <3>2. Step("stream", m) \in Steps
        BY DEF Step, Steps
      <3>3. /\ mTotalSendCount' = mTotalSendCount + 1
            /\ UNCHANGED <<timerVars, folderVars, reparseVars, dataVars,
                           mSendingMessages, mMessagesToSend,
                           mTotalSentSuccessfully, mShutdownListener, sends,
                           exits>>
        BY <2>3 DEF StartNextMailFileSend
      <3> QED
        BY <1>1, <3>1, <3>2, <3>3
        DEF FieldTypes, timerVars, folderVars, reparseVars, dataVars
    <2>4. CASE StoppedSending
      BY <1>1, <2>4
      DEF FieldTypes, StoppedSending, sessionVars, timerVars, folderVars,
          reparseVars, dataVars
    <2> QED
      BY <2>1, <2>2, <2>3, <2>4
  <1> QED
    BY <1>1, <1>2, <1>5, <1>6, TypesSplit DEF Typed, TypeOK, FieldTypes

LEMMA StepEndsTypes ==
  ASSUME Typed, NEW p \in Steps,
         \/ StreamRead(p) \/ StreamFails(p) \/ ServerAccepts(p)
         \/ OnSendStepFinished(p) \/ SendFails(p) \/ OnCopyStepFinished(p)
  PROVE  Typed'
  <1>1. FieldTypes /\ stack \in Seq(Frame) /\ Stacked /\ IsFiniteSet(written)
    BY TypesSplit DEF Typed
  <1>2. /\ p \in pending /\ p.msg \in Message
        /\ Step("send", p.msg) \in Steps /\ Step("accepted", p.msg) \in Steps
        /\ Step("copy", p.msg) \in Steps
    BY DEF StreamRead, StreamFails, ServerAccepts, OnSendStepFinished, SendFails,
           OnCopyStepFinished, Ends, Steps, Step
  <1>3. stack' = stack \/ stack' = <<StartNextFrame(TRUE)>>
    BY DEF StreamRead, StreamFails, ServerAccepts, OnSendStepFinished, SendFails,
           OnCopyStepFinished, GoOn
  <1>4. stack' \in Seq(Frame) /\ Stacked'
    BY <1>1, <1>3, NewStack, Frames
  <1>5. pending' \subseteq Steps /\ written' = written
    BY <1>1, <1>2
    DEF FieldTypes, StreamRead, StreamFails, ServerAccepts, OnSendStepFinished,
        SendFails, OnCopyStepFinished, Follows, GoOn, folderVars
  <1>6. \A n \in {sent, kept} : [n EXCEPT ![p.msg] = @ + 1] \in [Message -> Nat]
    BY <1>1, <1>2 DEF FieldTypes
  <1>7. FieldTypes'
    <2>1. CASE StreamRead(p) \/ StreamFails(p) \/ OnCopyStepFinished(p)
      BY <1>1, <1>5, <2>1
      DEF FieldTypes, StreamRead, StreamFails, OnCopyStepFinished, GoOn,
          sessionVars, timerVars, folderVars, reparseVars, dataVars
    <2>2. CASE ServerAccepts(p)
      <3>1. sent' \in [Message -> Nat]
        BY <1>6, <2>2 DEF ServerAccepts
      <3> QED
        BY <1>1, <1>5, <2>2, <3>1
        DEF FieldTypes, ServerAccepts, sessionVars, timerVars, folderVars,
            reparseVars
    <2>3. CASE SendFails(p)
      <3>1. kept' \in [Message -> Nat]
        BY <1>1, <1>6, <2>3 DEF SendFails, FieldTypes
      <3> QED
        BY <1>1, <1>5, <2>3, <3>1
        DEF FieldTypes, SendFails, GoOn, sessionVars, timerVars, folderVars,
            reparseVars
    <2>4. CASE OnSendStepFinished(p)
      <3>1. kept' \in [Message -> Nat]
        BY <1>1, <1>6, <2>4 DEF OnSendStepFinished, DeleteCurrentMessage, FieldTypes
      <3>2. /\ outbox' \subseteq outbox /\ mMessage' \in {mMessage, NoMessage}
            /\ mTotalSentSuccessfully' = mTotalSentSuccessfully + 1
        BY <2>4 DEF OnSendStepFinished, DeleteCurrentMessage
      <3>3. UNCHANGED <<timerVars, reparseVars, mSendingMessages, mMessagesToSend,
                        mEnumerator, mTotalSendCount, written, sent,
                        mShutdownListener, sends, exits>>
        BY <2>4 DEF OnSendStepFinished
      <3> QED
        BY <1>1, <1>5, <3>1, <3>2, <3>3 DEF FieldTypes, timerVars, reparseVars
    <2> QED
      BY <2>1, <2>2, <2>3, <2>4
  <1> QED
    BY <1>1, <1>4, <1>5, <1>7, TypesSplit DEF Typed, TypeOK, FieldTypes

LEMMA StepTypes ==
  ASSUME Typed, [Next]_vars
  PROVE  Typed'
  <1>1. FieldTypes /\ stack \in Seq(Frame) /\ Stacked /\ IsFiniteSet(written)
    BY TypesSplit DEF Typed
  <1>2. CASE HasUnsentMessages \/ DoShutdownTask \/ QuitApplication
    <2>1. stack' = stack /\ written' = written
      BY <1>2 DEF HasUnsentMessages, DoShutdownTask, QuitApplication, folderVars
    <2>2. stack' \in Seq(Frame) /\ Stacked'
      BY <1>1, <2>1, NewStack
    <2>3. FieldTypes'
      BY <1>1, <1>2
      DEF FieldTypes, HasUnsentMessages, DoShutdownTask, QuitApplication,
          sessionVars, timerVars, folderVars, reparseVars, dataVars
    <2> QED
      BY <1>1, <2>1, <2>2, <2>3, TypesSplit DEF Typed, TypeOK, FieldTypes
  <1>3. CASE Exit
    <2>1. stack' = <<>> /\ written' = written
      BY <1>3 DEF Exit, folderVars
    <2>2. stack' \in Seq(Frame) /\ Stacked'
      BY <1>1, <2>1, NewStack
    <2>3. kept' \in [Message -> Nat]
      BY <1>1, <1>3 DEF FieldTypes, Exit
    <2>4. exits' \in 0..MaxExits
      BY <1>1, <1>3, BoundsAssumption DEF FieldTypes, Exit
    <2>5. FieldTypes'
      BY <1>1, <1>3, <2>3, <2>4 DEF FieldTypes, Exit, folderVars
    <2> QED
      BY <1>1, <2>1, <2>2, <2>5, TypesSplit DEF Typed, TypeOK, FieldTypes
  <1>4. CASE \E m \in Message : OnItemAdded(m)
    <2>1. PICK m \in Message : OnItemAdded(m)
      BY <1>4
    <2>2. stack' = stack /\ written' = written \cup {m}
      BY <2>1 DEF OnItemAdded
    <2>3. stack' \in Seq(Frame) /\ Stacked' /\ IsFiniteSet(written)'
      BY <1>1, <2>2, NewStack, FS_AddElement
    <2>4. FieldTypes'
      BY <1>1, <2>1
      DEF FieldTypes, OnItemAdded, sessionVars, reparseVars, dataVars
    <2> QED
      BY <2>3, <2>4, TypesSplit DEF Typed, TypeOK, FieldTypes
  <1>5. CASE TimerFires /\ mSendingMessages
    <2>1. stack' = stack /\ written' = written
      BY <1>5 DEF TimerFires, folderVars
    <2>2. stack' \in Seq(Frame) /\ Stacked'
      BY <1>1, <2>1, NewStack
    <2>3. FieldTypes'
      BY <1>1, <1>5
      DEF FieldTypes, TimerFires, sessionVars, folderVars, reparseVars, dataVars
    <2> QED
      BY <1>1, <2>1, <2>2, <2>3, TypesSplit DEF Typed, TypeOK, FieldTypes
  <1>6. CASE ReparseEnds
    <2>1. stack' \in {stack, <<>>, <<ReparsedFrame>>} /\ written' = written
      BY <1>6 DEF ReparseEnds, folderVars
    <2>2. stack' \in Seq(Frame) /\ Stacked'
      BY <1>1, <2>1, NewStack, Frames
    <2>3. FieldTypes'
      BY <1>1, <1>6
      DEF FieldTypes, ReparseEnds, sessionVars, timerVars, folderVars, dataVars
    <2> QED
      BY <1>1, <2>1, <2>2, <2>3, TypesSplit DEF Typed, TypeOK, FieldTypes
  <1>7. CASE UNCHANGED vars
    <2>1. stack' \in Seq(Frame) /\ Stacked'
      BY <1>1, <1>7, NewStack DEF vars
    <2>2. FieldTypes' /\ written' = written
      BY <1>1, <1>7
      DEF FieldTypes, vars, sessionVars, timerVars, folderVars, reparseVars,
          dataVars
    <2> QED
      BY <1>1, <2>1, <2>2, TypesSplit DEF Typed, TypeOK, FieldTypes
  <1> QED
    BY <1>2, <1>3, <1>4, <1>5, <1>6, <1>7, SendsTypes, SessionTypes,
       StepEndsTypes
    DEF Next, CallInProgress, StepEnds

LEMMA InitTypes ==
  ASSUME Init
  PROVE  Typed
  <1>1. stack = <<>> /\ stack \in Seq(Frame) /\ Stacked
    BY DEF Init, Stacked
  <1>2. IsFiniteSet(written)
    BY FS_EmptySet DEF Init
  <1>3. FieldTypes
    <2>1. [m \in Message |-> 0] \in [Message -> Nat]
      OBVIOUS
    <2>2. 0 \in 0..MaxSends /\ 0 \in 0..MaxExits
      BY BoundsAssumption
    <2>3. sent \in [Message -> Nat] /\ kept \in [Message -> Nat]
      BY <2>1 DEF Init
    <2> QED
      BY <2>2, <2>3 DEF Init, FieldTypes
  <1> QED
    BY <1>1, <1>2, <1>3, TypesSplit DEF Typed

(***************************************************************************)
(* Types, for any messages and bounds, whatever fails.                     *)
(***************************************************************************)
THEOREM TypeCorrect == Spec => []TypeOK
  <1>1. Init => Typed
    BY InitTypes
  <1>2. Typed /\ [Next]_vars => Typed'
    BY StepTypes
  <1>3. Typed => TypeOK
    BY DEF Typed
  <1> QED
    BY <1>1, <1>2, <1>3, PTL DEF Spec

-----------------------------------------------------------------------------
(* The messages.                                                           *)
-----------------------------------------------------------------------------
Searching == Running("StartNextMailFileSend")

LEMMA StepIs ==
  ASSUME NEW p \in Steps, NEW m \in Message,
         NEW k \in {"stream", "send", "accepted", "copy"}
  PROVE  /\ Step(k, m) \in Steps /\ Step(k, m).step = k /\ Step(k, m).msg = m
         /\ p = Step(k, m) <=> p.step = k /\ p.msg = m
  BY DEF Steps, Step

LEMMA Fields ==
  ASSUME Typed
  PROVE  /\ outbox \subseteq written /\ written \subseteq Message
         /\ mSendingMessages \in BOOLEAN
         /\ mMessagesToSend \subseteq written
         /\ mEnumerator \subseteq mMessagesToSend
         /\ mTotalSendCount \in Nat /\ mTotalSentSuccessfully \in Nat
         /\ pending \subseteq Steps
         /\ sent \in [Message -> Nat] /\ kept \in [Message -> Nat]
         /\ IsFiniteSet(written)
  BY DEF Typed, TypeOK

LEMMA Sizes ==
  ASSUME NEW W, IsFiniteSet(W), NEW A \in SUBSET W, NEW B \in SUBSET A
  PROVE  /\ IsFiniteSet(A) /\ Cardinality(A) \in Nat
         /\ Cardinality(B) \in Nat /\ Cardinality(B) <= Cardinality(A)
         /\ \A m \in A : m \notin B => Cardinality(B) + 1 <= Cardinality(A)
  <1>1. IsFiniteSet(A) /\ Cardinality(A) \in Nat
    BY FS_Subset, FS_CardinalityType
  <1>2. /\ IsFiniteSet(B) /\ Cardinality(B) \in Nat
        /\ Cardinality(B) <= Cardinality(A)
    BY <1>1, FS_Subset, FS_CardinalityType
  <1>3. ASSUME NEW m \in A, m \notin B
        PROVE  Cardinality(B) + 1 <= Cardinality(A)
    <2>1. Cardinality(B \cup {m}) = Cardinality(B) + 1
      BY <1>2, <1>3, FS_AddElement
    <2>2. B \cup {m} \in SUBSET A
      BY <1>3
    <2>3. Cardinality(B \cup {m}) <= Cardinality(A)
      BY <1>1, <2>2, FS_Subset
    <2> QED
      BY <2>1, <2>3
  <1> QED
    BY <1>1, <1>2, <1>3

(***************************************************************************)
(* Steps that leave the session and the messages alone.                    *)
(***************************************************************************)
LEMMA QuietKeeps ==
  ASSUME DataInv, UNCHANGED <<sessionVars, folderVars, dataVars, pending>>,
         Searching' => Searching
  PROVE  DataInv'
  <1>1. /\ UNCHANGED <<mSendingMessages, mMessagesToSend, mEnumerator, mMessage,
                       mTotalSendCount, mTotalSentSuccessfully>>
        /\ UNCHANGED <<outbox, written, sent, kept, pending>>
    BY DEF sessionVars, folderVars, dataVars
  <1>2. OneStep'
    BY <1>1 DEF DataInv, OneStep, Searching
  <1>3. Current' /\ NothingLost'
    BY <1>1 DEF DataInv, Current, NothingLost
  <1>4. Answers'
    BY <1>1 DEF DataInv, Answers, SentOnce, Step
  <1>5. Counts'
    BY <1>1 DEF DataInv, Counts, Done, Tried
  <1> QED
    BY <1>2, <1>3, <1>4, <1>5 DEF DataInv

LEMMA SessionKeeps ==
  ASSUME Typed, Typed', DataInv, NEW userInitiated \in BOOLEAN,
         NEW s \in Seq(Frame), OnlyEnds(s),
         SessionStarts(userInitiated, s),
         UNCHANGED <<folderVars, dataVars, pending>>
  PROVE  DataInv'
  <1>1. /\ ~mSendingMessages /\ mSendingMessages' = TRUE
        /\ mMessagesToSend' = mMessagesToSend \cup MessagesFor(userInitiated)
        /\ mEnumerator' = mMessagesToSend'
        /\ mTotalSentSuccessfully' = 0 /\ mTotalSendCount' = 0
        /\ UNCHANGED <<outbox, written, sent, kept, pending>>
    BY DEF SessionStarts, folderVars, dataVars
  <1>2. pending = {} /\ mMessagesToSend = {}
    BY <1>1 DEF DataInv, OneStep
  <1>3. OneStep' /\ Current'
    BY <1>1, <1>2 DEF OneStep, Current, MessagesFor
  <1>4. Answers' /\ NothingLost'
    BY <1>1 DEF DataInv, Answers, SentOnce, NothingLost, Step
  <1>5. Counts'
    <2>1. Done' = {}
      BY <1>1 DEF Done
    <2>2. {m \in Done \ Tried : sent[m] > 0}' = {}
      BY <2>1
    <2> QED
      BY <1>1, <2>1, <2>2, FS_EmptySet DEF Counts
  <1> QED
    BY <1>3, <1>4, <1>5 DEF DataInv

LEMMA EndKeeps ==
  ASSUME DataInv, Searching, ~Searching',
         mSendingMessages' = FALSE, mMessagesToSend' = {}, mEnumerator' = {},
         UNCHANGED <<folderVars, dataVars, pending>>
  PROVE  DataInv'
  <1>1. UNCHANGED <<outbox, written, sent, kept, pending>>
    BY DEF folderVars, dataVars
  <1>2. pending = {}
    BY DEF DataInv, OneStep, Searching
  <1>3. OneStep' /\ Current' /\ Counts'
    BY <1>1, <1>2 DEF OneStep, Current, Counts, Searching
  <1>4. Answers' /\ NothingLost'
    BY <1>1 DEF DataInv, Answers, SentOnce, NothingLost, Step
  <1> QED
    BY <1>3, <1>4 DEF DataInv

(***************************************************************************)
(* The session comes to message m, and reads it if it can open it.         *)
(***************************************************************************)
LEMMA TakeKeeps ==
  ASSUME Typed, DataInv, Searching, ~Searching', NEW m \in mEnumerator,
         mEnumerator' = mEnumerator \ {m}, mMessage' = m,
         pending' = pending \/ pending' = pending \cup {Step("stream", m)},
         mTotalSendCount' \in {mTotalSendCount, mTotalSendCount + 1},
         UNCHANGED <<mSendingMessages, mMessagesToSend, mTotalSentSuccessfully,
                     folderVars, dataVars>>
  PROVE  DataInv'
  <1>1. /\ outbox \subseteq written /\ written \subseteq Message
        /\ mMessagesToSend \subseteq written
        /\ mEnumerator \subseteq mMessagesToSend
        /\ mTotalSendCount \in Nat /\ mTotalSentSuccessfully \in Nat
        /\ IsFiniteSet(written) /\ sent \in [Message -> Nat]
    BY Fields
  <1>2. UNCHANGED <<outbox, written, sent, kept>>
    BY DEF folderVars, dataVars
  <1>3. pending = {} /\ mSendingMessages /\ m \in Message
    BY <1>1 DEF DataInv, OneStep, Searching
  <1>4. /\ pending' \subseteq {Step("stream", m)}
        /\ Step("stream", m).step = "stream" /\ Step("stream", m).msg = m
    BY <1>3 DEF Step
  <1>5. OneStep'
    BY <1>3, <1>4 DEF OneStep, Searching
  <1>6. Current'
    <2>1. m \in outbox \cap mMessagesToSend /\ m \notin mEnumerator'
      BY <1>1 DEF DataInv, Current
    <2>2. mEnumerator' \subseteq outbox'
      BY <1>2 DEF DataInv, Current
    <2> QED
      BY <1>2, <1>4, <2>1, <2>2 DEF Current
  <1>7. Answers' /\ NothingLost'
    <2>1. \A x \in Message : Step("accepted", x) \notin pending'
                              /\ Step("accepted", x) \notin pending
      BY <1>3, <1>4 DEF Step
    <2> QED
      BY <1>1, <1>2, <2>1 DEF DataInv, Answers, SentOnce, NothingLost, Step
  <1>8. Counts'
    <2> DEFINE B == {x \in Done \ Tried : sent[x] > 0}
    <2>1. /\ m \notin Done /\ Done' = Done \cup {m}
          /\ Done' \in SUBSET written /\ Done \in SUBSET Done'
      BY <1>1 DEF Done
    <2>2. /\ Cardinality(Done) \in Nat /\ Cardinality(Done') \in Nat
          /\ Cardinality(Done) + 1 <= Cardinality(Done')
      BY <1>1, <2>1, Sizes
    <2>3. B' \in SUBSET written /\ B \in SUBSET B'
      <3>1. Tried' \subseteq {m}
        BY <1>4 DEF Tried
      <3> QED
        BY <1>1, <1>2, <2>1, <3>1
    <2>4. /\ Cardinality(B) \in Nat /\ Cardinality(B') \in Nat
          /\ Cardinality(B) <= Cardinality(B')
      BY <1>1, <2>3, Sizes
    <2>5. /\ mTotalSendCount <= Cardinality(Done)
          /\ mTotalSentSuccessfully <= Cardinality(B)
      BY <1>3 DEF DataInv, Counts
    <2>6. mTotalSendCount' <= Cardinality(Done')
      BY <1>1, <2>2, <2>5
    <2>7. mTotalSentSuccessfully' <= Cardinality(B')
      BY <1>1, <2>4, <2>5
    <2> QED
      BY <2>6, <2>7 DEF Counts
  <1> QED
    BY <1>5, <1>6, <1>7, <1>8 DEF DataInv

(***************************************************************************)
(* The step p that a session waits for.                                    *)
(***************************************************************************)
LEMMA Waited ==
  ASSUME Typed, DataInv, NEW p \in Steps, Ends(p)
  PROVE  /\ pending = {p} /\ mSendingMessages /\ ~Searching
         /\ p.msg \in Message
         /\ p.step \in {"stream", "send", "accepted", "copy"}
         /\ p.step # "copy" =>
              /\ mMessage = p.msg /\ p.msg \in outbox /\ p.msg \in Done
              /\ p.msg \notin mEnumerator
         /\ p.step = "accepted" => sent[p.msg] > 0
         /\ Tried = (IF p.step = "copy" THEN {} ELSE {p.msg})
         /\ \A m \in Message :
              Step("accepted", m) \in pending
                <=> p.step = "accepted" /\ p.msg = m
  <1>1. pending = {p} /\ mSendingMessages /\ ~Searching
    BY DEF Ends, DataInv, OneStep, Searching
  <1>2. p.msg \in Message /\ p.step \in {"stream", "send", "accepted", "copy"}
    BY DEF Steps
  <1>3. /\ p.step # "copy" =>
             /\ mMessage = p.msg /\ p.msg \in outbox /\ p.msg \in Done
             /\ p.msg \notin mEnumerator
        /\ p.step = "accepted" => sent[p.msg] > 0
    BY <1>1 DEF DataInv, Current, Done
  <1>4. Tried = (IF p.step = "copy" THEN {} ELSE {p.msg})
    BY <1>1, <1>2 DEF Tried
  <1>5. \A m \in Message : Step("accepted", m) \in pending
                           <=> p.step = "accepted" /\ p.msg = m
    BY <1>1, StepIs
  <1> QED
    BY <1>1, <1>2, <1>3, <1>4, <1>5

(***************************************************************************)
(* The step is over and the session goes on to the next message.           *)
(***************************************************************************)
LEMMA GoOnKeeps ==
  ASSUME Typed, DataInv, NEW p \in Steps, Ends(p), GoOn(p),
         kept' = IF p.step = "accepted" THEN [kept EXCEPT ![p.msg] = @ + 1]
                 ELSE kept,
         UNCHANGED <<sessionVars, folderVars, sent>>
  PROVE  DataInv'
  <1>1. /\ outbox \subseteq written /\ written \subseteq Message
        /\ mMessagesToSend \subseteq written
        /\ mTotalSentSuccessfully \in Nat
        /\ IsFiniteSet(written) /\ sent \in [Message -> Nat]
        /\ kept \in [Message -> Nat]
    BY Fields
  <1>2. /\ UNCHANGED <<mSendingMessages, mMessagesToSend, mEnumerator, mMessage,
                       mTotalSendCount, mTotalSentSuccessfully>>
        /\ UNCHANGED <<outbox, written, sent>>
    BY DEF sessionVars, folderVars
  <1>3. /\ pending = {p} /\ mSendingMessages
        /\ \A m \in Message : Step("accepted", m) \in pending
                              <=> p.step = "accepted" /\ p.msg = m
    BY Waited
  <1>4. pending' = {}
    BY <1>3 DEF GoOn
  <1>5. OneStep' /\ Current' /\ NothingLost'
    BY <1>2, <1>3, <1>4 DEF DataInv, OneStep, Current, NothingLost
  <1>6. Answers'
    <2>1. \A m \in Message :
            kept'[m] = IF p.step = "accepted" /\ m = p.msg THEN kept[m] + 1
                       ELSE kept[m]
      BY <1>1
    <2>2. \A m \in Message : sent'[m] <= 1 + kept'[m]
      BY <1>1, <1>2, <2>1 DEF DataInv, Answers, SentOnce
    <2>3. \A m \in outbox : sent[m] <= kept'[m]
      <3> TAKE m \in outbox
      <3>1. m \in Message /\ sent[m] \in Nat /\ kept[m] \in Nat
        BY <1>1
      <3>2. CASE p.step = "accepted" /\ m = p.msg
        <4>1. sent[m] <= 1 + kept[m]
          BY <3>1 DEF DataInv, Answers, SentOnce
        <4> QED
          BY <2>1, <3>1, <3>2, <4>1
      <3>3. CASE ~(p.step = "accepted" /\ m = p.msg)
        <4>1. sent[m] <= kept[m]
          BY <1>3, <3>1, <3>3 DEF DataInv, Answers
        <4> QED
          BY <2>1, <3>1, <3>3, <4>1
      <3> QED
        BY <3>2, <3>3
    <2> QED
      BY <1>2, <2>2, <2>3 DEF DataInv, Answers, SentOnce
  <1>7. Counts'
    <2> DEFINE B == {x \in Done \ Tried : sent[x] > 0}
    <2>1. Done' = Done /\ Done \in SUBSET written /\ Tried' = {}
      BY <1>1, <1>2, <1>4 DEF Done, Tried
    <2>2. B' \in SUBSET written /\ B \in SUBSET B'
      BY <1>2, <2>1
    <2>3. /\ Cardinality(B) \in Nat /\ Cardinality(B') \in Nat
          /\ Cardinality(B) <= Cardinality(B')
      BY <1>1, <2>2, Sizes
    <2>4. mTotalSendCount <= Cardinality(Done)
          /\ mTotalSentSuccessfully <= Cardinality(B)
      BY <1>3 DEF DataInv, Counts
    <2>5. mTotalSentSuccessfully' <= Cardinality(B')
      BY <1>1, <1>2, <2>3, <2>4
    <2>6. mTotalSendCount' <= Cardinality(Done')
      BY <1>2, <2>1, <2>4
    <2> QED
      BY <2>5, <2>6 DEF Counts
  <1> QED
    BY <1>5, <1>6, <1>7 DEF DataInv

LEMMA ReadKeeps ==
  ASSUME Typed, DataInv, NEW p \in Steps, StreamRead(p)
  PROVE  DataInv'
  <1>1. /\ Ends(p) /\ p.step = "stream" /\ stack' = stack
        /\ pending' = (pending \ {p}) \cup {Step("send", p.msg)}
        /\ UNCHANGED <<mSendingMessages, mMessagesToSend, mEnumerator, mMessage,
                       mTotalSendCount, mTotalSentSuccessfully>>
        /\ UNCHANGED <<outbox, written, sent, kept>>
    BY DEF StreamRead, Follows, sessionVars, folderVars, dataVars
  <1>2. /\ pending = {p} /\ ~Searching /\ p.msg \in Message /\ Tried = {p.msg}
        /\ mSendingMessages
        /\ \A m \in Message : Step("accepted", m) \notin pending
    BY <1>1, Waited
  <1>3. /\ pending' = {Step("send", p.msg)}
        /\ Step("send", p.msg).step = "send" /\ Step("send", p.msg).msg = p.msg
    BY <1>1, <1>2 DEF Step
  <1>4. ~Searching'
    BY <1>1, <1>2 DEF Searching, Running
  <1>5. OneStep'
    BY <1>1, <1>2, <1>3, <1>4 DEF OneStep, Searching
  <1>6. Current' /\ NothingLost'
    BY <1>1, <1>2, <1>3 DEF DataInv, Current, NothingLost
  <1>7. Answers'
    <2>1. \A m \in outbox : m \in Message
      BY Fields
    <2>2. \A m \in outbox : sent[m] <= kept[m]
      BY <1>2, <2>1 DEF DataInv, Answers
    <2> QED
      BY <1>1, <2>2 DEF DataInv, Answers, SentOnce
  <1>8. Counts'
    <2>1. Tried' = Tried
      BY <1>2, <1>3 DEF Tried
    <2> QED
      BY <1>1, <2>1 DEF DataInv, Counts, Done
  <1> QED
    BY <1>5, <1>6, <1>7, <1>8 DEF DataInv

LEMMA AcceptKeeps ==
  ASSUME Typed, DataInv, NEW p \in Steps, ServerAccepts(p)
  PROVE  DataInv'
  <1>1. /\ outbox \subseteq written /\ written \subseteq Message
        /\ mMessagesToSend \subseteq written
        /\ sent \in [Message -> Nat] /\ kept \in [Message -> Nat]
    BY Fields
  <1>2. /\ Ends(p) /\ p.step = "send" /\ stack' = stack
        /\ pending' = (pending \ {p}) \cup {Step("accepted", p.msg)}
        /\ sent' = [sent EXCEPT ![p.msg] = @ + 1]
        /\ UNCHANGED <<mSendingMessages, mMessagesToSend, mEnumerator, mMessage,
                       mTotalSendCount, mTotalSentSuccessfully>>
        /\ UNCHANGED <<outbox, written, kept>>
    BY DEF ServerAccepts, Follows, sessionVars, folderVars
  <1>3. /\ pending = {p} /\ ~Searching /\ p.msg \in Message /\ Tried = {p.msg}
        /\ mSendingMessages /\ p.msg \in outbox
        /\ \A m \in Message : Step("accepted", m) \notin pending
    BY <1>2, Waited
  <1>4. /\ pending' = {Step("accepted", p.msg)}
        /\ Step("accepted", p.msg).step = "accepted"
        /\ Step("accepted", p.msg).msg = p.msg
    BY <1>2, <1>3 DEF Step
  <1>5. ~Searching'
    BY <1>2, <1>3 DEF Searching, Running
  <1>6. \A m \in Message :
          /\ sent[m] \in Nat /\ kept[m] \in Nat
          /\ sent'[m] = IF m = p.msg THEN sent[m] + 1 ELSE sent[m]
    BY <1>1, <1>2
  <1>7. OneStep'
    BY <1>2, <1>3, <1>4, <1>5 DEF OneStep, Searching
  <1>8. Current'
    <2>1. sent'[p.msg] > 0
      BY <1>3, <1>6
    <2> QED
      BY <1>2, <1>3, <1>4, <2>1 DEF DataInv, Current
  <1>9. NothingLost'
    BY <1>1, <1>2, <1>6 DEF DataInv, NothingLost
  <1>10. Answers'
    <2>1. sent[p.msg] <= kept[p.msg]
      BY <1>3 DEF DataInv, Answers
    <2>2. \A m \in Message : sent'[m] <= 1 + kept[m]
      BY <1>6, <2>1 DEF DataInv, Answers, SentOnce
    <2>3. \A m \in Message : m \notin written => sent'[m] = 0
      BY <1>1, <1>3, <1>6 DEF DataInv, Answers
    <2>4. \A m \in outbox :
            Step("accepted", m) \notin pending' => sent'[m] <= kept[m]
      <3> SUFFICES ASSUME NEW m \in outbox, Step("accepted", m) \notin pending'
                   PROVE  sent'[m] <= kept[m]
        OBVIOUS
      <3>1. m # p.msg /\ m \in Message
        BY <1>1, <1>4
      <3>2. sent[m] <= kept[m]
        BY <1>3, <3>1 DEF DataInv, Answers
      <3> QED
        BY <1>6, <3>1, <3>2
    <2> QED
      BY <1>2, <2>2, <2>3, <2>4 DEF Answers, SentOnce, Step
  <1>11. Counts'
    <2>1. Tried' = Tried
      BY <1>3, <1>4 DEF Tried
    <2>2. Done' = Done /\ Done \subseteq Message
      BY <1>1, <1>2 DEF Done
    <2>3. {m \in Done \ Tried : sent[m] > 0}' = {m \in Done \ Tried : sent[m] > 0}
      BY <1>3, <1>6, <2>1, <2>2
    <2> QED
      BY <1>2, <2>2, <2>3 DEF DataInv, Counts
  <1> QED
    BY <1>7, <1>8, <1>9, <1>10, <1>11 DEF DataInv

(***************************************************************************)
(* OnSendStepFinished deletes the message that was accepted, or keeps it.  *)
(***************************************************************************)
LEMMA FinishedKeeps ==
  ASSUME Typed, DataInv, NEW p \in Steps, OnSendStepFinished(p)
  PROVE  DataInv'
  <1>1. /\ outbox \subseteq written /\ written \subseteq Message
        /\ mMessagesToSend \subseteq written
        /\ mTotalSentSuccessfully \in Nat /\ IsFiniteSet(written)
        /\ sent \in [Message -> Nat] /\ kept \in [Message -> Nat]
    BY Fields
  <1>2. /\ Ends(p) /\ p.step = "accepted" /\ stack' = stack
        /\ pending' = (pending \ {p}) \cup {Step("copy", p.msg)}
        /\ mTotalSentSuccessfully' = mTotalSentSuccessfully + 1
        /\ UNCHANGED <<mSendingMessages, mMessagesToSend, mEnumerator,
                       mTotalSendCount, written, sent>>
    BY DEF OnSendStepFinished, Follows
  <1>3. /\ pending = {p} /\ ~Searching /\ p.msg \in Message /\ Tried = {p.msg}
        /\ mSendingMessages /\ p.msg \in outbox /\ mMessage = p.msg
        /\ p.msg \in Done /\ p.msg \notin mEnumerator /\ sent[p.msg] > 0
        /\ \A m \in Message : Step("accepted", m) \in pending <=> m = p.msg
    BY <1>2, Waited
  <1>4. /\ pending' = {Step("copy", p.msg)}
        /\ Step("copy", p.msg).step = "copy"
        /\ \A m \in Message : Step("accepted", m) \notin pending'
    BY <1>2, <1>3 DEF Step
  <1>5. mMessage # NoMessage
    BY <1>3, MessageAssumption
  <1>6. \/ outbox' = outbox \ {p.msg} /\ kept' = kept
        \/ outbox' = outbox /\ kept' = [kept EXCEPT ![p.msg] = @ + 1]
    BY <1>3, <1>5 DEF OnSendStepFinished, DeleteCurrentMessage
  <1>7. OneStep'
    BY <1>2, <1>3, <1>4 DEF OneStep, Searching, Running
  <1>8. Current'
    BY <1>2, <1>3, <1>4, <1>6 DEF DataInv, Current
  <1>9. NothingLost'
    BY <1>2, <1>3, <1>6 DEF DataInv, NothingLost
  <1>10. \A m \in Message :
           /\ sent[m] \in Nat /\ kept[m] \in Nat
           /\ kept'[m] = kept[m] \/ kept'[m] = kept[m] + 1
    BY <1>1, <1>6
  <1>11. Answers'
    <2>1. \A m \in Message : sent[m] <= 1 + kept[m]
      BY DEF DataInv, Answers, SentOnce
    <2>2. \A m \in Message : sent[m] <= 1 + kept'[m]
      BY <1>10, <2>1
    <2>3. \A m \in outbox' : sent[m] <= kept'[m]
      <3> TAKE m \in outbox'
      <3>1. m \in outbox /\ m \in Message
        BY <1>1, <1>6
      <3>2. CASE m = p.msg
        <4>1. kept'[m] = kept[m] + 1
          BY <1>1, <1>6, <3>1, <3>2
        <4> QED
          BY <1>10, <2>1, <3>1, <4>1
      <3>3. CASE m # p.msg
        <4>1. sent[m] <= kept[m]
          BY <1>3, <3>1, <3>3 DEF DataInv, Answers
        <4> QED
          BY <1>10, <3>1, <4>1
      <3> QED
        BY <3>2, <3>3
    <2> QED
      BY <1>2, <2>2, <2>3 DEF DataInv, Answers, SentOnce
  <1>12. Counts'
    <2> DEFINE B == {x \in Done \ Tried : sent[x] > 0}
    <2>1. Tried' = {}
      BY <1>4 DEF Tried
    <2>2. Done' = Done /\ Done \in SUBSET written
      BY <1>1, <1>2 DEF Done
    <2>3. /\ B' \in SUBSET written /\ B \in SUBSET B'
          /\ p.msg \in B' /\ p.msg \notin B
      BY <1>2, <1>3, <2>1, <2>2
    <2>4. /\ Cardinality(B) \in Nat /\ Cardinality(B') \in Nat
          /\ Cardinality(B) + 1 <= Cardinality(B')
      BY <1>1, <2>3, Sizes
    <2>5. mTotalSendCount <= Cardinality(Done)
          /\ mTotalSentSuccessfully <= Cardinality(B)
      BY <1>3 DEF DataInv, Counts
    <2>6. mTotalSentSuccessfully' <= Cardinality(B')
      BY <1>1, <1>2, <2>4, <2>5
    <2>7. mTotalSendCount' <= Cardinality(Done')
      BY <1>2, <2>2, <2>5
    <2> QED
      BY <2>6, <2>7 DEF Counts
  <1> QED
    BY <1>7, <1>8, <1>9, <1>11, <1>12 DEF DataInv

(***************************************************************************)
(* A new message, and an exit while a message is being sent.               *)
(***************************************************************************)
LEMMA AddedKeeps ==
  ASSUME Typed, DataInv, NEW m \in Message, OnItemAdded(m)
  PROVE  DataInv'
  <1>1. /\ outbox \subseteq written /\ written \subseteq Message
        /\ sent \in [Message -> Nat] /\ kept \in [Message -> Nat]
    BY Fields
  <1>2. /\ m \notin written /\ outbox' = outbox \cup {m}
        /\ written' = written \cup {m}
        /\ UNCHANGED <<mSendingMessages, mMessagesToSend, mEnumerator, mMessage,
                       mTotalSendCount, mTotalSentSuccessfully>>
        /\ UNCHANGED <<sent, kept, pending, stack>>
    BY DEF OnItemAdded, sessionVars, dataVars
  <1>3. OneStep' /\ Current' /\ NothingLost' /\ Counts'
    BY <1>2
    DEF DataInv, OneStep, Current, NothingLost, Counts, Running, Done, Tried
  <1>4. sent[m] <= kept[m]
    BY <1>1, <1>2 DEF DataInv, Answers
  <1>5. Answers'
    BY <1>2, <1>4 DEF DataInv, Answers, SentOnce, Step
  <1> QED
    BY <1>3, <1>5 DEF DataInv

LEMMA ExitKeeps ==
  ASSUME Typed, DataInv, Exit
  PROVE  DataInv'
  <1>1. /\ outbox \subseteq written /\ written \subseteq Message
        /\ sent \in [Message -> Nat] /\ kept \in [Message -> Nat]
    BY Fields
  <1>2. /\ mSendingMessages' = FALSE /\ mMessagesToSend' = {}
        /\ mEnumerator' = {} /\ pending' = {} /\ stack' = <<>>
        /\ UNCHANGED <<outbox, written, sent>>
        /\ \A m \in Message :
             kept'[m] = IF Step("accepted", m) \in pending THEN kept[m] + 1
                        ELSE kept[m]
    BY DEF Exit, folderVars
  <1>3. OneStep' /\ Current' /\ NothingLost' /\ Counts'
    BY <1>2 DEF DataInv, OneStep, Current, NothingLost, Counts, Running
  <1>4. Answers'
    <2>1. \A m \in Message :
            /\ sent[m] \in Nat /\ kept[m] \in Nat /\ sent[m] <= 1 + kept[m]
      BY <1>1 DEF DataInv, Answers, SentOnce
    <2>2. \A m \in Message : sent[m] <= 1 + kept'[m]
      BY <1>2, <2>1
    <2>3. \A m \in outbox : sent[m] <= kept'[m]
      <3> TAKE m \in outbox
      <3>1. m \in Message
        BY <1>1
      <3>2. CASE Step("accepted", m) \in pending
        BY <1>2, <2>1, <3>1, <3>2
      <3>3. CASE Step("accepted", m) \notin pending
        <4>1. sent[m] <= kept[m]
          BY <3>3 DEF DataInv, Answers
        <4> QED
          BY <1>2, <3>1, <3>3, <4>1
      <3> QED
        BY <3>2, <3>3
    <2> QED
      BY <1>2, <2>2, <2>3 DEF DataInv, Answers, SentOnce
  <1> QED
    BY <1>3, <1>4 DEF DataInv

LEMMA StepData ==
  ASSUME Typed, DataInv, [Next]_vars
  PROVE  DataInv'
  <1>1. Typed' /\ stack \in Seq(Frame) /\ Stacked
    BY StepTypes DEF Typed, TypeOK
  <1>2. CASE \/ UserSends \/ OnStopSendingSends \/ OnStopRunningUrl
             \/ TimerFires /\ ~mSendingMessages
    <2>1. PICK userInitiated \in BOOLEAN, s \in Seq(Frame) :
            /\ OnlyEnds(s)
            /\ InternalSendMessages(userInitiated, s)
            /\ s = stack \/ (stack # <<>> /\ s = Below)
      BY <1>2, SendsTypes
    <2>2. UNCHANGED <<folderVars, dataVars, pending>>
      BY <2>1 DEF InternalSendMessages
    <2>3. CASE SessionStarts(userInitiated, s)
      BY <1>1, <2>1, <2>2, <2>3, SessionKeeps
    <2>4. CASE SendRefused(s) \/ SendPostponed(userInitiated, s)
      <3>1. stack' = s /\ UNCHANGED sessionVars
        BY <2>4 DEF SendRefused, SendPostponed
      <3>2. Searching' => Searching
        BY <1>1, <2>1, <3>1, NewStack DEF Searching, Running
      <3> QED
        BY <2>2, <3>1, <3>2, QuietKeeps
    <2> QED
      BY <2>1, <2>3, <2>4 DEF InternalSendMessages
  <1>3. CASE \/ HasUnsentMessages \/ DoShutdownTask \/ QuitApplication
             \/ (TimerFires /\ mSendingMessages) \/ UNCHANGED vars
    <2>1. /\ stack' = stack
          /\ UNCHANGED <<sessionVars, folderVars, dataVars, pending>>
      BY <1>3
      DEF HasUnsentMessages, DoShutdownTask, QuitApplication, TimerFires, vars
    <2> QED
      BY <2>1, QuietKeeps DEF Searching, Running
  <1>4. CASE ReparseEnds
    <2>1. /\ stack' \in {stack, <<>>, <<ReparsedFrame>>} /\ stack = <<>>
          /\ UNCHANGED <<sessionVars, folderVars, dataVars, pending>>
      BY <1>4 DEF ReparseEnds
    <2>2. ~Searching'
      BY <2>1, <1>1, NewStack, Frames DEF Searching
    <2> QED
      BY <2>1, <2>2, QuietKeeps
  <1>5. CASE StoppedSending
    <2>1. /\ stack # <<>> /\ stack' = Below
          /\ UNCHANGED <<sessionVars, folderVars, dataVars, pending>>
      BY <1>5 DEF StoppedSending, Running
    <2>2. ~Searching'
      BY <1>1, <2>1, NewStack DEF Searching
    <2> QED
      BY <2>1, <2>2, QuietKeeps
  <1>6. CASE NoneLeft \/ OpenFails \/ StartNextMailFileSend
    <2>1. Searching /\ stack # <<>>
      BY <1>6 DEF NoneLeft, OpenFails, StartNextMailFileSend, Searching, Running
    <2>2. Below \in Seq(Frame) /\ OnlyEnds(Below)
      BY <1>1, <2>1, PopFacts
    <2>3. stack' = Below \/ stack' = Push(EndSendFrame, Below)
      BY <1>6 DEF NoneLeft, OpenFails, StartNextMailFileSend, EndSendMessages
    <2>4. ~Searching'
      BY <1>1, <2>1, <2>2, <2>3, NewStack, Frames DEF Searching
    <2>5. CASE NoneLeft
      BY <2>1, <2>4, <2>5, EndKeeps DEF NoneLeft, EndSendMessages
    <2>6. CASE OpenFails
      <3>1. PICK m \in Message :
              /\ m \in mEnumerator /\ mMessage' = m
              /\ \/ EndSendMessages(Below)
                 \/ /\ mEnumerator' = mEnumerator \ {m}
                    /\ UNCHANGED <<mSendingMessages, mMessagesToSend>>
        BY <2>6 DEF OpenFails, TakeNext
      <3>2. /\ mTotalSendCount' \in {mTotalSendCount, mTotalSendCount + 1}
            /\ UNCHANGED <<folderVars, dataVars, mTotalSentSuccessfully, pending>>
        BY <2>6 DEF OpenFails
      <3>3. CASE EndSendMessages(Below)
        BY <2>1, <2>4, <3>2, <3>3, EndKeeps DEF EndSendMessages
      <3>4. CASE /\ mEnumerator' = mEnumerator \ {m}
                 /\ UNCHANGED <<mSendingMessages, mMessagesToSend>>
        BY <2>1, <2>4, <3>1, <3>2, <3>4, TakeKeeps
      <3> QED
        BY <3>1, <3>3, <3>4
    <2>7. CASE StartNextMailFileSend
      <3>1. PICK m \in Message :
              /\ m \in mEnumerator /\ mMessage' = m
              /\ mEnumerator' = mEnumerator \ {m}
              /\ pending' = pending \cup {Step("stream", m)}
        BY <2>7 DEF StartNextMailFileSend, TakeNext
      <3>2. /\ mTotalSendCount' = mTotalSendCount + 1
            /\ UNCHANGED <<mSendingMessages, mMessagesToSend,
                           mTotalSentSuccessfully, folderVars, dataVars>>
        BY <2>7 DEF StartNextMailFileSend
      <3> QED
        BY <2>1, <2>4, <3>1, <3>2, TakeKeeps
    <2> QED
      BY <1>6, <2>5, <2>6, <2>7
  <1>7. CASE StepEnds
    <2>1. PICK p \in Steps :
            \/ StreamRead(p) \/ StreamFails(p)
            \/ ServerAccepts(p) \/ OnSendStepFinished(p) \/ SendFails(p)
            \/ OnCopyStepFinished(p)
      BY <1>7 DEF StepEnds
    <2>2. CASE StreamFails(p) \/ OnCopyStepFinished(p)
      <3>1. /\ Ends(p) /\ GoOn(p) /\ p.step # "accepted" /\ kept' = kept
            /\ UNCHANGED <<sessionVars, folderVars, sent>>
        BY <2>2 DEF StreamFails, OnCopyStepFinished, dataVars
      <3> QED
        BY <3>1, GoOnKeeps
    <2>3. CASE SendFails(p)
      BY <2>3, GoOnKeeps DEF SendFails
    <2> QED
      BY <2>1, <2>2, <2>3, ReadKeeps, AcceptKeeps, FinishedKeeps
  <1> QED
    BY <1>2, <1>3, <1>4, <1>5, <1>6, <1>7, AddedKeeps, ExitKeeps
    DEF Next, CallInProgress

LEMMA InitData ==
  ASSUME Init
  PROVE  DataInv
  <1>1. \A m \in Message : sent[m] = 0 /\ kept[m] = 0
    BY DEF Init
  <1>2. Answers
    BY <1>1 DEF Init, Answers, SentOnce
  <1> QED
    BY <1>2 DEF Init, DataInv, OneStep, Current, NothingLost, Counts, Running

(***************************************************************************)
(* No message is lost or sent twice without cause, and the counts do not   *)
(* overstate (OnSendStepFinished, EndSendMessages), for any messages,      *)
(* failures, sessions, listeners and exits.                                *)
(***************************************************************************)
THEOREM MessagesAreSafe == Spec => [](NothingLost /\ SentOnce /\ CountsAgree)
  <1>1. Init => Typed /\ DataInv
    BY InitTypes, InitData
  <1>2. Typed /\ DataInv /\ [Next]_vars => (Typed /\ DataInv)'
    BY StepTypes, StepData
  <1>3. Typed /\ DataInv => NothingLost /\ SentOnce /\ CountsAgree
    <2>1. SUFFICES ASSUME Typed, DataInv
                   PROVE  NothingLost /\ SentOnce /\ CountsAgree
      OBVIOUS
    <2>2. CountsAgree
      <3>1. SUFFICES ASSUME mSendingMessages
                     PROVE  /\ mTotalSendCount <= Cardinality(Done)
                            /\ mTotalSentSuccessfully <=
                                 Cardinality({m \in Done : sent[m] > 0})
        BY DEF CountsAgree, Done
      <3> DEFINE B == {m \in Done \ Tried : sent[m] > 0}
                 C == {m \in Done : sent[m] > 0}
      <3>2. /\ C \in SUBSET written /\ B \in SUBSET C /\ IsFiniteSet(written)
            /\ mTotalSentSuccessfully \in Nat
        BY <2>1, Fields DEF Done
      <3>3. /\ Cardinality(B) \in Nat /\ Cardinality(C) \in Nat
            /\ Cardinality(B) <= Cardinality(C)
        BY <3>2, Sizes
      <3>4. /\ mTotalSendCount <= Cardinality(Done)
            /\ mTotalSentSuccessfully <= Cardinality(B)
        BY <2>1, <3>1 DEF DataInv, Counts
      <3> QED
        BY <3>2, <3>3, <3>4
    <2> QED
      BY <2>1, <2>2 DEF DataInv, Answers
  <1> QED
    BY <1>1, <1>2, <1>3, PTL DEF Spec

(***************************************************************************)
(* A session that does not look for its next message waits for a step.     *)
(***************************************************************************)
Served == mSendingMessages /\ ~Searching => pending # {}

LEMMA StepServed ==
  ASSUME Typed, Served, "first" \notin Failures, [Next]_vars
  PROVE  Served'
  <1>1. stack \in Seq(Frame) /\ Stacked
    BY DEF Typed, TypeOK
  <1>2. CASE \/ UserSends \/ OnStopSendingSends \/ OnStopRunningUrl
             \/ TimerFires /\ ~mSendingMessages
    <2>1. PICK userInitiated \in BOOLEAN, s \in Seq(Frame) :
            /\ OnlyEnds(s)
            /\ InternalSendMessages(userInitiated, s)
            /\ s = stack \/ (stack # <<>> /\ s = Below)
      BY <1>2, SendsTypes
    <2>2. ~Searching /\ pending' = pending
      BY <1>2, <2>1
      DEF Searching, Running, UserSends, OnStopSendingSends, OnStopRunningUrl,
          TimerFires, InternalSendMessages
    <2>3. CASE SessionStarts(userInitiated, s)
      <3>1. stack' = Push(StartNextFrame(FALSE), s)
        BY <2>3 DEF SessionStarts
      <3>2. Searching'
        BY <1>1, <2>1, <3>1, NewStack, Frames DEF Searching
      <3> QED
        BY <3>2 DEF Served
    <2>4. CASE SendRefused(s) \/ SendPostponed(userInitiated, s)
      <3>1. mSendingMessages' = mSendingMessages
        BY <2>4 DEF SendRefused, SendPostponed, sessionVars
      <3> QED
        BY <2>2, <3>1 DEF Served
    <2> QED
      BY <2>1, <2>3, <2>4 DEF InternalSendMessages
  <1>3. CASE \/ HasUnsentMessages \/ DoShutdownTask \/ QuitApplication
             \/ (TimerFires /\ mSendingMessages) \/ UNCHANGED vars
             \/ \E m \in Message : OnItemAdded(m)
    <2>1. /\ stack' = stack /\ pending' = pending
          /\ mSendingMessages' = mSendingMessages
      BY <1>3
      DEF HasUnsentMessages, DoShutdownTask, QuitApplication, TimerFires,
          OnItemAdded, vars, sessionVars
    <2> QED
      BY <2>1 DEF Served, Searching, Running
  <1>4. CASE ReparseEnds \/ StoppedSending
    <2>1. /\ ~Searching /\ pending' = pending
          /\ mSendingMessages' = mSendingMessages
      BY <1>4
      DEF ReparseEnds, StoppedSending, Searching, Running, sessionVars
    <2> QED
      BY <2>1 DEF Served
  <1>5. CASE NoneLeft \/ OpenFails \/ StartNextMailFileSend \/ Exit
    <2>1. ~mSendingMessages' \/ pending' # {}
      BY <1>5
      DEF NoneLeft, OpenFails, StartNextMailFileSend, Exit, EndSendMessages
    <2> QED
      BY <2>1 DEF Served
  <1>6. CASE StepEnds
    <2>1. pending' # {} \/ stack' = <<StartNextFrame(TRUE)>>
      BY <1>6
      DEF StepEnds, StreamRead, StreamFails, ServerAccepts, OnSendStepFinished,
          SendFails, OnCopyStepFinished, Follows, GoOn
    <2>2. stack' = <<StartNextFrame(TRUE)>> => Searching'
      BY <1>1, NewStack, Frames DEF Searching
    <2> QED
      BY <2>1, <2>2 DEF Served
  <1> QED
    BY <1>2, <1>3, <1>4, <1>5, <1>6 DEF Next, CallInProgress

(***************************************************************************)
(* A session waits for exactly one step, and a step has its session, if    *)
(* the one message that InternalSendMessages opens itself can be opened    *)
(* (it does not end the session when StartNextMailFileSend fails).         *)
(***************************************************************************)
THEOREM SessionsAreServed ==
  ASSUME "first" \notin Failures
  PROVE  Spec => []StepsAreServed
  <1>1. Init => Typed /\ DataInv /\ Served
    BY InitTypes, InitData DEF Init, Served
  <1>2. Typed /\ DataInv /\ Served /\ [Next]_vars => (Typed /\ DataInv /\ Served)'
    BY StepTypes, StepData, StepServed
  <1>3. Typed /\ DataInv /\ Served => StepsAreServed
    <2>1. SUFFICES ASSUME Typed, DataInv, Served, stack = <<>>
                   PROVE  IF mSendingMessages THEN \E p \in Steps : pending = {p}
                          ELSE pending = {}
      BY DEF StepsAreServed
    <2>2. ~mSendingMessages => pending = {}
      BY <2>1 DEF DataInv, OneStep
    <2>3. ASSUME mSendingMessages
          PROVE  \E p \in Steps : pending = {p}
      <3>1. PICK p : p \in pending
        BY <2>1, <2>3 DEF Served, Searching, Running
      <3>2. p \in Steps /\ pending = {p}
        BY <2>1, <3>1, Fields DEF DataInv, OneStep
      <3> QED
        BY <3>2
    <2> QED
      BY <2>2, <2>3
  <1> QED
    BY <1>1, <1>2, <1>3, PTL DEF Spec

(***************************************************************************)
(* A message is sent again only after it could not be deleted from the     *)
(* outbox, or the answer of the server was lost (OnSendStepFinished), for  *)
(* any messages, failures, sessions and exits.                             *)
(***************************************************************************)
THEOREM SentOnceOnly == Spec => []SentOnce
  BY MessagesAreSafe, PTL

(***************************************************************************)
(* The counts that listeners get (EndSendMessages) never exceed what the   *)
(* session has tried and sent.                                             *)
(***************************************************************************)
THEOREM CountsAreTrue == Spec => []CountsAgree
  BY MessagesAreSafe, PTL
=============================================================================
