----------------------------- MODULE MsgSendLater -----------------------------
(***************************************************************************)
(* Sending of the messages in the unsent messages folder                   *)
(* (mailnews/compose/src/nsMsgSendLater.cpp), with sending in background.  *)
(*                                                                         *)
(* A session takes the messages one by one.  Each is streamed from the     *)
(* folder, sent, deleted from the folder and copied to the sent folder;    *)
(* the stream, the send and the copy end in the event loop, and "pending"  *)
(* holds those that will.  "stack" holds the calls in progress, innermost  *)
(* first, because listeners are told that a session stopped before the     *)
(* call that stopped it has finished, and may start another.               *)
(*                                                                         *)
(* Definitions named Faulty... are wrong variants of the one after them,   *)
(* kept to see that the properties notice the fault.                       *)
(***************************************************************************)
EXTENDS Naturals, Sequences, FiniteSets

CONSTANTS
  Message,       \* the messages users write
  NoMessage,     \* a null mMessage
  Background,    \* those not marked Queued: to be sent without asking the user
  Failures,      \* what may fail, see below
  ListenersSend, \* may listeners call SendUnsentMessages from OnStopSending?
  MaxSends,      \* bound on the calls of SendUnsentMessages
  MaxExits       \* bound on the times the program exits or crashes

(***************************************************************************)
(* The program is offline when it should send ("offline"); a message       *)
(* cannot be opened ("first" if it is the first of the session, "open"     *)
(* otherwise), read or handed over ("read"), sent ("send"), or deleted     *)
(* ("delete").  A copy that fails goes on like one that succeeds.          *)
(***************************************************************************)
ASSUME FailuresAssumption == Failures \subseteq {"offline", "first", "open", "read", "send", "delete"}
ASSUME MessageAssumption == NoMessage \notin Message /\ Background \subseteq Message
ASSUME BoundsAssumption == MaxSends \in Nat /\ MaxExits \in Nat

VARIABLES
  outbox,                  \* the messages in mMessageFolder
  mSendingMessages,        \* is a session in progress?
  mUserInitiated,          \* the kind of session that waits for a reparse
  mMessagesToSend,         \* the messages of the session
  mEnumerator,             \* those it has not come to yet
  mMessage,                \* the one it is at
  mTotalSendCount, mTotalSentSuccessfully,
  mTimerSet,
  timer,                   \* is the timer running?
  mShutdownListener,       \* does shutdown wait for the session?
  summary,                 \* of mMessageFolder: valid, stale or parsing
  mReparseListener,        \* will nsMsgSendLater hear that parsing is over?
  pending,                 \* the steps that end in the event loop
  stack,                   \* the calls in progress
  written,                 \* the messages that were put in the folder so far
  sent,                    \* how often a server accepted each message
  kept,                    \* how often one stayed in the folder after that
  sends, exits             \* counters for the bounds

sessionVars == <<mSendingMessages, mMessagesToSend, mEnumerator, mMessage,
                 mTotalSendCount, mTotalSentSuccessfully>>
timerVars == <<mTimerSet, timer>>
folderVars == <<outbox, written>>
reparseVars == <<mUserInitiated, summary, mReparseListener>>
dataVars == <<sent, kept>>
vars == <<sessionVars, timerVars, folderVars, reparseVars, dataVars,
          mShutdownListener, pending, stack, sends, exits>>

-----------------------------------------------------------------------------
StartNextFrame(ends) == [kind |-> "StartNextMailFileSend", ends |-> ends]
EndSendFrame == [kind |-> "EndSendMessages"]
ReparsedFrame == [kind |-> "OnStopRunningUrl"]

Running(kind) == stack # <<>> /\ Head(stack).kind = kind
Top == Head(stack)
Below == Tail(stack)
Push(f, s) == <<f>> \o s

Step(s, m) == [step |-> s, msg |-> m]

(***************************************************************************)
(* InternalSendMessages, called by the user, by a listener, by the timer   *)
(* or when a reparse that it asked for has ended.  "s" is what runs on     *)
(* after it.  It is refused when offline or while a session is in          *)
(* progress, and postponed while the summary of the folder is not valid.   *)
(***************************************************************************)
MessagesFor(userInitiated) == IF userInitiated THEN outbox ELSE outbox \cap Background

SendRefused(s) ==
  /\ mSendingMessages \/ "offline" \in Failures
  /\ stack' = s
  /\ UNCHANGED <<sessionVars, reparseVars>>

FaultySendPostponed(userInitiated, s) ==
  /\ ~mSendingMessages
  /\ summary # "valid"
  /\ mUserInitiated' = userInitiated
  /\ summary' = "parsing"
  /\ mReparseListener' = TRUE
  /\ stack' = s
  /\ mSendingMessages' = TRUE
  /\ UNCHANGED <<mMessagesToSend, mEnumerator, mMessage, mTotalSendCount,
                 mTotalSentSuccessfully>>

SendPostponed(userInitiated, s) ==
  /\ ~mSendingMessages
  /\ summary # "valid"
  /\ mUserInitiated' = userInitiated
  /\ summary' = "parsing"
  /\ mReparseListener' = TRUE
  /\ stack' = s
  /\ UNCHANGED sessionVars

FaultySessionStarts(userInitiated, s) ==
  /\ ~mSendingMessages
  /\ summary = "valid"
  /\ mUserInitiated' = userInitiated
  /\ mMessagesToSend' = mMessagesToSend \cup MessagesFor(userInitiated)
  /\ mEnumerator' = mMessagesToSend'
  /\ mSendingMessages' = TRUE
  /\ stack' = Push(StartNextFrame(FALSE), s)
  /\ UNCHANGED <<mMessage, mTotalSendCount, mTotalSentSuccessfully, summary,
                 mReparseListener>>

SessionStarts(userInitiated, s) ==
  /\ ~mSendingMessages
  /\ summary = "valid"
  /\ mUserInitiated' = userInitiated
  /\ mMessagesToSend' = mMessagesToSend \cup MessagesFor(userInitiated)
  /\ mEnumerator' = mMessagesToSend'
  /\ mSendingMessages' = TRUE
  /\ mTotalSentSuccessfully' = 0
  /\ mTotalSendCount' = 0
  /\ stack' = Push(StartNextFrame(FALSE), s)
  /\ UNCHANGED <<mMessage, summary, mReparseListener>>

InternalSendMessages(userInitiated, s) ==
  /\ \/ SendRefused(s)
     \/ SendPostponed(userInitiated, s)
     \/ SessionStarts(userInitiated, s)
  /\ UNCHANGED <<folderVars, dataVars, mShutdownListener, pending, exits>>

SendUnsentMessages(s) ==
  /\ sends < MaxSends
  /\ sends' = sends + 1
  /\ InternalSendMessages(TRUE, s)
  /\ UNCHANGED timerVars

UserSends == stack = <<>> /\ SendUnsentMessages(<<>>)

(***************************************************************************)
(* A message is put in the folder: OnItemAdded starts the timer.           *)
(***************************************************************************)
OnItemAdded(m) ==
  /\ stack = <<>>
  /\ m \notin written
  /\ written' = written \cup {m}
  /\ outbox' = outbox \cup {m}
  /\ mTimerSet' = TRUE
  /\ timer' = (mTimerSet => timer)
  /\ UNCHANGED <<sessionVars, reparseVars, dataVars, mShutdownListener,
                 pending, stack, sends, exits>>

TimerFires ==   \* Observe
  /\ stack = <<>>
  /\ timer
  /\ timer' = FALSE
  /\ mTimerSet' = FALSE
  /\ IF mSendingMessages
       THEN UNCHANGED <<sessionVars, reparseVars, folderVars, dataVars,
                        mShutdownListener, pending, stack, exits>>
       ELSE InternalSendMessages(FALSE, <<>>)
  /\ UNCHANGED sends

(***************************************************************************)
(* HasUnsentMessages asks for the database too, without a listener, and    *)
(* thereby takes the place of one that waits for the reparse.              *)
(***************************************************************************)
HasUnsentMessages ==
  /\ stack = <<>>
  /\ summary # "valid"
  /\ summary' = "parsing"
  /\ mReparseListener' = FALSE
  /\ UNCHANGED <<sessionVars, timerVars, folderVars, dataVars, mUserInitiated,
                 mShutdownListener, pending, stack, sends, exits>>

ReparseEnds ==   \* with success or failure
  /\ stack = <<>>
  /\ summary = "parsing"
  /\ mReparseListener' = FALSE
  /\ \/ summary' = "stale" /\ UNCHANGED stack
     \/ /\ summary' = "valid"
        /\ stack' = IF mReparseListener THEN <<ReparsedFrame>> ELSE <<>>
  /\ UNCHANGED <<sessionVars, timerVars, folderVars, dataVars, mUserInitiated,
                 mShutdownListener, pending, sends, exits>>

OnStopRunningUrl ==
  /\ Running("OnStopRunningUrl")
  /\ InternalSendMessages(mUserInitiated, Below)
  /\ UNCHANGED <<timerVars, sends>>

-----------------------------------------------------------------------------
(***************************************************************************)
(* EndSendMessages resets the session and tells the listeners; what it     *)
(* does after that is StoppedSending.                                      *)
(***************************************************************************)
FaultyMessagesKept(s) ==
  /\ mSendingMessages' = FALSE
  /\ mEnumerator' = {}
  /\ stack' = Push(EndSendFrame, s)
  /\ UNCHANGED mMessagesToSend

FaultyEnumeratorKept(s) ==
  /\ mSendingMessages' = FALSE
  /\ mMessagesToSend' = {}
  /\ stack' = Push(EndSendFrame, s)
  /\ UNCHANGED mEnumerator

EndSendMessages(s) ==
  /\ mSendingMessages' = FALSE
  /\ mMessagesToSend' = {}
  /\ mEnumerator' = {}
  /\ stack' = Push(EndSendFrame, s)

(***************************************************************************)
(* StartNextMailFileSend.  Its caller ends the session if it fails, except *)
(* InternalSendMessages, which returns the error.                          *)
(***************************************************************************)
NoneLeft ==
  /\ Running("StartNextMailFileSend")
  /\ mEnumerator = {}
  /\ EndSendMessages(Below)
  /\ UNCHANGED <<timerVars, folderVars, reparseVars, dataVars, mMessage,
                 mTotalSendCount, mTotalSentSuccessfully, mShutdownListener, pending,
                 sends, exits>>

TakeNext(m) ==
  /\ m \in mEnumerator
  /\ mMessage' = m

OpenFails ==
  /\ Running("StartNextMailFileSend")
  /\ (IF Top.ends THEN "open" ELSE "first") \in Failures
  /\ \E m \in Message :
       /\ TakeNext(m)
       /\ IF Top.ends
            THEN EndSendMessages(Below)
            ELSE /\ mEnumerator' = mEnumerator \ {m}
                 /\ stack' = Below
                 /\ UNCHANGED <<mSendingMessages, mMessagesToSend>>
  /\ mTotalSendCount' \in {mTotalSendCount, mTotalSendCount + 1}
  /\ UNCHANGED <<timerVars, folderVars, reparseVars, dataVars, mTotalSentSuccessfully,
                 mShutdownListener, pending, sends, exits>>

StartNextMailFileSend ==
  /\ Running("StartNextMailFileSend")
  /\ \E m \in Message :
       /\ TakeNext(m)
       /\ mEnumerator' = mEnumerator \ {m}
       /\ pending' = pending \cup {Step("stream", m)}
  /\ mTotalSendCount' = mTotalSendCount + 1
  /\ stack' = Below
  /\ UNCHANGED <<timerVars, folderVars, reparseVars, dataVars, mSendingMessages,
                 mMessagesToSend, mTotalSentSuccessfully, mShutdownListener, sends, exits>>

(***************************************************************************)
(* The rest of EndSendMessages: listeners hear OnStopSending, then the     *)
(* shutdown listener hears that this task is done.                         *)
(***************************************************************************)
OnStopSendingSends ==
  /\ ListenersSend
  /\ Running("EndSendMessages")
  /\ SendUnsentMessages(stack)

FaultyStoppedSending ==
  /\ Running("EndSendMessages")
  /\ stack' = Below
  /\ UNCHANGED <<sessionVars, timerVars, folderVars, reparseVars, dataVars,
                 mShutdownListener, pending, sends, exits>>

StoppedSending ==
  /\ Running("EndSendMessages")
  /\ mShutdownListener' = FALSE
  /\ stack' = Below
  /\ UNCHANGED <<sessionVars, timerVars, folderVars, reparseVars, dataVars,
                 pending, sends, exits>>

-----------------------------------------------------------------------------
(***************************************************************************)
(* The steps of a message.                                                 *)
(***************************************************************************)
Ends(p) == stack = <<>> /\ p \in pending

Follows(p, step) == pending' = (pending \ {p}) \cup {Step(step, p.msg)}

GoOn(p) ==
  /\ pending' = pending \ {p}
  /\ stack' = <<StartNextFrame(TRUE)>>

StreamRead(p) ==   \* OnStopRequest, CompleteMailFileSend
  /\ Ends(p) /\ p.step = "stream"
  /\ Follows(p, "send")
  /\ UNCHANGED <<sessionVars, timerVars, folderVars, reparseVars, dataVars,
                 mShutdownListener, stack, sends, exits>>

FaultyStreamFails(p) ==
  /\ "read" \in Failures
  /\ Ends(p) /\ p.step = "stream"
  /\ pending' = pending \ {p}
  /\ UNCHANGED <<sessionVars, timerVars, folderVars, reparseVars, dataVars,
                 mShutdownListener, stack, sends, exits>>

StreamFails(p) ==   \* OnStopRequest with an error, or CompleteMailFileSend fails
  /\ "read" \in Failures
  /\ Ends(p) /\ p.step = "stream"
  /\ GoOn(p)
  /\ UNCHANGED <<sessionVars, timerVars, folderVars, reparseVars, dataVars,
                 mShutdownListener, sends, exits>>

ServerAccepts(p) ==
  /\ Ends(p) /\ p.step = "send"
  /\ sent' = [sent EXCEPT ![p.msg] = @ + 1]
  /\ Follows(p, "accepted")
  /\ UNCHANGED <<sessionVars, timerVars, folderVars, reparseVars, kept,
                 mShutdownListener, stack, sends, exits>>

DeleteCurrentMessage(p) ==
  \/ /\ mMessage # NoMessage
     /\ outbox' = outbox \ {mMessage}
     /\ mMessage' = NoMessage
     /\ kept' = kept
  \/ /\ mMessage # NoMessage
     /\ "delete" \in Failures
     /\ UNCHANGED <<outbox, mMessage>>
     /\ kept' = [kept EXCEPT ![p.msg] = @ + 1]
  \/ mMessage = NoMessage /\ UNCHANGED <<outbox, mMessage, kept>>

OnSendStepFinished(p) ==
  /\ Ends(p) /\ p.step = "accepted"
  /\ DeleteCurrentMessage(p)
  /\ mTotalSentSuccessfully' = mTotalSentSuccessfully + 1
  /\ Follows(p, "copy")
  /\ UNCHANGED <<timerVars, reparseVars, mSendingMessages, mMessagesToSend, mEnumerator,
                 mTotalSendCount, written, sent, mShutdownListener, stack, sends, exits>>

(***************************************************************************)
(* The send fails; the connection may have been lost after the server      *)
(* accepted the message.                                                   *)
(***************************************************************************)
FaultySendFails(p) ==
  /\ "send" \in Failures
  /\ Ends(p) /\ p.step \in {"send", "accepted"}
  /\ DeleteCurrentMessage(p)
  /\ GoOn(p)
  /\ UNCHANGED <<mSendingMessages, mMessagesToSend, mEnumerator, mTotalSendCount,
                 mTotalSentSuccessfully, timerVars, written, reparseVars, sent,
                 mShutdownListener, sends, exits>>

SendFails(p) ==
  /\ "send" \in Failures
  /\ Ends(p) /\ p.step \in {"send", "accepted"}
  /\ kept' = IF p.step = "accepted" THEN [kept EXCEPT ![p.msg] = @ + 1] ELSE kept
  /\ GoOn(p)
  /\ UNCHANGED <<sessionVars, timerVars, folderVars, reparseVars, sent,
                 mShutdownListener, sends, exits>>

OnCopyStepFinished(p) ==
  /\ Ends(p) /\ p.step = "copy"
  /\ GoOn(p)
  /\ UNCHANGED <<sessionVars, timerVars, folderVars, reparseVars, dataVars,
                 mShutdownListener, sends, exits>>

-----------------------------------------------------------------------------
DoShutdownTask ==
  /\ stack = <<>>
  /\ timer' = FALSE
  /\ mShutdownListener' = (mShutdownListener \/ mSendingMessages)
  /\ UNCHANGED <<sessionVars, folderVars, reparseVars, dataVars, mTimerSet,
                 pending, stack, sends, exits>>

QuitApplication ==   \* Observe
  /\ stack = <<>>
  /\ timer' = FALSE
  /\ mTimerSet' = FALSE
  /\ UNCHANGED <<sessionVars, folderVars, reparseVars, dataVars, mShutdownListener,
                 pending, stack, sends, exits>>

(***************************************************************************)
(* The program exits or crashes at any moment, and starts again.           *)
(***************************************************************************)
Exit ==
  /\ exits < MaxExits
  /\ exits' = exits + 1
  /\ mSendingMessages' = FALSE
  /\ mMessagesToSend' = {}
  /\ mEnumerator' = {}
  /\ mMessage' = NoMessage
  /\ mTotalSendCount' = 0
  /\ mTotalSentSuccessfully' = 0
  /\ mTimerSet' = FALSE
  /\ timer' = FALSE
  /\ mUserInitiated' = FALSE
  /\ summary' \in {"valid", "stale"}
  /\ mReparseListener' = FALSE
  /\ mShutdownListener' = FALSE
  /\ pending' = {}
  /\ stack' = <<>>
  /\ kept' = [m \in Message |->
                IF Step("accepted", m) \in pending THEN kept[m] + 1 ELSE kept[m]]
  /\ UNCHANGED <<folderVars, sent, sends>>

Init ==
  /\ outbox = {} /\ written = {}
  /\ mSendingMessages = FALSE
  /\ mUserInitiated = FALSE
  /\ mMessagesToSend = {} /\ mEnumerator = {}
  /\ mMessage = NoMessage
  /\ mTotalSendCount = 0 /\ mTotalSentSuccessfully = 0
  /\ mTimerSet = FALSE /\ timer = FALSE
  /\ mShutdownListener = FALSE
  /\ summary \in {"valid", "stale"}
  /\ mReparseListener = FALSE
  /\ pending = {}
  /\ stack = <<>>
  /\ sent = [m \in Message |-> 0]
  /\ kept = [m \in Message |-> 0]
  /\ sends = 0 /\ exits = 0

Steps == [step : {"stream", "send", "accepted", "copy"}, msg : Message]

CallInProgress ==
  \/ OnStopRunningUrl \/ NoneLeft \/ OpenFails \/ StartNextMailFileSend
  \/ OnStopSendingSends \/ StoppedSending

StepEnds ==
  \E p \in Steps :
    \/ StreamRead(p) \/ StreamFails(p)
    \/ ServerAccepts(p) \/ OnSendStepFinished(p) \/ SendFails(p)
    \/ OnCopyStepFinished(p)

Next ==
  \/ UserSends \/ HasUnsentMessages \/ DoShutdownTask \/ QuitApplication \/ Exit
  \/ \E m \in Message : OnItemAdded(m)
  \/ TimerFires \/ ReparseEnds
  \/ CallInProgress \/ StepEnds

(***************************************************************************)
(* A call in progress runs on; a stream, a send and a copy end; the timer  *)
(* fires; a folder is parsed to its end.                                   *)
(***************************************************************************)
Fairness ==
  /\ WF_vars(CallInProgress) /\ WF_vars(StepEnds)
  /\ WF_vars(TimerFires) /\ WF_vars(ReparseEnds)

Spec == Init /\ [][Next]_vars

FairSpec == Spec /\ Fairness

-----------------------------------------------------------------------------
(***************************************************************************)
(* Properties.                                                             *)
(***************************************************************************)
Frame == [kind : {"StartNextMailFileSend"}, ends : BOOLEAN]
           \cup {EndSendFrame, ReparsedFrame}

(* Type correctness of the session, the folder and the calls in progress.  *)
TypeOK ==
  /\ outbox \subseteq written /\ written \subseteq Message
  /\ mSendingMessages \in BOOLEAN
  /\ mUserInitiated \in BOOLEAN
  /\ mMessagesToSend \subseteq written
  /\ mEnumerator \subseteq mMessagesToSend
  /\ mMessage \in written \cup {NoMessage}
  /\ mTotalSendCount \in Nat /\ mTotalSentSuccessfully \in Nat
  /\ mTimerSet \in BOOLEAN /\ timer \in BOOLEAN
  /\ mShutdownListener \in BOOLEAN
  /\ summary \in {"valid", "stale", "parsing"}
  /\ mReparseListener \in BOOLEAN
  /\ pending \subseteq Steps
  /\ stack \in Seq(Frame)
  /\ sent \in [Message -> Nat]
  /\ kept \in [Message -> Nat]
  /\ sends \in 0..MaxSends /\ exits \in 0..MaxExits

(* A session waits for exactly one step, and no step is left over from a   *)
(* session that ended: nothing sends two messages at a time, and there is  *)
(* always something that goes on with the rest.                            *)
StepsAreServed ==
  stack = <<>> =>
    IF mSendingMessages THEN \E p \in Steps : pending = {p} ELSE pending = {}

(* A message leaves the folder only if a server accepted it.               *)
NothingLost == \A m \in written \ outbox : sent[m] > 0

(* A message is sent again only if it could not be deleted after it had    *)
(* been sent, or the answer of the server did not get through.             *)
SentOnce == \A m \in Message : sent[m] <= 1 + kept[m]

(* The numbers that listeners get never overstate what was done.           *)
CountsAgree ==
  mSendingMessages =>
    LET done == mMessagesToSend \ mEnumerator
    IN  /\ mTotalSendCount <= Cardinality(done)
        /\ mTotalSentSuccessfully <= Cardinality({m \in done : sent[m] > 0})

(* Every session ends, and its listeners hear OnStopSending.               *)
EverySessionStops == mSendingMessages ~> ~mSendingMessages

(* A shutdown that waits for a session goes on in the end.                 *)
ShutdownGoesOn == mShutdownListener ~> ~mShutdownListener

(* Who asks for the database of a folder that must be parsed first hears   *)
(* when that is done (the program may exit before).                        *)
ListenerHears ==
  [][mReparseListener /\ ~mReparseListener' => summary # summary' \/ exits # exits']_vars
=============================================================================
