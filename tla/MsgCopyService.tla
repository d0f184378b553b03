---------------------------- MODULE MsgCopyService ----------------------------
(***************************************************************************)
(* The message copy service (mailnews/base/src/nsMsgCopyService.cpp) with  *)
(* local folders as destinations (mailnews/local/src/nsLocalMailFolder.cpp)*)
(*                                                                         *)
(* The service and the folders run on one thread and call each other: the  *)
(* service starts a copy by calling the folder, a folder reports that it   *)
(* is done by calling the service, which starts the next copy before it    *)
(* returns, and listeners may ask for new copies from inside a callback.   *)
(* "stack" holds the calls in progress, innermost first; a tail call       *)
(* replaces its frame.  Copies that stream data leave mCopyState set in    *)
(* their destination and go on after every call has returned.              *)
(*                                                                         *)
(* Definitions named Faulty... are wrong variants of the one after them,   *)
(* kept to see that the properties notice the fault.                       *)
(***************************************************************************)
EXTENDS Naturals, Sequences, FiniteSets

CONSTANTS
  Folder,        \* every folder that exists or may be created
  NoFolder,      \* a null folder pointer
  File,          \* files that messages are copied from
  Parent,        \* the parent of each folder, NoFolder for the root of a server
  Name,          \* the name of each folder
  NoName,        \* the empty m_dstFolderName of requests that copy no folder
  InitFolders,   \* the folders that exist at first
  Maildir,       \* the folders kept in a maildir store, the others in an mbox
  MaxRequests,   \* bound on the number of calls callers make
  Scripts,       \* the calls they may make, in order
  Chain          \* may listeners make calls from OnStopCopy?

Id == 1..MaxRequests

(***************************************************************************)
(* A call: its method ("messages", "files" or "folders"), the object that  *)
(* identifies the source, the destination, for each nsCopySource entry the *)
(* folder it comes from, and whether it is a move.  For messages, "from"   *)
(* gives the folder of each message of the array; a file that replaces a   *)
(* message has one entry with a null folder.                               *)
(***************************************************************************)
CallRecord ==
  [method : {"messages", "files", "folders"}, src : Folder \cup File,
   dst : Folder, from : Seq(Folder \cup {NoFolder}), move : BOOLEAN]

ASSUME MaxRequestsAssumption == MaxRequests \in Nat
ASSUME FolderAssumption ==
  /\ NoFolder \notin Folder
  /\ Parent \in [Folder -> Folder \cup {NoFolder}]
  /\ InitFolders \subseteq Folder
ASSUME ChainAssumption == Chain \in BOOLEAN
ASSUME ScriptsAssumption == Scripts \subseteq [Id -> CallRecord]

(***************************************************************************)
(* What callers do not do: copy messages into the folder they name as the  *)
(* source (refused before anything changes), or call with no folder.       *)
(***************************************************************************)
ASSUME WellFormedCalls ==
  \A script \in Scripts, i \in Id :
    LET c == script[i]
    IN  /\ c.method = "messages" => c.src \in Folder \ {c.dst}
        /\ c.method = "files" => c.src \in File
        /\ c.method = "folders" => c.src \in Folder /\ c.from = <<c.src>>

NoCopyState == [owner |-> 0, entry |-> 0, srcSupport |-> NoFolder]

VARIABLES
  call,            \* the call that makes each request, in the order they come
  issued,          \* the number of calls made so far
  m_copyRequests,  \* the requests in the queue; they are queued in Id order
  m_processed,     \* file requests that have been started
  sourceDone,      \* the sources of each request that are m_processed
  mCopyState,      \* per folder, the copy into it that is streaming data
  folders,         \* the folders that exist
  stack,           \* the calls in progress
  rv,              \* did the call that returned last succeed?
  starts, stops,   \* OnStartCopy and OnStopCopy calls each listener has had
  result,          \* what the last OnStopCopy said
  copied,          \* the sources of each request whose copy reported success
  unreported       \* requests with a copy that returned an error and reported none

queueVars == <<issued, m_copyRequests, m_processed, sourceDone>>
listenerVars == <<starts, stops, result>>
vars == <<call, queueVars, mCopyState, folders, stack, rv, listenerVars, copied, unreported>>

-----------------------------------------------------------------------------
(***************************************************************************)
(* Requests and their sources.                                             *)
(***************************************************************************)

(***************************************************************************)
(* The entries of m_copySourceArray.  Messages are grouped by folder from  *)
(* the end of the array, so an entry is known by the last message of its   *)
(* folder and entries with a greater index come first.                     *)
(***************************************************************************)
Sources(i) ==
  LET from == call[i].from
  IN  {k \in DOMAIN from : \A l \in DOMAIN from : l > k => from[l] # from[k]}

(***************************************************************************)
(* What a request has to copy: one piece for each source, or the file.     *)
(***************************************************************************)
Pieces(i) == IF Sources(i) = {} THEN {0} ELSE Sources(i)

AddNewCopySource(i) == {k \in Sources(i) : call[i].from[k] = call[i].dst}

DstFolderName(i) == IF call[i].method = "folders" THEN Name[call[i].src] ELSE NoName

Dst(i) == call[i].dst

AllSourcesDone(i) == Sources(i) \subseteq sourceDone[i]

(***************************************************************************)
(* m_processed of a request with sources only caches that all are done:    *)
(* both loops that read it compute it first.                               *)
(***************************************************************************)
Processed(i) == i \in m_processed \/ (Sources(i) # {} /\ AllSourcesDone(i))

(***************************************************************************)
(* DoNextCopy skips the requests that are processed and those whose        *)
(* destination one of these, earlier in the queue, already copies to.      *)
(***************************************************************************)
FaultyActiveTarget(i) == FALSE

ActiveTarget(i) ==
  \E k \in m_copyRequests : k < i /\ Dst(k) = Dst(i) /\ Processed(k)

Startable(i) == i \in m_copyRequests /\ ~Processed(i) /\ ~ActiveTarget(i)

FaultyNextToStart(i) == Startable(i)

NextToStart(i) == Startable(i) /\ \A k \in m_copyRequests : k < i => ~Startable(k)

(***************************************************************************)
(* FindRequest: the first request for this source and destination.  A      *)
(* folder copy must also agree on the name of the new folder; one that     *)
(* agrees on all but the name is returned only from the end of the queue.  *)
(***************************************************************************)
SameEnds(i, sup, dst) ==
  /\ call[i].src = sup
  /\ IF call[i].method = "folders" THEN Parent[dst] = Dst(i) ELSE Dst(i) = dst

Matches(i, sup, dst) ==
  /\ SameEnds(i, sup, dst)
  /\ call[i].method = "folders" => Name[dst] = DstFolderName(i)

FindRequest(i, sup, dst) ==
  /\ i \in m_copyRequests
  /\ SameEnds(i, sup, dst)
  /\ IF Matches(i, sup, dst)
       THEN \A k \in m_copyRequests : k < i => ~Matches(k, sup, dst)
       ELSE \A k \in m_copyRequests : k <= i /\ ~Matches(k, sup, dst)

FaultyIndexOf(i) == Cardinality({k \in m_copyRequests : k <= i})

IndexOf(i) == Cardinality({k \in m_copyRequests : k < i})

-----------------------------------------------------------------------------
(***************************************************************************)
(* The calls in progress.                                                  *)
(***************************************************************************)
DoNextCopyFrame == [kind |-> "DoNextCopy"]
CopyMessagesFrame(i, k, sup, dst) ==
  [kind |-> "CopyMessages", owner |-> i, entry |-> k, sup |-> sup, dst |-> dst]
CopyFolderFrame(i) == [kind |-> "CopyFolder", owner |-> i]
CopyFolderReturn(i) == [kind |-> "CopyFolder returns", owner |-> i]
CopyFileMessageFrame(i) == [kind |-> "CopyFileMessage", owner |-> i]
CopyFileReturn(i) == [kind |-> "CopyFileMessage returns", owner |-> i]
NotifyFrame(sup, dst, ok, orig) ==
  [kind |-> "NotifyCompletion", sup |-> sup, dst |-> dst, ok |-> ok, orig |-> orig]
ListenerFrame == [kind |-> "OnStopCopy"]
MaildirReturn(i) == [kind |-> "store CopyMessages returns", owner |-> i]
ResultFrame(ok) == [kind |-> "result", ok |-> ok]
DestroyFrame == [kind |-> "destructor"]

Running(kind) == stack # <<>> /\ Head(stack).kind = kind
Top == Head(stack)
Below == Tail(stack)

Push(f, s) == <<f>> \o s

(***************************************************************************)
(* The caller of "s" gets "ok" whatever the call above it returns; this    *)
(* matters only to the two callers that look at it.                        *)
(***************************************************************************)
Yielding(ok, s) ==
  IF s # <<>> /\ Head(s).kind \in {"CopyFolder returns", "CopyFileMessage returns"}
    THEN Push(ResultFrame(ok), s)
    ELSE s

Return(ok) ==
  /\ stack' = Below
  /\ rv' = ok

(***************************************************************************)
(* OnStopCopy: a callback that may do more only if listeners make calls.   *)
(***************************************************************************)
TellStopped(i, ok, s) ==
  /\ stops' = [stops EXCEPT ![i] = @ + 1]
  /\ result' = [result EXCEPT ![i] = IF ok THEN "ok" ELSE "failed"]
  /\ stack' = IF Chain /\ s # <<DestroyFrame>> THEN Push(ListenerFrame, s) ELSE s

FaultyClearRequest(i, ok, s) ==
  /\ TellStopped(i, ok, s)
  /\ UNCHANGED <<queueVars, starts>>

ClearRequest(i, ok, s) ==
  /\ m_copyRequests' = m_copyRequests \ {i}
  /\ TellStopped(i, ok, s)
  /\ UNCHANGED <<issued, m_processed, sourceDone, starts>>

FaultyOnCopyCompleted(sup, dst, ok, s) ==
  /\ stack' = Push(NotifyFrame(sup, dst, ok, Cardinality(m_copyRequests)), s)
  /\ UNCHANGED mCopyState

(***************************************************************************)
(* nsMsgLocalMailFolder::OnCopyCompleted: whatever copy this folder has in *)
(* progress loses its state, and the service is told.                      *)
(***************************************************************************)
OnCopyCompleted(sup, dst, ok, s) ==
  /\ mCopyState' = [mCopyState EXCEPT ![dst] = NoCopyState]
  /\ stack' = Push(NotifyFrame(sup, dst, ok, Cardinality(m_copyRequests)), s)

-----------------------------------------------------------------------------
Init ==
  /\ call \in Scripts
  /\ issued = 0
  /\ m_copyRequests = {}
  /\ m_processed = {}
  /\ sourceDone = [i \in Id |-> {}]
  /\ mCopyState = [f \in Folder |-> NoCopyState]
  /\ folders = InitFolders
  /\ stack = <<>>
  /\ rv = TRUE
  /\ starts = [i \in Id |-> 0]
  /\ stops = [i \in Id |-> 0]
  /\ result = [i \in Id |-> "none"]
  /\ copied = [i \in Id |-> {}]
  /\ unreported = {}

(***************************************************************************)
(* CopyMessages, CopyFolders and CopyFileMessage of the service.           *)
(***************************************************************************)
FaultyQueueRequest(i) == FALSE

QueueRequest(i) ==   \* aCopyImmediately
  \A k \in m_copyRequests :
     ~ /\ Dst(k) = Dst(i)
       /\ call[i].method = "folders" => DstFolderName(k) = DstFolderName(i)

DoCopy(i, s) ==
  /\ m_copyRequests' = m_copyRequests \cup {i}
  /\ sourceDone' = [sourceDone EXCEPT ![i] = AddNewCopySource(i)]
  /\ stack' = IF QueueRequest(i) THEN Push(DoNextCopyFrame, s) ELSE s
  /\ UNCHANGED <<m_processed, listenerVars>>

NothingToCopy(i, s) ==
  /\ starts' = [starts EXCEPT ![i] = @ + 1]
  /\ TellStopped(i, TRUE, s)
  /\ UNCHANGED <<m_copyRequests, m_processed, sourceDone>>

NothingSelected(c) == c.method = "messages" /\ c.from = <<>>

MakeCall(s) ==
  /\ issued < MaxRequests
  /\ issued' = issued + 1
  /\ IF NothingSelected(call[issued + 1])
       THEN NothingToCopy(issued + 1, s)
       ELSE DoCopy(issued + 1, s)
  /\ UNCHANGED <<call, mCopyState, folders, rv, copied, unreported>>

UserCall == stack = <<>> /\ MakeCall(<<>>)

ListenerCalls == Running("OnStopCopy") /\ MakeCall(stack)

ListenerReturns ==
  /\ Running("OnStopCopy")
  /\ Return(rv)
  /\ UNCHANGED <<call, queueVars, mCopyState, folders, listenerVars, copied, unreported>>

(***************************************************************************)
(* DoNextCopy: start the first request in the queue that may start.        *)
(***************************************************************************)
DoNextCopyFindsNone ==
  /\ Running("DoNextCopy")
  /\ \A i \in m_copyRequests : ~Startable(i)
  /\ Return(TRUE)
  /\ UNCHANGED <<call, queueVars, mCopyState, folders, listenerVars, copied, unreported>>

FirstUndone(i, k) ==
  /\ k \in Sources(i) \ sourceDone[i]
  /\ \A l \in Sources(i) \ sourceDone[i] : l <= k

FaultyMarkStarted(i) == m_processed \cup {i}

MarkStarted(i) == IF call[i].method = "files" THEN m_processed \cup {i} ELSE m_processed

FaultyStartSource(i) ==
  \E k \in Sources(i) :
    /\ FirstUndone(i, k)
    /\ sourceDone' = sourceDone
    /\ stack' = IF call[i].method = "messages"
                  THEN Push(CopyMessagesFrame(i, k, call[i].from[k], Dst(i)), Below)
                  ELSE Push(CopyFileMessageFrame(i), Below)

StartSource(i) ==
  \E k \in Sources(i) :
    /\ FirstUndone(i, k)
    /\ sourceDone' = [sourceDone EXCEPT ![i] = @ \cup {k}]
    /\ CASE call[i].method = "messages" ->
              stack' = Push(CopyMessagesFrame(i, k, call[i].from[k], Dst(i)), Below)
         [] call[i].method = "folders" ->
              stack' = Push(CopyFolderFrame(i), Push(CopyFolderReturn(i), Below))
         [] call[i].method = "files" ->
              stack' = Push(CopyFileMessageFrame(i), Below)

StartPlainFile(i) ==
  /\ Sources(i) = {}
  /\ sourceDone' = sourceDone
  /\ stack' = Push(CopyFileMessageFrame(i), Below)

DoNextCopyStarts ==
  /\ Running("DoNextCopy")
  /\ \E i \in m_copyRequests :
       /\ NextToStart(i)
       /\ starts' = [starts EXCEPT ![i] = @ + 1]
       /\ m_processed' = MarkStarted(i)
       /\ StartSource(i) \/ StartPlainFile(i)
  /\ UNCHANGED <<call, issued, m_copyRequests, mCopyState, folders, rv, stops, result, copied, unreported>>

(***************************************************************************)
(* NotifyCompletion: clear the request that is done, and any other that    *)
(* cannot be told from it, then look for the next copy.                    *)
(***************************************************************************)
FaultyClearable(i) == FindRequest(i, Top.sup, Top.dst) /\ IndexOf(i) < Top.orig

Clearable(i) ==
  /\ FindRequest(i, Top.sup, Top.dst)
  /\ IndexOf(i) < Top.orig
  /\ i \in m_processed \/ AllSourcesDone(i) \/ ~Top.ok

NotifyCompletionClears ==
  /\ Running("NotifyCompletion")
  /\ \E i \in m_copyRequests :
       /\ Clearable(i)
       /\ ClearRequest(i, Top.ok,
            Push(NotifyFrame(Top.sup, Top.dst, Top.ok, Top.orig - 1), Below))
  /\ UNCHANGED <<call, mCopyState, folders, rv, copied, unreported>>

FaultyNotifyCompletionEnds ==
  /\ Running("NotifyCompletion")
  /\ \A i \in m_copyRequests : ~Clearable(i)
  /\ Return(TRUE)
  /\ UNCHANGED <<call, queueVars, mCopyState, folders, listenerVars, copied, unreported>>

NotifyCompletionEnds ==
  /\ Running("NotifyCompletion")
  /\ \A i \in m_copyRequests : ~Clearable(i)
  /\ stack' = Push(DoNextCopyFrame, Below)
  /\ UNCHANGED <<call, queueVars, mCopyState, folders, rv, listenerVars, copied, unreported>>

(***************************************************************************)
(* nsMsgLocalMailFolder::CopyMessages, called for one source.              *)
(***************************************************************************)
Busy(f) == mCopyState[f] # NoCopyState
IsServer(f) == Parent[f] = NoFolder

(***************************************************************************)
(* It fails at once: the destination is a server, a body is not there      *)
(* while offline, the disk is full, the folder is locked or is copying     *)
(* already, or the first message cannot be streamed.  Depending on which,  *)
(* its caller gets success, failure or what NotifyCompletion returns.      *)
(***************************************************************************)
CopyMessagesFails ==
  /\ Running("CopyMessages")
  /\ \E s \in {Below, Yielding(TRUE, Below), Yielding(FALSE, Below)} :
       OnCopyCompleted(Top.sup, Top.dst, FALSE, s)
  /\ UNCHANGED <<call, queueVars, folders, rv, listenerVars, copied, unreported>>

(***************************************************************************)
(* It returns an error and tells nobody: the header of the last message, a *)
(* store for the destination, or the source folder's database is missing.  *)
(* DoNextCopy clears only folder copies on an error, so a request of this  *)
(* kind stays queued.  "unreported" records it; no guard reads it.         *)
(***************************************************************************)
CopyMessagesErrs ==
  /\ Running("CopyMessages")
  /\ ~IsServer(Top.dst)
  /\ unreported' = unreported \cup {Top.owner}
  /\ Return(FALSE)
  /\ UNCHANGED <<call, queueVars, mCopyState, folders, listenerVars, copied>>

InitCopyState ==
  /\ Running("CopyMessages")
  /\ ~IsServer(Top.dst)
  /\ ~Busy(Top.dst)
  /\ mCopyState' = [mCopyState EXCEPT ![Top.dst] =
                      [owner |-> Top.owner, entry |-> Top.entry, srcSupport |-> Top.sup]]
  /\ Return(TRUE)
  /\ UNCHANGED <<call, queueVars, folders, listenerVars, copied, unreported>>

(***************************************************************************)
(* nsMsgMaildirStore::CopyMessages copies at once between maildirs, and    *)
(* calls the listener as well as the folder.                               *)
(***************************************************************************)
MaildirCopies ==
  /\ Running("CopyMessages")
  /\ ~IsServer(Top.dst)
  /\ {Top.sup, Top.dst} \subseteq Maildir
  /\ starts' = [starts EXCEPT ![Top.owner] = @ + 1]
  /\ copied' = [copied EXCEPT ![Top.owner] = @ \cup {Top.entry}]
  /\ OnCopyCompleted(Top.sup, Top.dst, TRUE,
                     Push(MaildirReturn(Top.owner), Yielding(TRUE, Below)))
  /\ UNCHANGED <<call, queueVars, folders, rv, stops, result, unreported>>

MaildirStops ==
  /\ Running("store CopyMessages returns")
  /\ TellStopped(Top.owner, TRUE, Below)
  /\ UNCHANGED <<call, queueVars, mCopyState, folders, rv, starts, copied, unreported>>

(***************************************************************************)
(* The copy into f streams its last message, and EndCopy or EndMove        *)
(* reports: a copy that broke off is reported as a success as well, a move *)
(* fails if the messages cannot be deleted from the source.                *)
(***************************************************************************)
StreamEnds(f, ok) ==
  LET c == mCopyState[f]
  IN  /\ copied' = IF ok THEN [copied EXCEPT ![c.owner] = @ \cup {c.entry}] ELSE copied
      /\ OnCopyCompleted(c.srcSupport, f, ok, <<>>)
      /\ UNCHANGED <<call, queueVars, folders, rv, listenerVars, unreported>>

CopyEnds(f) ==
  /\ stack = <<>>
  /\ Busy(f)
  /\ \/ StreamEnds(f, TRUE)
     \/ /\ call[mCopyState[f].owner].method = "messages"
        /\ call[mCopyState[f].owner].move
        /\ StreamEnds(f, FALSE)

(***************************************************************************)
(* nsMsgLocalMailFolder::CopyFileMessage, which copies before it returns.  *)
(***************************************************************************)
CopyFileFails ==
  /\ Running("CopyFileMessage")
  /\ \E ok \in BOOLEAN :   \* TRUE: the disk is full
       OnCopyCompleted(call[Top.owner].src, Dst(Top.owner), FALSE, Yielding(ok, Below))
  /\ UNCHANGED <<call, queueVars, folders, rv, listenerVars, copied, unreported>>

CopyFileCopies ==
  /\ Running("CopyFileMessage")
  /\ ~Busy(Dst(Top.owner))
  /\ copied' = [copied EXCEPT ![Top.owner] = Pieces(Top.owner)]
  /\ OnCopyCompleted(call[Top.owner].src, Dst(Top.owner), TRUE,
       IF Sources(Top.owner) = {}
         THEN Yielding(TRUE, Below)
         ELSE Push(CopyFileReturn(Top.owner), Below))
  /\ UNCHANGED <<call, queueVars, folders, rv, listenerVars, unreported>>

(***************************************************************************)
(* With a message to replace, what NotifyCompletion returned (the result   *)
(* of starting some later copy) is taken for the result of this one.       *)
(***************************************************************************)
CopyFileReturns ==
  /\ Running("CopyFileMessage returns")
  /\ \/ rv /\ Return(TRUE) /\ UNCHANGED mCopyState
     \/ /\ ~rv
        /\ OnCopyCompleted(call[Top.owner].src, Dst(Top.owner), FALSE, Yielding(FALSE, Below))
        /\ UNCHANGED rv
  /\ UNCHANGED <<call, queueVars, folders, listenerVars, copied, unreported>>

(***************************************************************************)
(* nsMsgLocalMailFolder::CopyFolder.  Subfolders, and the removal of a     *)
(* folder that was moved, are left out.                                    *)
(***************************************************************************)
Children(f) == {g \in folders : Parent[g] = f}

CopyFolderRefuses ==   \* aborted, a folder of that name exists, or disk errors
  /\ Running("CopyFolder")
  /\ Return(FALSE)
  /\ UNCHANGED <<call, queueVars, mCopyState, folders, listenerVars, copied, unreported>>

FaultyCopyFolderAcrossServer ==   \* the empty folder gives its source
  /\ Running("CopyFolder")
  /\ ~call[Top.owner].move
  /\ \E g \in Folder \ folders :
       /\ Parent[g] = Dst(Top.owner)
       /\ Name[g] = DstFolderName(Top.owner)
       /\ folders' = folders \cup {g}
       /\ OnCopyCompleted(call[Top.owner].src, g, TRUE, Below)
  /\ copied' = [copied EXCEPT ![Top.owner] = Pieces(Top.owner)]
  /\ UNCHANGED <<call, queueVars, rv, listenerVars, unreported>>

(***************************************************************************)
(* CopyFolderAcrossServer creates the folder and streams the messages into *)
(* it; a folder without messages is done at once, and gives itself, not    *)
(* the source folder, as the source of the copy.                           *)
(***************************************************************************)
CopyFolderAcrossServer ==
  /\ Running("CopyFolder")
  /\ ~call[Top.owner].move
  /\ \E g \in Folder \ folders :
       /\ Parent[g] = Dst(Top.owner)
       /\ Name[g] = DstFolderName(Top.owner)
       /\ folders' = folders \cup {g}
       /\ \/ /\ stack' = Push(CopyMessagesFrame(Top.owner, 1, call[Top.owner].src, g),
                             Yielding(TRUE, Below))
             /\ UNCHANGED <<mCopyState, copied>>
          \/ /\ OnCopyCompleted(g, g, TRUE, Below)
             /\ copied' = [copied EXCEPT ![Top.owner] = Pieces(Top.owner)]
  /\ UNCHANGED <<call, queueVars, rv, listenerVars, unreported>>

(***************************************************************************)
(* CopyFolderLocal and nsMsgBrkMBoxStore::CopyFolder: the new folder gets  *)
(* another name if the destination has one of that name.  The store may    *)
(* still fail after the completion, when it asks for paths and subfolders. *)
(***************************************************************************)
CopyFolderLocal ==
  /\ Running("CopyFolder")
  /\ call[Top.owner].move
  /\ \E g \in Folder \ folders :
       /\ Parent[g] = Dst(Top.owner)
       /\ \/ Name[g] = DstFolderName(Top.owner)
          \/ \E h \in Children(Dst(Top.owner)) : Name[h] = DstFolderName(Top.owner)
       /\ folders' = folders \cup {g}
       /\ \E ok \in BOOLEAN :
            OnCopyCompleted(call[Top.owner].src, g, TRUE, Yielding(ok, Below))
  /\ copied' = [copied EXCEPT ![Top.owner] = Pieces(Top.owner)]
  /\ UNCHANGED <<call, queueVars, rv, listenerVars, unreported>>

(***************************************************************************)
(* DoNextCopy clears a folder copy that returns an error.  If the request  *)
(* was completed before, this reads freed memory: its listener is told     *)
(* once more or nobody is.                                                 *)
(***************************************************************************)
CopyFolderReturns ==
  /\ Running("CopyFolder returns")
  /\ \/ rv /\ Return(TRUE) /\ UNCHANGED <<queueVars, listenerVars>>
     \/ /\ ~rv
        /\ ClearRequest(Top.owner, FALSE, Yielding(FALSE, Below))
        /\ UNCHANGED rv
     \/ /\ ~rv
        /\ Top.owner \notin m_copyRequests
        /\ Return(FALSE)
        /\ UNCHANGED <<queueVars, listenerVars>>
  /\ UNCHANGED <<call, mCopyState, folders, copied, unreported>>

ResultReturns ==
  /\ Running("result")
  /\ Return(Top.ok)
  /\ UNCHANGED <<call, queueVars, mCopyState, folders, listenerVars, copied, unreported>>

(***************************************************************************)
(* The destructor clears what is left from the end of the queue.           *)
(***************************************************************************)
Destroy ==
  /\ stack = <<>>
  /\ stack' = <<DestroyFrame>>
  /\ UNCHANGED <<call, queueVars, mCopyState, folders, rv, listenerVars, copied, unreported>>

DestructorClears ==
  /\ Running("destructor")
  /\ \E i \in m_copyRequests :
       /\ \A k \in m_copyRequests : k <= i
       /\ ClearRequest(i, FALSE, stack)
  /\ UNCHANGED <<call, mCopyState, folders, rv, copied, unreported>>

-----------------------------------------------------------------------------
Service ==
  \/ ListenerCalls \/ ListenerReturns
  \/ DoNextCopyFindsNone \/ DoNextCopyStarts
  \/ NotifyCompletionClears \/ NotifyCompletionEnds
  \/ DestructorClears

LocalFolder ==
  \/ CopyMessagesFails \/ CopyMessagesErrs \/ InitCopyState \/ MaildirCopies \/ MaildirStops
  \/ CopyFileFails \/ CopyFileCopies \/ CopyFileReturns
  \/ CopyFolderRefuses \/ CopyFolderAcrossServer \/ CopyFolderLocal
  \/ CopyFolderReturns \/ ResultReturns

CallInProgress == Service \/ LocalFolder

Next ==
  \/ UserCall \/ Destroy
  \/ Service \/ LocalFolder
  \/ \E f \in Folder : CopyEnds(f)

(***************************************************************************)
(* A call in progress runs on, and a stream ends (the source of the data   *)
(* delivers its last byte or an error).                                    *)
(***************************************************************************)
Fairness == WF_vars(CallInProgress) /\ \A f \in Folder : WF_vars(CopyEnds(f))

Spec == Init /\ [][Next]_vars

FairSpec == Spec /\ Fairness

-----------------------------------------------------------------------------
(***************************************************************************)
(* Properties.                                                             *)
(***************************************************************************)
Support == Folder \cup File \cup {NoFolder}

Frame ==
  {DoNextCopyFrame, ListenerFrame, DestroyFrame}
    \cup [kind : {"CopyMessages"}, owner : Id, entry : Nat,
          sup : Support, dst : Folder]
    \cup [kind : {"CopyFolder", "CopyFolder returns", "CopyFileMessage",
                  "CopyFileMessage returns", "store CopyMessages returns"}, owner : Id]
    \cup [kind : {"NotifyCompletion"}, sup : Support,
          dst : Folder, ok : BOOLEAN, orig : Nat]
    \cup [kind : {"result"}, ok : BOOLEAN]

(* Type correctness of the service, its destinations and the calls in      *)
(* progress.                                                               *)
TypeOK ==
  /\ call \in Scripts
  /\ issued \in 0..MaxRequests
  /\ m_copyRequests \subseteq 1..issued
  /\ m_processed \subseteq {i \in Id : call[i].method = "files"}
  /\ sourceDone \in [Id -> SUBSET Nat]
  /\ \A i \in Id : sourceDone[i] \subseteq Sources(i)
  /\ mCopyState \in [Folder -> [owner : Id \cup {0}, entry : Nat,
                               srcSupport : Support]]
  /\ folders \subseteq Folder
  /\ stack \in Seq(Frame)
  /\ rv \in BOOLEAN
  /\ starts \in [Id -> Nat]
  /\ stops \in [Id -> Nat]
  /\ result \in [Id -> {"none", "ok", "failed"}]
  /\ copied \in [Id -> SUBSET Nat]
  /\ unreported \subseteq Id

InFlight(i) == i \in m_copyRequests /\ starts[i] > 0

(* A folder that is asked to start a copy has none in progress: otherwise  *)
(* InitCopyState fails and OnCopyCompleted deletes the state of the other  *)
(* copy, which then never reports (nsLocalMailFolder.cpp:1391, 1480).      *)
OneCopyPerFolder ==
  /\ Running("CopyMessages") => ~Busy(Top.dst)
  /\ Running("CopyFileMessage") => ~Busy(Dst(Top.owner))

(* Whenever the service is at rest, every request that was started has a   *)
(* copy in progress in its destination that will report it, unless its     *)
(* CopyMessages returned an error without calling OnCopyCompleted: no      *)
(* completion is lost for any other reason, and none goes to the wrong     *)
(* request (FindRequest, NotifyCompletion).                                *)
NoCompletionLost ==
  stack = <<>> =>
    \A i \in m_copyRequests \ unreported : InFlight(i) =>
      \E f \in Folder : Busy(f) /\ mCopyState[f].owner = i

(* Whenever the service is at rest, a request that waits, waits for one    *)
(* ahead of it that is being copied to the same destination: the one       *)
(* DoNextCopy at the end of NotifyCompletion is enough to wake it.         *)
NoLostWakeup ==
  stack = <<>> =>
    \A i \in m_copyRequests :
      \E k \in m_copyRequests : k <= i /\ InFlight(k) /\ Dst(k) = Dst(i)

(* No copy streams into a folder for a request that was cleared: whoever   *)
(* was told that its copy stopped sees no more messages arrive.            *)
NoOrphanCopy ==
  \A f \in Folder : Busy(f) /\ ~Running("destructor") =>
    mCopyState[f].owner \in m_copyRequests

(* A listener is told at most once that its copy stopped, and is told so   *)
(* exactly when its request leaves the queue.                              *)
StopsOnce ==
  \A i \in Id : stops[i] = IF i <= issued /\ i \notin m_copyRequests THEN 1 ELSE 0

(* OnStartCopy comes once, before OnStopCopy with success.                 *)
StartsOnce ==
  \A i \in Id : starts[i] <= 1 /\ (result[i] = "ok" => starts[i] = 1)

(* Success means that every source of the request has arrived.             *)
OkMeansCopied ==
  \A i \in Id : result[i] = "ok" /\ ~NothingSelected(call[i]) => copied[i] = Pieces(i)

StartsOrdered ==
  \A i, k \in Id :
    ~InFlight(i) /\ InFlight(i)' /\ k < i /\ Dst(k) = Dst(i) => k \notin m_copyRequests'

(* DoNextCopy gives a destination to its requests in the order they were   *)
(* made.                                                                   *)
StartsInOrder == [][StartsOrdered]_vars

(* The request that an error of CopyFolder clears is still in the queue,   *)
(* whatever the calls nested in it completed: otherwise DoNextCopy passes  *)
(* freed memory to ClearRequest.  A move is the exception: the mbox store  *)
(* may fail after it has completed the move (nsMsgBrkMBoxStore.cpp:561).   *)
CopyFolderNotFreed ==
  Running("CopyFolder returns") /\ ~rv /\ ~call[Top.owner].move =>
    Top.owner \in m_copyRequests

(* A request that can never be completed, as its CopyMessages failed       *)
(* without saying so, blocks the ones behind it for the same destination.  *)
Blocked(i) ==
  \E k \in unreported \cap m_copyRequests : k <= i /\ Dst(k) = Dst(i)

(* Every call is answered, and its listener told that the copy stopped,    *)
(* unless the request or one ahead of it for the same destination had an   *)
(* error that CopyMessages did not report: such an error costs the other   *)
(* destinations nothing.                                                   *)
EveryRequestStops ==
  \A i \in Id : i <= issued ~> stops[i] > 0 \/ Blocked(i)

Status(i) ==
  IF i > issued THEN "unmade"
  ELSE IF i \notin m_copyRequests THEN result[i]
  ELSE IF i \in unreported THEN "hung"
  ELSE IF starts[i] > 0 THEN "copying" ELSE "waiting"

Queues == INSTANCE FolderCopyQueue WITH
  Request <- Id, Source <- Folder \cup File, Target <- Folder,
  source <- [i \in Id |-> call[i].src],
  target <- [i \in Id |-> Dst(i)],
  status <- [i \in Id |-> Status(i)],
  open <- ~Running("destructor")

(* The service, with its destinations, is a set of first-in first-out      *)
(* queues, one for each destination.  A request hangs when CopyMessages    *)
(* returns an error that it does not report.                               *)
ImplementsQueues == Queues!FairSpec
=============================================================================
