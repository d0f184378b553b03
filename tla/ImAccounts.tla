------------------------------ MODULE ImAccounts ------------------------------
(***************************************************************************)
(* The chat accounts of chat/components/src/imAccounts.js: connections     *)
(* that the user, the auto-login of a start, the reconnection timer, the   *)
(* user's status and a change of settings begin and end, and the           *)
(* preferences by which the next start tells whether a connection made the *)
(* program crash.  The protocol of an account (IRC, XMPP...) is external:  *)
(* it answers a connection or breaks it.                                   *)
(***************************************************************************)
EXTENDS Integers, FiniteSets

CONSTANTS
  Account,
  AutoLogin,      \* the accounts that connect when the program starts
  Immediate,      \* those whose protocol disconnects at once, as XMPP does
  Passwords,      \* what may be known of passwords at first
  LateTimers,     \* may an account start to connect during the last second
                  \* before its reconnection timer fires?
  MaxOps,         \* bound on what the user does
  MaxFailures,    \* bound on connections that fail or break
  MaxSessions     \* bound on starts of the program

ASSUME AccountAssumption ==
  /\ IsFiniteSet(Account)
  /\ AutoLogin \subseteq Account /\ Immediate \subseteq Account
  /\ Passwords \subseteq {"none", "session", "saved"}
  /\ LateTimers \subseteq BOOLEAN
  /\ MaxOps \in Nat /\ MaxFailures \in Nat /\ MaxSessions \in Nat

VARIABLES
  running,        \* between initAccounts and unInitAccounts
  online,         \* statusInfo.statusType > STATUS_OFFLINE
  waitsForLogin,  \* who shall call processAutoLogin: core, user or nobody
  account,        \* the imAccount objects
  count,          \* AutoLoginCounter._count
  mem, disk,      \* the preferences, and what was saved of them
  saveTimer,      \* SavePrefTimer._timer
  stale,          \* history: autoLoginPending was left by a crash, and no
                  \* start or auto-login has dealt with it since
  ops, failures, sessions

vars == <<running, online, waitsForLogin, account, count, mem, disk,
          saveTimer, stale, ops, failures, sessions>>

(***************************************************************************)
(* The fields of an imAccount.  conn is connectionState, err the           *)
(* connectionErrorReason of the prplAccount and own _connectionErrorReason *)
(* ("auth" stands for every error that is not retried), timer a            *)
(* reconnection timer that _reconnectTimer names, strays those it no       *)
(* longer names, soon _pendingReconnectForConnectionInfoChange, login      *)
(* _autoLoginPending.                                                      *)
(***************************************************************************)
Conn == {"disconnected", "connecting", "connected", "disconnecting"}
First == {"ok", "unknown", "pending", "crashed"}
ImAccount ==
  [conn : Conn, err : {"none", "network", "auth"},
   own : {"none", "missing", "crashed"}, observer : BOOLEAN, timer : BOOLEAN,
   strays : Nat, soon : BOOLEAN, login : BOOLEAN,
   password : {"none", "session", "saved"}]
Prefs == [list : SUBSET Account, first : [Account -> First], pending : BOOLEAN]

TypeOK ==
  /\ running \in BOOLEAN /\ online \in BOOLEAN
  /\ waitsForLogin \in {"core", "user", "nobody"}
  /\ account \in [Account -> ImAccount]
  /\ count \in Nat
  /\ mem \in Prefs /\ disk \in Prefs /\ saveTimer \in BOOLEAN
  /\ stale \in BOOLEAN
  /\ ops \in 0..MaxOps /\ failures \in 0..MaxFailures
  /\ sessions \in 0..MaxSessions

Fresh(password) ==
  [conn |-> "disconnected", err |-> "none", own |-> "none", observer |-> FALSE,
   timer |-> FALSE, strays |-> 0, soon |-> FALSE, login |-> FALSE,
   password |-> IF password = "session" THEN "none" ELSE password]

Init ==
  /\ running = FALSE /\ online = TRUE /\ waitsForLogin = "nobody"
  /\ \E password \in [Account -> Passwords] :
       account = [a \in Account |-> Fresh(password[a])]
  /\ count = 0
  /\ \E first \in [Account -> {"ok", "unknown"}] :
       mem = [list |-> Account, first |-> first, pending |-> FALSE]
  /\ disk = mem /\ saveTimer = FALSE /\ stale = FALSE
  /\ ops = 0 /\ failures = 0 /\ sessions = 0

-----------------------------------------------------------------------------
(* SavePrefTimer: preferences are saved now, later or with the next ones *)

Save(prefs, now, later) ==
  /\ mem' = prefs
  /\ disk' = IF now THEN prefs ELSE disk
  /\ saveTimer' = (~now /\ (saveTimer \/ later))

SaveTimerFires ==
  /\ saveTimer
  /\ Save(mem, TRUE, FALSE)
  /\ UNCHANGED <<running, online, waitsForLogin, account, count, stale, ops,
                 failures, sessions>>

-----------------------------------------------------------------------------
(* Parts of the methods of imAccount *)

ErrorReason(r) ==
  IF r.own # "none" /\ (r.own # "missing" \/ r.password = "none")
  THEN r.own ELSE r.err

FaultyCancelReconnection(r) == r
CancelReconnection(r) == [r EXCEPT !.timer = FALSE]

FaultyStartReconnectTimer(r) == r
StartReconnectTimer(r) ==
  IF ~online THEN r
  ELSE [r EXCEPT !.timer = TRUE, !.strays = @ + (IF r.timer THEN 1 ELSE 0)]

(***************************************************************************)
(* account-connecting, from prplAccount.connect().  A timer of which more  *)
(* than a second is left is cancelled.                                     *)
(***************************************************************************)
Connecting(r, late) ==
  [(IF r.err # "none" /\ ~late THEN CancelReconnection(r) ELSE r)
     EXCEPT !.conn = "connecting"]

(***************************************************************************)
(* prplAccount.disconnect() without an error: account-disconnecting, and   *)
(* account-disconnected if the protocol does not wait for the server.      *)
(***************************************************************************)
Disconnecting(a, r) ==
  IF r.conn \notin {"connecting", "connected"} THEN r
  ELSE [r EXCEPT
          !.conn = IF a \in Immediate THEN "disconnected" ELSE "disconnecting",
          !.err = "none", !.login = FALSE]

(***************************************************************************)
(* The first-connection preference when accounts A stop connecting.        *)
(***************************************************************************)
NoLongerPending(prefs, A) ==
  [prefs EXCEPT !.first =
     [a \in Account |-> IF a \in A /\ @[a] \in {"unknown", "pending"}
                        THEN "unknown" ELSE @[a]]]

(***************************************************************************)
(* _finishedAutoLogin of the accounts A, in preferences and counter.       *)
(***************************************************************************)
LoggingIn(A) == {a \in A : account[a].login}
FaultyLoginsEnd(prefs, A) == prefs
LoginsEnd(prefs, A) ==
  IF LoggingIn(A) # {} /\ count = Cardinality(LoggingIn(A))
  THEN [prefs EXCEPT !.pending = FALSE] ELSE prefs
FaultyCountAfter(A) == count - Cardinality(A)
CountAfter(A) == count - Cardinality(LoggingIn(A))

(***************************************************************************)
(* The account-disconnecting of accounts A: logins end, first connections  *)
(* are no longer pending.  The preferences are saved later.                *)
(***************************************************************************)
StopsConnecting(A) ==
  /\ count' = CountAfter(A)
  /\ LET prefs == LoginsEnd(NoLongerPending(mem, A), A) IN
       Save(prefs, FALSE,
            \/ prefs.pending # mem.pending
            \/ \E a \in A : mem.first[a] \in {"unknown", "pending"})

(***************************************************************************)
(* firstConnectionState = PENDING when accounts A start to connect; this   *)
(* is saved at once.                                                       *)
(***************************************************************************)
FirstTries(prefs, A) == {a \in A : prefs.first[a] # "ok"}
Pending(prefs, A) ==
  [prefs EXCEPT !.first =
     [a \in Account |-> IF a \in FirstTries(prefs, A) THEN "pending"
                        ELSE @[a]]]
FaultySavesNow(prefs, A) == FALSE
SavesNow(prefs, A) == FirstTries(prefs, A) # {}

(***************************************************************************)
(* _connectionInfoChanged: the next connection is the first with these     *)
(* settings, and an account that is connecting or failed tries again soon. *)
(***************************************************************************)
InfoChanged(r) ==
  [r EXCEPT !.soon = \/ @
                     \/ r.conn \in {"connecting", "disconnecting"}
                     \/ r.conn = "disconnected" /\ ErrorReason(r) # "none"]
NewSettings(prefs, A) ==
  [prefs EXCEPT !.first =
     [a \in Account |-> IF a \in A THEN "unknown" ELSE @[a]]]

-----------------------------------------------------------------------------
(* connect() *)

(***************************************************************************)
(* The password of a session is forgotten when it was refused; without a   *)
(* password the user is asked, and may cancel, type one, or have it kept.  *)
(***************************************************************************)
Forgets(r) ==
  IF ErrorReason(r) = "auth" /\ r.password = "session"
  THEN [r EXCEPT !.password = "none"] ELSE r
Asks(r) == Forgets(r).password = "none"
Types(r, kept) ==
  IF ~kept THEN [r EXCEPT !.password = "session"]
  ELSE [InfoChanged([r EXCEPT !.password = "saved"])
          EXCEPT !.own = IF @ = "missing" THEN "none" ELSE @]

ConnectOne(r, typed, kept, late) ==
  LET p == IF Asks(r) /\ typed THEN Types(Forgets(r), kept) ELSE Forgets(r)
      q == [p EXCEPT !.observer = TRUE]
  IN  IF p.password = "none" THEN p
      ELSE IF online /\ q.conn = "disconnected" THEN Connecting(q, late) ELSE q

(***************************************************************************)
(* connect() of the accounts A, which are in the states r; prefs are the   *)
(* preferences before, saved if they must be.                              *)
(***************************************************************************)
Connect(A, r, prefs, now, later) ==
  \E typed \in SUBSET {a \in A : Asks(r[a])}, late \in LateTimers :
  \E kept \in SUBSET typed :
    LET next == [a \in Account |->
                   IF a \in A
                   THEN ConnectOne(r[a], a \in typed, a \in kept, late)
                   ELSE r[a]]
        begins == {a \in A : r[a].conn # "connecting"
                             /\ next[a].conn = "connecting"}
        asked == NewSettings(prefs, kept)
    IN  /\ account' = next
        /\ Save(Pending(asked, begins), now \/ SavesNow(asked, begins),
                later \/ kept # {})

-----------------------------------------------------------------------------
(* Starts and ends of the program *)

(***************************************************************************)
(* initAccounts: an account whose first connection was pending is marked   *)
(* as crashed.  Auto-login waits for the user if the program starts        *)
(* without it (startup.action is 0, the command line says so) or in safe   *)
(* mode; then autoLoginPending is not looked at and stays.  Otherwise it   *)
(* is deleted, and makes auto-login wait for the user unless the crash     *)
(* reporter knows that there was no crash.                                 *)
(***************************************************************************)
Blamed(first) == IF first = "pending" THEN "crashed" ELSE first

InitAutoLoginStatus(disabled) ==
  IF disabled THEN waitsForLogin' = "user" /\ stale' = stale
  ELSE /\ \E crashed \in BOOLEAN :
            waitsForLogin' = IF disk.pending /\ crashed THEN "user" ELSE "core"
       /\ stale' = FALSE

Start ==
  /\ ~running /\ sessions < MaxSessions
  /\ running' = TRUE /\ sessions' = sessions + 1
  /\ LET first == [a \in Account |->
                     IF a \in disk.list THEN Blamed(disk.first[a])
                     ELSE disk.first[a]]
     IN /\ \E disabled \in BOOLEAN :
             /\ InitAutoLoginStatus(disabled)
             /\ Save([disk EXCEPT !.first = first, !.pending = @ /\ disabled],
                     FALSE, first # disk.first)
        /\ account' = [a \in Account |->
             [Fresh(account[a].password) EXCEPT
                !.own = IF Fresh(account[a].password).password = "none"
                        THEN "missing"
                        ELSE IF first[a] = "crashed" THEN "crashed"
                        ELSE "none"]]
  /\ UNCHANGED <<online, count, ops, failures>>

(***************************************************************************)
(* processAutoLogin: checkAutoLogin of every account.                      *)
(***************************************************************************)
ProcessAutoLogin ==
  LET A == {a \in mem.list \cap AutoLogin :
              account[a].own = "none"
              /\ account[a].conn \notin {"connecting", "connected"}}
  IN  /\ running /\ waitsForLogin # "nobody"
      /\ waitsForLogin' = "nobody"
      /\ count' = count + Cardinality(A)
      /\ Connect(A,
                 [a \in Account |->
                    [account[a] EXCEPT !.login = @ \/ a \in A]],
                 [mem EXCEPT !.pending = @ \/ A # {}],
                 count = 0 /\ A # {}, FALSE)
      /\ stale' = (stale /\ A = {})
      /\ UNCHANGED <<running, online, ops, failures, sessions>>

(***************************************************************************)
(* unInitAccounts, and the preferences that are saved when the program     *)
(* ends; the new objects of the next start are made by Start.              *)
(***************************************************************************)
FaultyUnInit(prefs) == prefs
UnInit(prefs) ==
  [prefs EXCEPT !.first =
     [a \in Account |-> IF @[a] = "pending" THEN "unknown" ELSE @[a]]]

Quit ==
  /\ running
  /\ running' = FALSE /\ waitsForLogin' = "nobody"
  /\ account' = [a \in Account |-> Fresh(account[a].password)]
  /\ count' = CountAfter(Account)
  /\ Save(UnInit(LoginsEnd(mem, Account)), TRUE, FALSE)
  /\ UNCHANGED <<online, stale, ops, failures, sessions>>

Crash ==
  /\ running
  /\ running' = FALSE /\ waitsForLogin' = "nobody"
  /\ account' = [a \in Account |-> Fresh(account[a].password)]
  /\ count' = 0 /\ mem' = disk /\ saveTimer' = FALSE
  /\ stale' = disk.pending
  /\ UNCHANGED <<online, disk, ops, failures, sessions>>

-----------------------------------------------------------------------------
(* What the user does *)

UserActs ==
  /\ running /\ ops < MaxOps /\ ops' = ops + 1
  /\ UNCHANGED <<running, waitsForLogin, stale, failures, sessions>>

UserConnects(a) ==
  /\ UserActs
  /\ a \in mem.list /\ account[a].conn = "disconnected"
  /\ Connect({a}, account, mem, FALSE, FALSE)
  /\ UNCHANGED <<online, count>>

RemoveStatusObserver(r) == [r EXCEPT !.observer = FALSE]

UserDisconnects(a) ==
  /\ UserActs
  /\ a \in mem.list /\ account[a].conn # "disconnected"
  /\ account' =
       [account EXCEPT ![a] = Disconnecting(a, RemoveStatusObserver(@))]
  /\ IF account[a].conn \in {"connecting", "connected"}
     THEN StopsConnecting({a})
     ELSE UNCHANGED <<count, mem, disk, saveTimer>>
  /\ UNCHANGED online

UserCancelsReconnection(a) ==
  /\ UserActs
  /\ a \in mem.list /\ account[a].conn = "disconnected" /\ account[a].timer
  /\ account' =
       [account EXCEPT ![a] = CancelReconnection(RemoveStatusObserver(@))]
  /\ UNCHANGED <<online, count, mem, disk, saveTimer>>

ChangesSettings(a) ==
  /\ UserActs
  /\ a \in mem.list
  /\ account' = [account EXCEPT ![a] = InfoChanged(@)]
  /\ Save(NewSettings(mem, {a}), FALSE, TRUE)
  /\ UNCHANGED <<online, count>>

ChangesPassword(a) ==
  /\ UserActs
  /\ a \in mem.list
  /\ account' = [account EXCEPT ![a] = Types(@, TRUE)]
  /\ Save(NewSettings(mem, {a}), FALSE, TRUE)
  /\ UNCHANGED <<online, count>>

(***************************************************************************)
(* createAccount and deleteAccount.  remove() disconnects the account,     *)
(* uninitialises it, which saves the preferences that wait for it, and     *)
(* then forgets its own.                                                   *)
(***************************************************************************)
CreatesAccount(a) ==
  /\ UserActs
  /\ a \notin mem.list
  /\ account' = [account EXCEPT ![a] = Fresh("saved")]
  /\ Save([mem EXCEPT !.list = @ \cup {a}, !.first[a] = "unknown"],
          FALSE, TRUE)
  /\ UNCHANGED <<online, count>>

DeletesAccount(a) ==
  LET prefs == LoginsEnd(NoLongerPending(mem, {a}), {a}) IN
  /\ UserActs
  /\ a \in mem.list
  /\ account' = [account EXCEPT
                   ![a] = [Fresh("none") EXCEPT !.strays = account[a].strays]]
  /\ count' = CountAfter({a})
  /\ mem' = [prefs EXCEPT !.list = @ \ {a}, !.first[a] = "ok"]
  /\ disk' = IF saveTimer \/ prefs # mem THEN prefs ELSE disk
  /\ saveTimer' = FALSE
  /\ UNCHANGED online

(***************************************************************************)
(* The status observer of each account that has one.                       *)
(***************************************************************************)
Observers == {a \in mem.list : account[a].observer}

GoOffline ==
  LET A == {a \in Observers :
              account[a].conn \in {"connecting", "connected"}}
  IN
  /\ UserActs
  /\ online /\ online' = FALSE
  /\ account' = [a \in Account |->
                   IF a \in Observers
                   THEN CancelReconnection(Disconnecting(a, account[a]))
                   ELSE account[a]]
  /\ StopsConnecting(A)

FaultyComesBack(a) ==
  account[a].conn = "disconnected" /\ ErrorReason(account[a]) = "none"
ComesBack(a) ==
  /\ account[a].conn = "disconnected"
  /\ ErrorReason(account[a]) \in {"none", "network"}

\* Also any change of the status while it is online (away, idle...).
GoOnline ==
  LET A == {a \in Observers : ComesBack(a)} IN
  /\ running /\ online' = TRUE
  /\ IF online THEN ops < MaxOps /\ ops' = ops + 1 ELSE ops' = ops
  /\ \E late \in LateTimers :
       account' = [a \in Account |->
                     IF a \in A THEN Connecting(account[a], late)
                     ELSE account[a]]
  /\ Save(Pending(mem, A), SavesNow(mem, A), FALSE)
  /\ UNCHANGED <<running, waitsForLogin, count, stale, failures, sessions>>

-----------------------------------------------------------------------------
(* What comes from the event loop: answers of the protocol, timers *)

Event ==
  running /\ UNCHANGED <<running, online, waitsForLogin, stale, ops, sessions>>

FirstConnected(prefs, a) == [prefs EXCEPT !.first[a] = "ok"]

PrplConnected(a) ==
  LET prefs == FirstConnected(LoginsEnd(mem, {a}), a) IN
  /\ Event
  /\ account[a].conn = "connecting"
  /\ account' = [account EXCEPT ![a].conn = "connected", ![a].login = FALSE]
  /\ count' = CountAfter({a})
  /\ Save(prefs, FALSE, prefs.pending # mem.pending)
  /\ UNCHANGED failures

(***************************************************************************)
(* account-disconnecting with an error and account-disconnected.           *)
(***************************************************************************)
PrplFails(a, err) ==
  /\ Event
  /\ account[a].conn \in {"connecting", "connected"}
  /\ failures < MaxFailures /\ failures' = failures + 1
  /\ LET r == [account[a] EXCEPT !.conn = "disconnected", !.err = err,
                                 !.login = FALSE]
     IN account' = [account EXCEPT ![a] =
                      IF err = "network" THEN StartReconnectTimer(r) ELSE r]
  /\ StopsConnecting({a})

(***************************************************************************)
(* account-disconnected after a disconnection without an error: the        *)
(* account connects again if its status observer is there.                 *)
(***************************************************************************)
PrplDisconnected(a) ==
  LET next == [account EXCEPT ![a].conn = "disconnected"] IN
  /\ Event
  /\ account[a].conn = "disconnecting"
  /\ IF account[a].observer /\ online
     THEN Connect({a}, next, mem, FALSE, FALSE)
     ELSE account' = next /\ UNCHANGED <<mem, disk, saveTimer>>
  /\ UNCHANGED <<count, failures>>

(***************************************************************************)
(* A reconnection timer calls connect(), which throws when the account was *)
(* deleted.                                                                *)
(***************************************************************************)
Fires(a, next) ==
  /\ IF a \in mem.list THEN Connect({a}, next, mem, FALSE, FALSE)
     ELSE account' = next /\ UNCHANGED <<mem, disk, saveTimer>>
  /\ UNCHANGED <<count, failures>>

TimerFires(a) ==
  /\ Event
  /\ \/ /\ account[a].timer
        /\ Fires(a, [account EXCEPT ![a].timer = FALSE])
     \/ /\ account[a].strays > 0
        /\ Fires(a, [account EXCEPT ![a].strays = @ - 1])

(***************************************************************************)
(* The call _connectionInfoChanged made with executeSoon.  A connection    *)
(* attempt is given up for one with the new settings.                      *)
(***************************************************************************)
TriesAgain(a) == ErrorReason(account[a]) \in {"network", "auth"}

RunSoon(a) ==
  LET r == [account[a] EXCEPT !.soon = FALSE]
      stopped == Disconnecting(a, RemoveStatusObserver(r))
      prefs == LoginsEnd(NoLongerPending(mem, {a}), {a})
  IN  /\ Event
      /\ account[a].soon
      /\ \/ /\ r.conn = "connecting"
            /\ count' = CountAfter({a})
            /\ Connect({a}, [account EXCEPT ![a] = stopped], prefs,
                       FALSE, TRUE)
         \/ /\ r.conn = "disconnected" /\ TriesAgain(a) /\ a \in mem.list
            /\ Connect({a}, [account EXCEPT ![a] = r], mem, FALSE, FALSE)
            /\ UNCHANGED count
         \/ /\ r.conn # "connecting"
            /\ ~(r.conn = "disconnected" /\ TriesAgain(a))
            /\ account' = [account EXCEPT ![a] = r]
            /\ UNCHANGED <<count, mem, disk, saveTimer>>
      /\ UNCHANGED failures

UserStep(a) ==
  \/ UserConnects(a) \/ UserDisconnects(a) \/ UserCancelsReconnection(a)
  \/ ChangesSettings(a) \/ ChangesPassword(a) \/ CreatesAccount(a)
  \/ DeletesAccount(a)
EventStep(a) ==
  \/ PrplConnected(a) \/ (\E err \in {"network", "auth"} : PrplFails(a, err))
  \/ PrplDisconnected(a) \/ TimerFires(a) \/ RunSoon(a)

Next ==
  \/ Start \/ ProcessAutoLogin \/ Quit \/ Crash \/ SaveTimerFires
  \/ GoOffline \/ GoOnline
  \/ \E a \in Account : UserStep(a) \/ EventStep(a)

Spec == Init /\ [][Next]_vars

(***************************************************************************)
(* The event loop runs timers and calls, the protocol answers each request *)
(* or breaks it.  Nothing obliges the user, the network or the program to  *)
(* do anything.                                                            *)
(***************************************************************************)
FairSpec ==
  /\ Spec
  /\ WF_vars(SaveTimerFires)
  /\ \A a \in Account :
       /\ WF_vars(PrplConnected(a)) /\ WF_vars(PrplDisconnected(a))
       /\ WF_vars(TimerFires(a)) /\ WF_vars(RunSoon(a))

-----------------------------------------------------------------------------
(* Properties *)

(***************************************************************************)
(* AutoLoginCounter: while the auto-login of an account goes on, the       *)
(* counter counts it and the preference that tells the next start of a     *)
(* crash is on disk.  When none goes on, it is set only if an earlier      *)
(* crash has left it (_initAutoLoginStatus keeps it when the program       *)
(* starts without auto-login); the first auto-login replaces it.           *)
(***************************************************************************)
LoginsAreRecorded ==
  /\ count = Cardinality(LoggingIn(Account))
  /\ mem.pending = (count > 0 \/ stale)
  /\ count > 0 => disk.pending /\ ~stale

(***************************************************************************)
(* If the program crashes while an account connects for the first time     *)
(* with its settings, the preferences on disk say so and the next start    *)
(* does not connect it by itself: imAccount writes them at once.           *)
(***************************************************************************)
CrashIsBlamed ==
  [][Crash => \A a \in mem.list :
       /\ account[a].conn = "connecting" /\ ~account[a].soon
       /\ mem.first[a] # "ok"
       => mem'.first[a] = "pending"]_vars

(***************************************************************************)
(* unInit: the start that follows a normal end blames no account for a     *)
(* crash, and no auto-login either, unless the session that has ended was  *)
(* itself started without auto-login, with a crash not dealt with.         *)
(***************************************************************************)
QuitIsNoCrash ==
  [][Quit => /\ disk'.pending => stale
             /\ \A a \in Account : disk'.first[a] # "pending"]_vars

(***************************************************************************)
(* disconnect() and cancelReconnection() hold: without the status observer *)
(* that they remove, nothing but the user, the auto-login of a start or    *)
(* new settings make an account connect.                                   *)
(***************************************************************************)
NoUnaskedConnect ==
  [][\A a \in Account :
       account[a].conn # "connecting" /\ account'[a].conn = "connecting"
       => \/ account[a].observer \/ account[a].soon
          \/ ops' # ops \/ waitsForLogin' # waitsForLogin]_vars

(***************************************************************************)
(* An account that lost its connection to a network error, and that the    *)
(* user has not disconnected, has a reconnection timer while the status is *)
(* online.  (One that was once marked as crashed has none after it was     *)
(* offline: its mark outlives its next connection.)                        *)
(***************************************************************************)
RetryIsScheduled ==
  \A a \in mem.list :
    /\ running /\ online /\ account[a].observer
    /\ account[a].conn = "disconnected" /\ ErrorReason(account[a]) = "network"
    => account[a].timer

(***************************************************************************)
(* Every auto-login ends while the status is online and the user does not  *)
(* stop it: with a connection, an error, or the end of the program.  (One  *)
(* that begins offline does not if the last error of its account is not    *)
(* retried.)                                                               *)
(***************************************************************************)
LoginsEndAtLast ==
  \A a \in Account :
    account[a].login /\ ErrorReason(account[a]) # "auth"
    ~> ~account[a].login \/ ~online \/ ~account[a].observer
=============================================================================
