--------------------------- MODULE ImAccountsProofs ---------------------------
(***************************************************************************)
(* Proofs about ImAccounts for every finite set of accounts and any number *)
(* of sessions, user actions and failures.                                 *)
(***************************************************************************)
EXTENDS ImAccounts, FiniteSetTheorems, TLAPS

(***************************************************************************)
(* Without timers that fire after their account began to connect.          *)
(***************************************************************************)
PromptTimers == LateTimers \subseteq {FALSE}

(***************************************************************************)
(* The auto-logins and the counter; none goes on while the program does    *)
(* not run, or has not begun them yet, and none of a deleted account; a    *)
(* marker on disk while the program does not run was left by a crash.      *)
(***************************************************************************)
Logins ==
  /\ LoginsAreRecorded
  /\ ~running => count = 0 /\ waitsForLogin = "nobody"
  /\ ~running => (disk.pending <=> stale)
  /\ waitsForLogin # "nobody" => count = 0
  /\ \A a \in Account \ mem.list : ~account[a].login

(***************************************************************************)
(* A first connection in progress is known to the preferences, in memory   *)
(* and on disk.                                                            *)
(***************************************************************************)
Blames ==
  \A a \in mem.list :
    account[a].conn = "connecting" /\ ~account[a].soon /\ mem.first[a] # "ok"
      => mem.first[a] = "pending" /\ disk.first[a] = "pending"

(***************************************************************************)
(* Who is connected, connecting or has a timer has a status observer; the  *)
(* timer of a disconnected account is there for a network error; whoever   *)
(* has an observer has a password, unless it was refused.                  *)
(***************************************************************************)
Sound(r) ==
  /\ r.strays = 0
  /\ r.timer => r.conn = "disconnected" /\ r.err = "network" /\ r.observer
  /\ r.conn \in {"connecting", "connected"} => r.observer
  /\ r.conn # "disconnected" => r.password # "none"
  /\ r.conn = "disconnecting" => r.err = "none"
  /\ r.observer /\ r.password = "none" => r.err = "auth"

(***************************************************************************)
(* RetryIsScheduled for one account, which is online or not.               *)
(***************************************************************************)
Retried(r, on) ==
  on /\ r.observer /\ r.conn = "disconnected" /\ ErrorReason(r) = "network"
    => r.timer

Retries ==
  /\ \A a \in Account : Sound(account[a]) /\ Retried(account[a], online)
  /\ \A a \in Account \ mem.list :
       account[a].conn = "disconnected" /\ ~account[a].observer

-----------------------------------------------------------------------------
(* What the methods make of one account.                                   *)
-----------------------------------------------------------------------------
LEMMA Parts ==
  ASSUME NEW r \in ImAccount, online \in BOOLEAN
  PROVE  /\ Forgets(r) \in ImAccount
         /\ InfoChanged(r) \in ImAccount
         /\ CancelReconnection(r) \in ImAccount
         /\ RemoveStatusObserver(r) \in ImAccount
         /\ StartReconnectTimer(r) \in ImAccount
         /\ \A late \in BOOLEAN : Connecting(r, late) \in ImAccount
         /\ \A a \in Account : Disconnecting(a, r) \in ImAccount
  <1>1. Forgets(r) \in ImAccount
    BY DEF Forgets, ImAccount
  <1>2. InfoChanged(r) \in ImAccount
    BY DEF InfoChanged, ImAccount
  <1>3. CancelReconnection(r) \in ImAccount
    BY DEF CancelReconnection, ImAccount
  <1>4. RemoveStatusObserver(r) \in ImAccount
    BY DEF RemoveStatusObserver, ImAccount
  <1>5. StartReconnectTimer(r) \in ImAccount
    <2>1. CASE online
      <3> DEFINE n == r.strays + (IF r.timer THEN 1 ELSE 0)
      <3>1. n \in Nat
        BY DEF ImAccount
      <3>2. StartReconnectTimer(r) = [r EXCEPT !.timer = TRUE, !.strays = n]
        BY <2>1 DEF StartReconnectTimer
      <3> HIDE DEF n
      <3> QED
        BY <3>1, <3>2 DEF ImAccount
    <2> QED
      BY <2>1 DEF StartReconnectTimer
  <1>6. \A late \in BOOLEAN : Connecting(r, late) \in ImAccount
    BY <1>3 DEF Connecting, ImAccount, Conn
  <1>7. \A a \in Account : Disconnecting(a, r) \in ImAccount
    BY DEF Disconnecting, ImAccount, Conn
  <1> QED
    BY <1>1, <1>2, <1>3, <1>4, <1>5, <1>6, <1>7

LEMMA TypesType ==
  ASSUME NEW r \in ImAccount, NEW kept \in BOOLEAN
  PROVE  Types(r, kept) \in ImAccount
  <1>1. CASE ~kept
    BY <1>1 DEF Types, ImAccount
  <1>2. CASE kept
    <2> DEFINE p == [r EXCEPT !.password = "saved"]
    <2>1. p \in ImAccount
      BY DEF ImAccount
    <2>2. InfoChanged(p) \in ImAccount
      BY <2>1 DEF InfoChanged, ImAccount
    <2> QED
      BY <1>2, <2>2 DEF Types, ImAccount
  <1> QED
    BY <1>1, <1>2

LEMMA ConnectOneType ==
  ASSUME NEW r \in ImAccount, online \in BOOLEAN,
         NEW typed \in BOOLEAN, NEW kept \in BOOLEAN, NEW late \in BOOLEAN
  PROVE  ConnectOne(r, typed, kept, late) \in ImAccount
  <1> DEFINE p == IF Asks(r) /\ typed THEN Types(Forgets(r), kept)
                  ELSE Forgets(r)
             q == [p EXCEPT !.observer = TRUE]
  <1>1. p \in ImAccount
    BY Parts, TypesType
  <1>2. q \in ImAccount
    BY <1>1 DEF ImAccount
  <1>3. Connecting(q, late) \in ImAccount
    BY <1>2, Parts
  <1> HIDE DEF p, q
  <1> QED
    BY <1>1, <1>2, <1>3 DEF ConnectOne, p, q

(***************************************************************************)
(* The preferences.                                                        *)
(***************************************************************************)
LEMMA PrefsTypes ==
  ASSUME NEW prefs \in Prefs, NEW A \in SUBSET Account
  PROVE  /\ NoLongerPending(prefs, A) \in Prefs
         /\ LoginsEnd(prefs, A) \in Prefs
         /\ Pending(prefs, A) \in Prefs
         /\ NewSettings(prefs, A) \in Prefs
         /\ UnInit(prefs) \in Prefs
         /\ \A a \in Account : FirstConnected(prefs, a) \in Prefs
  <1>1. NoLongerPending(prefs, A) \in Prefs
    BY DEF NoLongerPending, Prefs, First
  <1>2. LoginsEnd(prefs, A) \in Prefs
    BY DEF LoginsEnd, Prefs
  <1>3. Pending(prefs, A) \in Prefs
    BY DEF Pending, Prefs, First
  <1>4. NewSettings(prefs, A) \in Prefs
    BY DEF NewSettings, Prefs, First
  <1>5. UnInit(prefs) \in Prefs
    BY DEF UnInit, Prefs, First
  <1>6. \A a \in Account : FirstConnected(prefs, a) \in Prefs
    BY DEF FirstConnected, Prefs, First
  <1> QED
    BY <1>1, <1>2, <1>3, <1>4, <1>5, <1>6

LEMMA PrefsFields ==
  ASSUME NEW prefs \in Prefs, NEW A \in SUBSET Account
  PROVE  /\ NoLongerPending(prefs, A).pending = prefs.pending
         /\ NoLongerPending(prefs, A).list = prefs.list
         /\ LoginsEnd(prefs, A).list = prefs.list
         /\ LoginsEnd(prefs, A).first = prefs.first
         /\ Pending(prefs, A).pending = prefs.pending
         /\ Pending(prefs, A).list = prefs.list
         /\ NewSettings(prefs, A).pending = prefs.pending
         /\ NewSettings(prefs, A).list = prefs.list
         /\ \A a \in Account : /\ FirstConnected(prefs, a).pending = prefs.pending
                               /\ FirstConnected(prefs, a).list = prefs.list
  BY DEF NoLongerPending, LoginsEnd, Pending, NewSettings, FirstConnected, Prefs

LEMMA SaveEffects ==
  ASSUME TypeOK, NEW prefs \in Prefs, NEW now \in BOOLEAN, NEW later \in BOOLEAN,
         Save(prefs, now, later)
  PROVE  /\ mem' = prefs
         /\ disk' = prefs \/ (disk' = disk /\ ~now)
         /\ mem' \in Prefs /\ disk' \in Prefs /\ saveTimer' \in BOOLEAN
  BY DEF Save, TypeOK

(***************************************************************************)
(* connect() of several accounts.                                          *)
(***************************************************************************)
LEMMA LoginKept ==
  ASSUME NEW r \in ImAccount, online \in BOOLEAN,
         NEW typed \in BOOLEAN, NEW kept \in BOOLEAN, NEW late \in BOOLEAN
  PROVE  ConnectOne(r, typed, kept, late).login = r.login
  <1> DEFINE p == IF Asks(r) /\ typed THEN Types(Forgets(r), kept)
                  ELSE Forgets(r)
             q == [p EXCEPT !.observer = TRUE]
  <1>1. Forgets(r) \in ImAccount /\ Forgets(r).login = r.login
    BY Parts DEF Forgets, ImAccount
  <1>2. \A x \in ImAccount : Types(x, kept).login = x.login
    BY DEF Types, InfoChanged, ImAccount
  <1>3. p \in ImAccount /\ p.login = r.login
    BY <1>1, <1>2, TypesType
  <1>4. q \in ImAccount /\ q.login = r.login
    BY <1>3 DEF ImAccount
  <1>5. Connecting(q, late).login = q.login
    BY <1>4 DEF Connecting, CancelReconnection, ImAccount
  <1> HIDE DEF p, q
  <1> QED
    BY <1>3, <1>4, <1>5 DEF ConnectOne, p, q

LEMMA ConnectEffects ==
  ASSUME TypeOK, NEW A \in SUBSET Account, NEW r \in [Account -> ImAccount],
         NEW prefs \in Prefs, NEW now \in BOOLEAN, NEW later \in BOOLEAN,
         Connect(A, r, prefs, now, later)
  PROVE  /\ account' \in [Account -> ImAccount]
         /\ mem' \in Prefs /\ disk' \in Prefs /\ saveTimer' \in BOOLEAN
         /\ \A a \in Account : account'[a].login = r[a].login
         /\ mem'.pending = prefs.pending /\ mem'.list = prefs.list
         /\ disk' = mem' \/ (disk' = disk /\ ~now)
  <1> DEFINE Next1(typed, kept, late) ==
               [a \in Account |->
                  IF a \in A THEN ConnectOne(r[a], a \in typed, a \in kept, late)
                  ELSE r[a]]
             Begins(n) == {a \in A : r[a].conn # "connecting"
                                     /\ n[a].conn = "connecting"}
  <1>1. PICK typed \in SUBSET {a \in A : Asks(r[a])}, late \in LateTimers :
          \E kept \in SUBSET typed :
            LET n == Next1(typed, kept, late)
                b == Begins(n)
                asked == NewSettings(prefs, kept)
            IN  /\ account' = n
                /\ Save(Pending(asked, b), now \/ SavesNow(asked, b),
                        later \/ kept # {})
    BY DEF Connect
  <1>2. PICK kept \in SUBSET typed :
            LET n == Next1(typed, kept, late)
                b == Begins(n)
                asked == NewSettings(prefs, kept)
            IN  /\ account' = n
                /\ Save(Pending(asked, b), now \/ SavesNow(asked, b),
                        later \/ kept # {})
    BY <1>1
  <1> DEFINE n == Next1(typed, kept, late)
             b == Begins(n)
             asked == NewSettings(prefs, kept)
  <1>3. late \in BOOLEAN /\ online \in BOOLEAN
    BY AccountAssumption DEF TypeOK
  <1>4. \A a \in Account :
          ConnectOne(r[a], a \in typed, a \in kept, late) \in ImAccount
          /\ ConnectOne(r[a], a \in typed, a \in kept, late).login = r[a].login
    <2> TAKE a \in Account
    <2>1. r[a] \in ImAccount /\ (a \in typed) \in BOOLEAN /\ (a \in kept) \in BOOLEAN
      OBVIOUS
    <2> QED
      BY <1>3, <2>1, ConnectOneType, LoginKept
  <1>5. account' \in [Account -> ImAccount]
    BY <1>2, <1>4
  <1>6. \A a \in Account : account'[a].login = r[a].login
    BY <1>2, <1>4
  <1>7. kept \in SUBSET Account /\ b \in SUBSET Account
    OBVIOUS
  <1>8. asked \in Prefs /\ asked.pending = prefs.pending /\ asked.list = prefs.list
    BY <1>7, PrefsTypes, PrefsFields
  <1>9. Pending(asked, b) \in Prefs /\ Pending(asked, b).pending = prefs.pending
        /\ Pending(asked, b).list = prefs.list
    BY <1>7, <1>8, PrefsTypes, PrefsFields
  <1>10. (now \/ SavesNow(asked, b)) \in BOOLEAN /\ (later \/ kept # {}) \in BOOLEAN
    BY DEF SavesNow
  <1>11. Save(Pending(asked, b), now \/ SavesNow(asked, b), later \/ kept # {})
    BY <1>2
  <1> HIDE DEF asked, b, n
  <1>12. /\ mem' = Pending(asked, b)
         /\ disk' = Pending(asked, b) \/ (disk' = disk /\ ~now)
         /\ mem' \in Prefs /\ disk' \in Prefs /\ saveTimer' \in BOOLEAN
    BY <1>9, <1>10, <1>11, SaveEffects
  <1> QED
    BY <1>5, <1>6, <1>9, <1>12

-----------------------------------------------------------------------------
(* The auto-logins.                                                        *)
-----------------------------------------------------------------------------
TL == TypeOK /\ Logins

LEMMA Counting ==
  ASSUME TL, NEW A \in SUBSET Account
  PROVE  /\ count = Cardinality(LoggingIn(Account))
         /\ Cardinality(LoggingIn(A)) \in Nat
         /\ CountAfter(A) = Cardinality(LoggingIn(Account \ A))
         /\ CountAfter(A) \in Nat
         /\ LoggingIn(A) # {} <=> Cardinality(LoggingIn(A)) > 0
  <1> DEFINE all == LoggingIn(Account)
             some == LoggingIn(A)
  <1>1. count = Cardinality(all)
    BY DEF TL, Logins, LoginsAreRecorded
  <1>2. IsFiniteSet(all) /\ IsFiniteSet(some) /\ IsFiniteSet(all \ some)
    <2>1. all \subseteq Account /\ some \subseteq Account /\ all \ some \subseteq all
      BY DEF LoggingIn
    <2> QED
      BY <2>1, AccountAssumption, FS_Subset
  <1>3. Cardinality(all \ some) = Cardinality(all) - Cardinality(all \cap some)
    BY <1>2, FS_Difference
  <1>4. all \cap some = some /\ all \ some = LoggingIn(Account \ A)
    BY DEF LoggingIn
  <1>5. Cardinality(some) \in Nat /\ Cardinality(all \ some) \in Nat
    BY <1>2, FS_CardinalityType
  <1>6. some # {} <=> Cardinality(some) > 0
    BY <1>2, <1>5, FS_EmptySet
  <1> QED
    BY <1>1, <1>3, <1>4, <1>5, <1>6 DEF CountAfter

(***************************************************************************)
(* What most steps do: the logins of the accounts A end.                   *)
(***************************************************************************)
Effect(A) ==
  /\ account' \in [Account -> ImAccount]
  /\ mem' \in Prefs /\ disk' \in Prefs /\ saveTimer' \in BOOLEAN
  /\ \A a \in Account : account'[a].login <=> (account[a].login /\ a \notin A)
  /\ count' = CountAfter(A)
  /\ mem'.pending = LoginsEnd(mem, A).pending
  /\ mem.list \ A \subseteq mem'.list
  /\ disk'.pending \in {disk.pending, mem'.pending}
  /\ running' = running /\ waitsForLogin' = waitsForLogin /\ stale' = stale

Bounded ==
  /\ online' \in BOOLEAN
  /\ ops' \in 0..MaxOps /\ failures' \in 0..MaxFailures
  /\ sessions' \in 0..MaxSessions

LEMMA EffectKeeps ==
  ASSUME TL, NEW A \in SUBSET Account, Effect(A), Bounded
  PROVE  TL'
  <1>1. /\ CountAfter(A) = Cardinality(LoggingIn(Account \ A))
        /\ CountAfter(A) \in Nat /\ count \in Nat
        /\ CountAfter(A) = count - Cardinality(LoggingIn(A))
        /\ Cardinality(LoggingIn(A)) \in Nat
        /\ LoggingIn(A) # {} <=> Cardinality(LoggingIn(A)) > 0
    BY Counting DEF TL, TypeOK, CountAfter
  <1>2. LoggingIn(Account)' = LoggingIn(Account \ A)
    BY DEF LoggingIn, Effect
  <1>3. count' = Cardinality(LoggingIn(Account))' /\ count' \in Nat
    BY <1>1, <1>2 DEF Effect
  <1>4. count' <= count
    BY <1>1 DEF Effect
  <1>5. mem'.pending <=> (count' > 0 \/ stale)
    <2>2. /\ mem.pending <=> (count > 0 \/ stale)
          /\ count > 0 => ~stale
      BY DEF TL, Logins, LoginsAreRecorded
    <2>3. CASE LoggingIn(A) = {}
      BY <2>2, <2>3, <1>1 DEF Effect, LoginsEnd
    <2>4. CASE LoggingIn(A) # {} /\ count = Cardinality(LoggingIn(A))
      <3>1. LoginsEnd(mem, A).pending = FALSE
        BY <2>4 DEF LoginsEnd, TL, TypeOK, Prefs
      <3>2. ~(CountAfter(A) > 0) /\ count > 0
        BY <2>4, <1>1
      <3>3. ~stale
        BY <2>2, <3>2
      <3>4. mem'.pending = FALSE /\ ~(count' > 0)
        BY <3>1, <3>2 DEF Effect
      <3> QED
        BY <3>3, <3>4
    <2>5. CASE LoggingIn(A) # {} /\ count # Cardinality(LoggingIn(A))
      <3>1. CountAfter(A) > 0 /\ count > 0
        BY <2>5, <1>1
      <3> QED
        BY <2>2, <2>5, <3>1 DEF Effect, LoginsEnd
    <2> QED
      BY <2>3, <2>4, <2>5
  <1>6. count' > 0 => disk'.pending /\ ~stale'
    <2>1. SUFFICES ASSUME count' > 0 PROVE disk'.pending /\ ~stale'
      OBVIOUS
    <2>2. count > 0
      BY <2>1, <1>3, <1>4, <1>1
    <2>3. disk.pending /\ running /\ ~stale
      BY <2>2, <1>1 DEF TL, Logins, LoginsAreRecorded
    <2> QED
      BY <2>1, <2>3, <1>5 DEF Effect
  <1>7. /\ ~running' => count' = 0 /\ waitsForLogin' = "nobody"
        /\ waitsForLogin' # "nobody" => count' = 0
    BY <1>1, <1>3, <1>4 DEF Effect, TL, Logins
  <1>8. TypeOK'
    BY <1>3 DEF TL, TypeOK, Effect, Bounded
  <1>9. mem'.pending = (count' > 0 \/ stale')
    BY <1>5, <1>8 DEF TypeOK, Prefs, Effect
  <1>11. ~running' => (disk'.pending <=> stale')
    <2>1. SUFFICES ASSUME ~running PROVE disk'.pending <=> stale
      BY DEF Effect
    <2>2. (disk.pending <=> stale) /\ ~(count' > 0)
      BY <1>7, <2>1 DEF TL, Logins, Effect
    <2> QED
      BY <1>5, <2>1, <2>2 DEF Effect
  <1>10. \A a \in Account \ mem'.list : ~account'[a].login
    BY DEF Effect, TL, Logins
  <1> QED
    BY <1>3, <1>6, <1>7, <1>8, <1>9, <1>10, <1>11 DEF TL, Logins, LoginsAreRecorded

(***************************************************************************)
(* The parts the actions are made of, as effects.                          *)
(***************************************************************************)
LEMMA NoLoginEnds ==
  ASSUME TL
  PROVE  CountAfter({}) = count /\ LoginsEnd(mem, {}) = mem
  <1>1. LoggingIn({}) = {} /\ count \in Nat
    BY DEF LoggingIn, TL, TypeOK
  <1> QED
    BY <1>1, FS_EmptySet DEF CountAfter, LoginsEnd

LEMMA LoginsEndPending ==
  ASSUME TypeOK, NEW A \in SUBSET Account, NEW prefs \in Prefs,
         prefs.pending = mem.pending
  PROVE  LoginsEnd(prefs, A).pending = LoginsEnd(mem, A).pending
  <1>1. mem \in Prefs
    BY DEF TypeOK
  <1>2. CASE LoggingIn(A) # {} /\ count = Cardinality(LoggingIn(A))
    <2>1. [prefs EXCEPT !.pending = FALSE].pending = FALSE
          /\ [mem EXCEPT !.pending = FALSE].pending = FALSE
      BY <1>1 DEF Prefs
    <2> QED
      BY <1>2, <2>1 DEF LoginsEnd
  <1> QED
    BY <1>2 DEF LoginsEnd

LEMMA StopsEffects ==
  ASSUME TypeOK, NEW A \in SUBSET Account, StopsConnecting(A)
  PROVE  /\ count' = CountAfter(A)
         /\ mem' \in Prefs /\ disk' \in Prefs /\ saveTimer' \in BOOLEAN
         /\ mem'.pending = LoginsEnd(mem, A).pending
         /\ mem'.list = mem.list
         /\ mem'.first = NoLongerPending(mem, A).first
         /\ disk' = mem' \/ disk' = disk
  <1> DEFINE p == NoLongerPending(mem, A)
             q == LoginsEnd(p, A)
  <1>1. mem \in Prefs
    BY DEF TypeOK
  <1>2. p \in Prefs /\ p.pending = mem.pending /\ p.list = mem.list
    BY <1>1, PrefsTypes, PrefsFields
  <1>3. /\ q \in Prefs /\ q.list = p.list /\ q.first = p.first
        /\ q.pending = LoginsEnd(mem, A).pending
    BY <1>2, PrefsTypes, PrefsFields, LoginsEndPending
  <1>4. \E later \in BOOLEAN : Save(q, FALSE, later)
    BY DEF StopsConnecting
  <1>5. PICK later \in BOOLEAN : Save(q, FALSE, later)
    BY <1>4
  <1> HIDE DEF p, q
  <1>6. mem' = q /\ (disk' = q \/ disk' = disk)
        /\ mem' \in Prefs /\ disk' \in Prefs /\ saveTimer' \in BOOLEAN
    BY <1>3, <1>5, SaveEffects
  <1>7. count' = CountAfter(A)
    BY DEF StopsConnecting
  <1> QED
    BY <1>2, <1>3, <1>6, <1>7 DEF p

LEMMA QuietEffect ==
  ASSUME TL, account' \in [Account -> ImAccount],
         \A a \in Account : account'[a].login = account[a].login,
         mem' \in Prefs, disk' \in Prefs, saveTimer' \in BOOLEAN,
         mem'.pending = mem.pending, mem.list \subseteq mem'.list,
         disk'.pending \in {disk.pending, mem'.pending},
         count' = count, running' = running, waitsForLogin' = waitsForLogin,
         stale' = stale
  PROVE  Effect({})
  BY NoLoginEnds DEF Effect

LEMMA QuietConnect ==
  ASSUME TL, NEW A \in SUBSET Account, NEW r \in [Account -> ImAccount],
         \A a \in Account : r[a].login = account[a].login,
         Connect(A, r, mem, FALSE, FALSE),
         count' = count, running' = running, waitsForLogin' = waitsForLogin,
         stale' = stale
  PROVE  Effect({})
  <1>1. /\ account' \in [Account -> ImAccount]
        /\ mem' \in Prefs /\ disk' \in Prefs /\ saveTimer' \in BOOLEAN
        /\ \A a \in Account : account'[a].login = r[a].login
        /\ mem'.pending = mem.pending /\ mem'.list = mem.list
        /\ disk' = mem' \/ disk' = disk
    BY ConnectEffects DEF TL, TypeOK
  <1>2. \A a \in Account : account'[a].login = account[a].login
    BY <1>1
  <1> QED
    BY <1>1, <1>2, QuietEffect

LEMMA PartsLogins ==
  ASSUME NEW r \in ImAccount, online \in BOOLEAN
  PROVE  /\ InfoChanged(r).login = r.login
         /\ CancelReconnection(r).login = r.login
         /\ RemoveStatusObserver(r).login = r.login
         /\ RemoveStatusObserver(r).conn = r.conn
         /\ StartReconnectTimer(r).login = r.login
         /\ \A late \in BOOLEAN : Connecting(r, late).login = r.login
         /\ \A kept \in BOOLEAN : Types(r, kept).login = r.login
         /\ \A a \in Account : Disconnecting(a, r).login =
              IF r.conn \in {"connecting", "connected"} THEN FALSE ELSE r.login
  <1>1. /\ InfoChanged(r).login = r.login
        /\ CancelReconnection(r).login = r.login
        /\ RemoveStatusObserver(r).login = r.login
        /\ RemoveStatusObserver(r).conn = r.conn
        /\ StartReconnectTimer(r).login = r.login
    BY DEF InfoChanged, CancelReconnection, RemoveStatusObserver,
           StartReconnectTimer, ImAccount
  <1>2. \A late \in BOOLEAN : Connecting(r, late).login = r.login
    BY DEF Connecting, CancelReconnection, ImAccount
  <1>3. \A kept \in BOOLEAN : Types(r, kept).login = r.login
    BY DEF Types, InfoChanged, ImAccount
  <1>4. \A a \in Account : Disconnecting(a, r).login =
              IF r.conn \in {"connecting", "connected"} THEN FALSE ELSE r.login
    BY DEF Disconnecting, ImAccount
  <1> QED
    BY <1>1, <1>2, <1>3, <1>4

(***************************************************************************)
(* What the user does.                                                     *)
(***************************************************************************)
LEMMA UserBounds ==
  ASSUME TypeOK, UserActs, online' \in BOOLEAN
  PROVE  /\ Bounded /\ running' = running
         /\ waitsForLogin' = waitsForLogin /\ stale' = stale
  BY AccountAssumption DEF TypeOK, UserActs, Bounded

LEMMA UserSteps ==
  ASSUME TL, NEW a \in Account, UserStep(a)
  PROVE  TL'
  <1>1. UserActs /\ online' \in BOOLEAN
    BY DEF UserStep, UserConnects, UserDisconnects, UserCancelsReconnection,
           ChangesSettings, ChangesPassword, CreatesAccount, DeletesAccount,
           TL, TypeOK
  <1>2. /\ Bounded /\ running' = running
        /\ waitsForLogin' = waitsForLogin /\ stale' = stale
    BY <1>1, UserBounds DEF TL
  <1>3. /\ account \in [Account -> ImAccount] /\ account[a] \in ImAccount
        /\ mem \in Prefs /\ disk \in Prefs /\ saveTimer \in BOOLEAN
        /\ online \in BOOLEAN
    BY DEF TL, TypeOK
  <1>4. {a} \in SUBSET Account /\ {} \in SUBSET Account
    OBVIOUS
  <1>5. CASE UserConnects(a)
    <2>1. Effect({})
      BY <1>2, <1>3, <1>4, <1>5, QuietConnect DEF UserConnects
    <2> QED
      BY <1>2, <1>4, <2>1, EffectKeeps
  <1>6. CASE UserDisconnects(a)
    <2> DEFINE r == RemoveStatusObserver(account[a])
    <2>1. /\ Disconnecting(a, r) \in ImAccount
          /\ Disconnecting(a, r).login =
               IF account[a].conn \in {"connecting", "connected"}
               THEN FALSE ELSE account[a].login
      BY <1>3, Parts, PartsLogins
    <2>2. account' = [account EXCEPT ![a] = Disconnecting(a, r)]
      BY <1>6 DEF UserDisconnects
    <2> HIDE DEF r
    <2>3. /\ account' \in [Account -> ImAccount]
          /\ account'[a].login = Disconnecting(a, r).login
          /\ \A b \in Account : b # a => account'[b].login = account[b].login
      BY <1>3, <2>1, <2>2
    <2>4. CASE account[a].conn \in {"connecting", "connected"}
      <3>1. StopsConnecting({a})
        BY <1>6, <2>4 DEF UserDisconnects
      <3>2. ~account'[a].login
        BY <2>1, <2>3, <2>4
      <3>3. Effect({a})
        BY <1>2, <1>4, <2>3, <3>1, <3>2, StopsEffects DEF Effect, TL
      <3> QED
        BY <1>2, <1>4, <3>3, EffectKeeps
    <2>5. CASE account[a].conn \notin {"connecting", "connected"}
      <3>1. UNCHANGED <<count, mem, disk, saveTimer>>
        BY <1>6, <2>5 DEF UserDisconnects
      <3>2. \A b \in Account : account'[b].login = account[b].login
        BY <2>1, <2>3, <2>5
      <3>3. Effect({})
        BY <1>2, <1>3, <2>3, <3>1, <3>2, QuietEffect
      <3> QED
        BY <1>2, <1>4, <3>3, EffectKeeps
    <2> QED
      BY <2>4, <2>5
  <1>7. CASE UserCancelsReconnection(a)
    <2> DEFINE r == CancelReconnection(RemoveStatusObserver(account[a]))
    <2>1. r \in ImAccount /\ r.login = account[a].login
      BY <1>3, Parts, PartsLogins
    <2>2. /\ account' = [account EXCEPT ![a] = r]
          /\ UNCHANGED <<count, mem, disk, saveTimer>>
      BY <1>7 DEF UserCancelsReconnection
    <2> HIDE DEF r
    <2>3. /\ account' \in [Account -> ImAccount]
          /\ \A b \in Account : account'[b].login = account[b].login
      BY <1>3, <2>1, <2>2
    <2>4. Effect({})
      BY <1>2, <1>3, <2>2, <2>3, QuietEffect
    <2> QED
      BY <1>2, <1>4, <2>4, EffectKeeps
  <1>8. CASE ChangesSettings(a) \/ ChangesPassword(a)
    <2>1. PICK r \in {InfoChanged(account[a]), Types(account[a], TRUE)} :
            /\ account' = [account EXCEPT ![a] = r]
            /\ Save(NewSettings(mem, {a}), FALSE, TRUE)
            /\ count' = count
      BY <1>8 DEF ChangesSettings, ChangesPassword
    <2>2. r \in ImAccount /\ r.login = account[a].login
      BY <1>3, Parts, PartsLogins, TypesType
    <2>3. /\ account' \in [Account -> ImAccount]
          /\ \A b \in Account : account'[b].login = account[b].login
      BY <1>3, <2>1, <2>2
    <2>4. /\ NewSettings(mem, {a}) \in Prefs
          /\ NewSettings(mem, {a}).pending = mem.pending
          /\ NewSettings(mem, {a}).list = mem.list
      BY <1>3, <1>4, PrefsTypes, PrefsFields
    <2>5. /\ mem' = NewSettings(mem, {a})
          /\ disk' = mem' \/ disk' = disk
          /\ mem' \in Prefs /\ disk' \in Prefs /\ saveTimer' \in BOOLEAN
      BY <2>1, <2>4, SaveEffects DEF TL
    <2>6. Effect({})
      BY <1>2, <2>1, <2>3, <2>4, <2>5, QuietEffect
    <2> QED
      BY <1>2, <1>4, <2>6, EffectKeeps
  <1>9. CASE CreatesAccount(a)
    <2> DEFINE p == [mem EXCEPT !.list = @ \cup {a}, !.first[a] = "unknown"]
    <2>1. Fresh("saved") \in ImAccount /\ Fresh("saved").login = FALSE
      BY DEF Fresh, ImAccount, Conn
    <2>2. account' = [account EXCEPT ![a] = Fresh("saved")]
          /\ Save(p, FALSE, TRUE) /\ count' = count
      BY <1>9 DEF CreatesAccount
    <2>3. /\ p \in Prefs /\ p.pending = mem.pending
          /\ p.list = mem.list \cup {a}
      BY <1>3 DEF Prefs, First
    <2>4. ~account[a].login
      BY <1>9 DEF CreatesAccount, TL, Logins
    <2>5. /\ account' \in [Account -> ImAccount]
          /\ account'[a].login = FALSE
          /\ \A b \in Account : b # a => account'[b].login = account[b].login
      BY <1>3, <2>1, <2>2
    <2>6. \A b \in Account : account'[b].login = account[b].login
      <3>1. account[a].login = FALSE
        BY <1>3, <2>4 DEF ImAccount
      <3> QED
        BY <2>5, <3>1
    <2> HIDE DEF p
    <2>7. /\ mem' = p
          /\ disk' = mem' \/ disk' = disk
          /\ mem' \in Prefs /\ disk' \in Prefs /\ saveTimer' \in BOOLEAN
      BY <2>2, <2>3, SaveEffects DEF TL
    <2>8. Effect({})
      BY <1>2, <2>2, <2>3, <2>5, <2>6, <2>7, QuietEffect
    <2> QED
      BY <1>2, <1>4, <2>8, EffectKeeps
  <1>10. CASE DeletesAccount(a)
    <2> DEFINE p == NoLongerPending(mem, {a})
               q == LoginsEnd(p, {a})
               m == [q EXCEPT !.list = @ \ {a}, !.first[a] = "ok"]
               r == [Fresh("none") EXCEPT !.strays = account[a].strays]
    <2>1. r \in ImAccount /\ r.login = FALSE
      BY <1>3 DEF Fresh, ImAccount, Conn
    <2>2. /\ account' = [account EXCEPT ![a] = r]
          /\ count' = CountAfter({a})
          /\ mem' = m
          /\ disk' = q \/ disk' = disk
          /\ saveTimer' = FALSE
      BY <1>10 DEF DeletesAccount
    <2>3. p \in Prefs /\ p.pending = mem.pending /\ p.list = mem.list
      BY <1>3, <1>4, PrefsTypes, PrefsFields
    <2>4. /\ q \in Prefs /\ q.list = mem.list
          /\ q.pending = LoginsEnd(mem, {a}).pending
      BY <1>3, <1>4, <2>3, PrefsTypes, PrefsFields, LoginsEndPending DEF TL
    <2> HIDE DEF p, q, r
    <2>5. m \in Prefs /\ m.list = mem.list \ {a} /\ m.pending = q.pending
      BY <2>4 DEF Prefs, First
    <2>6. /\ account' \in [Account -> ImAccount]
          /\ ~account'[a].login
          /\ \A b \in Account : b # a => account'[b].login = account[b].login
      BY <1>3, <2>1, <2>2
    <2> HIDE DEF m
    <2>7. Effect({a})
      BY <1>2, <1>3, <2>2, <2>4, <2>5, <2>6 DEF Effect
    <2> QED
      BY <1>2, <1>4, <2>7, EffectKeeps
  <1> QED
    BY <1>5, <1>6, <1>7, <1>8, <1>9, <1>10 DEF UserStep

(***************************************************************************)
(* What comes from the event loop.                                         *)
(***************************************************************************)
LEMMA EventBounds ==
  ASSUME TypeOK, Event, failures' \in 0..MaxFailures
  PROVE  /\ Bounded /\ running' = running
         /\ waitsForLogin' = waitsForLogin /\ stale' = stale
  BY DEF TypeOK, Event, Bounded

LEMMA FiresEffect ==
  ASSUME TL, NEW a \in Account, NEW next \in [Account -> ImAccount],
         \A b \in Account : next[b].login = account[b].login,
         Event, Fires(a, next)
  PROVE  TL'
  <1>1. failures' \in 0..MaxFailures /\ count' = count
    BY DEF Fires, TL, TypeOK
  <1>2. /\ Bounded /\ running' = running
        /\ waitsForLogin' = waitsForLogin /\ stale' = stale
    BY <1>1, EventBounds DEF TL
  <1>3. {a} \in SUBSET Account /\ {} \in SUBSET Account
    OBVIOUS
  <1>4. CASE a \in mem.list
    <2>1. Connect({a}, next, mem, FALSE, FALSE)
      BY <1>4 DEF Fires
    <2>2. Effect({})
      BY <1>1, <1>2, <1>3, <2>1, QuietConnect
    <2> QED
      BY <1>2, <1>3, <2>2, EffectKeeps
  <1>5. CASE a \notin mem.list
    <2>1. account' = next /\ UNCHANGED <<mem, disk, saveTimer>>
      BY <1>5 DEF Fires
    <2>2. mem \in Prefs /\ disk \in Prefs /\ saveTimer \in BOOLEAN
      BY DEF TL, TypeOK
    <2>3. Effect({})
      BY <1>1, <1>2, <2>1, <2>2, QuietEffect
    <2> QED
      BY <1>2, <1>3, <2>3, EffectKeeps
  <1> QED
    BY <1>4, <1>5

LEMMA EventSteps ==
  ASSUME TL, NEW a \in Account, EventStep(a)
  PROVE  TL'
  <1>1. Event
    BY DEF EventStep, PrplConnected, PrplFails, PrplDisconnected, TimerFires,
           RunSoon
  <1>2. failures' \in 0..MaxFailures
    <2>1. failures \in 0..MaxFailures
      BY DEF TL, TypeOK
    <2>2. CASE \E err \in {"network", "auth"} : PrplFails(a, err)
      <3>1. failures < MaxFailures /\ failures' = failures + 1
        BY <2>2 DEF PrplFails
      <3> QED
        BY <2>1, <3>1, AccountAssumption
    <2>3. CASE \/ PrplConnected(a) \/ PrplDisconnected(a) \/ TimerFires(a)
               \/ RunSoon(a)
      <3>1. failures' = failures
        BY <2>3 DEF PrplConnected, PrplDisconnected, TimerFires, Fires, RunSoon
      <3> QED
        BY <2>1, <3>1
    <2> QED
      BY <2>2, <2>3 DEF EventStep
  <1>3. /\ Bounded /\ running' = running
        /\ waitsForLogin' = waitsForLogin /\ stale' = stale
    BY <1>1, <1>2, EventBounds DEF TL
  <1>4. /\ account \in [Account -> ImAccount] /\ account[a] \in ImAccount
        /\ mem \in Prefs /\ disk \in Prefs /\ saveTimer \in BOOLEAN
        /\ online \in BOOLEAN
    BY DEF TL, TypeOK
  <1>5. {a} \in SUBSET Account /\ {} \in SUBSET Account
    OBVIOUS
  <1>6. CASE PrplConnected(a)
    <2> DEFINE q == LoginsEnd(mem, {a})
               p == FirstConnected(q, a)
               r == [account[a] EXCEPT !.conn = "connected", !.login = FALSE]
    <2>1. r \in ImAccount /\ ~r.login
      BY <1>4 DEF ImAccount, Conn
    <2>2. \E later \in BOOLEAN : Save(p, FALSE, later)
      BY <1>6 DEF PrplConnected
    <2>3. account' = [account EXCEPT ![a] = r] /\ count' = CountAfter({a})
      <3>1. account' = [account EXCEPT ![a].conn = "connected",
                                       ![a].login = FALSE]
        BY <1>6 DEF PrplConnected
      <3> QED
        BY <1>4, <1>6, <3>1 DEF PrplConnected
    <2>4. /\ p \in Prefs /\ p.list = mem.list /\ p.pending = q.pending
      <3>1. q \in Prefs /\ q.list = mem.list
        BY <1>4, <1>5, PrefsTypes, PrefsFields
      <3> HIDE DEF q
      <3> QED
        BY <1>5, <3>1, PrefsTypes, PrefsFields
    <2> HIDE DEF p, q, r
    <2>5. /\ mem' = p
          /\ disk' = mem' \/ disk' = disk
          /\ mem' \in Prefs /\ disk' \in Prefs /\ saveTimer' \in BOOLEAN
      BY <2>2, <2>4, SaveEffects DEF TL
    <2>6. /\ account' \in [Account -> ImAccount]
          /\ ~account'[a].login
          /\ \A b \in Account : b # a => account'[b].login = account[b].login
      BY <1>4, <2>1, <2>3
    <2>7. Effect({a})
      BY <1>3, <2>3, <2>4, <2>5, <2>6 DEF Effect, q
    <2> QED
      BY <1>3, <1>5, <2>7, EffectKeeps
  <1>7. CASE \E err \in {"network", "auth"} : PrplFails(a, err)
    <2>1. PICK err \in {"network", "auth"} : PrplFails(a, err)
      BY <1>7
    <2> DEFINE r == [account[a] EXCEPT !.conn = "disconnected", !.err = err,
                                       !.login = FALSE]
               n == IF err = "network" THEN StartReconnectTimer(r) ELSE r
    <2>2. r \in ImAccount /\ r.login = FALSE
      BY <1>4 DEF ImAccount, Conn
    <2>3. n \in ImAccount /\ n.login = FALSE
      BY <1>4, <2>2, Parts, PartsLogins
    <2>4. account' = [account EXCEPT ![a] = n] /\ StopsConnecting({a})
      BY <2>1 DEF PrplFails
    <2> HIDE DEF n
    <2>5. /\ account' \in [Account -> ImAccount]
          /\ ~account'[a].login
          /\ \A b \in Account : b # a => account'[b].login = account[b].login
      BY <1>4, <2>3, <2>4
    <2>6. Effect({a})
      BY <1>3, <1>5, <2>4, <2>5, StopsEffects DEF Effect, TL
    <2> QED
      BY <1>3, <1>5, <2>6, EffectKeeps
  <1>8. CASE PrplDisconnected(a)
    <2> DEFINE next == [account EXCEPT ![a].conn = "disconnected"]
    <2>1. next \in [Account -> ImAccount]
      BY <1>4 DEF ImAccount, Conn
    <2>2. \A b \in Account : next[b].login = account[b].login
      BY <1>4 DEF ImAccount
    <2>3. count' = count
      BY <1>8 DEF PrplDisconnected
    <2> HIDE DEF next
    <2>4. CASE Connect({a}, next, mem, FALSE, FALSE)
      <3>1. Effect({})
        BY <1>3, <1>5, <2>1, <2>2, <2>3, <2>4, QuietConnect
      <3> QED
        BY <1>3, <1>5, <3>1, EffectKeeps
    <2>5. CASE account' = next /\ UNCHANGED <<mem, disk, saveTimer>>
      <3>1. Effect({})
        BY <1>3, <1>4, <2>1, <2>2, <2>3, <2>5, QuietEffect
      <3> QED
        BY <1>3, <1>5, <3>1, EffectKeeps
    <2> QED
      BY <1>8, <2>4, <2>5 DEF PrplDisconnected, next
  <1>9. CASE TimerFires(a)
    <2>1. CASE Fires(a, [account EXCEPT ![a].timer = FALSE])
      <3> DEFINE next == [account EXCEPT ![a].timer = FALSE]
      <3>1. /\ next \in [Account -> ImAccount]
            /\ \A b \in Account : next[b].login = account[b].login
        BY <1>4 DEF ImAccount
      <3> QED
        BY <1>1, <2>1, <3>1, FiresEffect
    <2>2. CASE /\ account[a].strays > 0
               /\ Fires(a, [account EXCEPT ![a].strays = @ - 1])
      <3> DEFINE n == account[a].strays - 1
                 next == [account EXCEPT ![a].strays = n]
      <3>1. n \in Nat
        BY <1>4, <2>2 DEF ImAccount
      <3>2. [account EXCEPT ![a].strays = @ - 1] = next
        OBVIOUS
      <3> HIDE DEF n
      <3>3. /\ next \in [Account -> ImAccount]
            /\ \A b \in Account : next[b].login = account[b].login
        BY <1>4, <3>1 DEF ImAccount
      <3> QED
        BY <1>1, <2>2, <3>2, <3>3, FiresEffect
    <2> QED
      BY <1>9, <2>1, <2>2 DEF TimerFires
  <1>10. CASE RunSoon(a)
    <2> DEFINE r == [account[a] EXCEPT !.soon = FALSE]
               stopped == Disconnecting(a, RemoveStatusObserver(r))
               p == NoLongerPending(mem, {a})
               q == LoginsEnd(p, {a})
    <2>1. r \in ImAccount /\ r.login = account[a].login /\ r.conn = account[a].conn
      BY <1>4 DEF ImAccount
    <2>2. CASE /\ r.conn = "connecting"
               /\ count' = CountAfter({a})
               /\ Connect({a}, [account EXCEPT ![a] = stopped], q, FALSE, TRUE)
      <3> DEFINE next == [account EXCEPT ![a] = stopped]
      <3>1. stopped \in ImAccount /\ stopped.login = FALSE
        BY <1>4, <2>1, <2>2, Parts, PartsLogins
      <3>2. p \in Prefs /\ p.pending = mem.pending /\ p.list = mem.list
        BY <1>4, <1>5, PrefsTypes, PrefsFields
      <3>3. /\ q \in Prefs /\ q.list = mem.list
            /\ q.pending = LoginsEnd(mem, {a}).pending
        BY <1>4, <1>5, <3>2, PrefsTypes, PrefsFields, LoginsEndPending DEF TL
      <3> HIDE DEF p, q, stopped, r
      <3>4. /\ next \in [Account -> ImAccount] /\ next[a].login = FALSE
            /\ \A b \in Account : b # a => next[b].login = account[b].login
        BY <1>4, <3>1
      <3>5. count' = CountAfter({a}) /\ Connect({a}, next, q, FALSE, TRUE)
        BY <2>2
      <3> HIDE DEF next
      <3>6. /\ account' \in [Account -> ImAccount]
            /\ mem' \in Prefs /\ disk' \in Prefs /\ saveTimer' \in BOOLEAN
            /\ \A b \in Account : account'[b].login = next[b].login
            /\ mem'.pending = q.pending /\ mem'.list = q.list
            /\ disk' = mem' \/ disk' = disk
        BY <1>5, <3>3, <3>4, <3>5, ConnectEffects DEF TL
      <3>7. Effect({a})
        BY <1>3, <3>3, <3>4, <3>5, <3>6 DEF Effect
      <3> QED
        BY <1>3, <1>5, <3>7, EffectKeeps
    <2>3. /\ [account EXCEPT ![a] = r] \in [Account -> ImAccount]
          /\ \A b \in Account : [account EXCEPT ![a] = r][b].login = account[b].login
      <3> HIDE DEF r
      <3> QED
        BY <1>4, <2>1
    <2>4. CASE /\ Connect({a}, [account EXCEPT ![a] = r], mem, FALSE, FALSE)
               /\ UNCHANGED count
      <3>1. Effect({})
        BY <1>3, <1>5, <2>3, <2>4, QuietConnect
      <3> QED
        BY <1>3, <1>5, <3>1, EffectKeeps
    <2>5. CASE /\ account' = [account EXCEPT ![a] = r]
               /\ UNCHANGED <<count, mem, disk, saveTimer>>
      <3>1. Effect({})
        BY <1>3, <1>4, <2>3, <2>5, QuietEffect
      <3> QED
        BY <1>3, <1>5, <3>1, EffectKeeps
    <2> QED
      BY <1>10, <2>2, <2>4, <2>5 DEF RunSoon
  <1> QED
    BY <1>6, <1>7, <1>8, <1>9, <1>10 DEF EventStep

(***************************************************************************)
(* What concerns all accounts.                                             *)
(***************************************************************************)
LEMMA FreshType ==
  ASSUME NEW password \in {"none", "session", "saved"}
  PROVE  /\ Fresh(password) \in ImAccount
         /\ Fresh(password).login = FALSE
         /\ Fresh(password).conn = "disconnected"
         /\ Fresh(password).observer = FALSE
         /\ Fresh(password).timer = FALSE
         /\ Fresh(password).strays = 0
         /\ Fresh(password).err = "none"
  BY DEF Fresh, ImAccount, Conn

LEMMA InitTL ==
  ASSUME Init
  PROVE  TL
  <1>1. PICK password \in [Account -> Passwords] :
          account = [a \in Account |-> Fresh(password[a])]
    BY DEF Init
  <1>2. \A a \in Account : password[a] \in {"none", "session", "saved"}
    BY AccountAssumption
  <1>3. /\ account \in [Account -> ImAccount]
        /\ \A a \in Account : ~account[a].login
    BY <1>1, <1>2, FreshType
  <1>4. PICK first \in [Account -> {"ok", "unknown"}] :
          mem = [list |-> Account, first |-> first, pending |-> FALSE]
    BY DEF Init
  <1>5. mem \in Prefs /\ mem.pending = FALSE
    BY <1>4 DEF Prefs, First
  <1>6. /\ running = FALSE /\ online = TRUE /\ waitsForLogin = "nobody"
        /\ count = 0 /\ disk = mem /\ saveTimer = FALSE /\ stale = FALSE
        /\ ops = 0 /\ failures = 0 /\ sessions = 0
    BY DEF Init
  <1>7. 0 \in 0..MaxOps /\ 0 \in 0..MaxFailures /\ 0 \in 0..MaxSessions
    BY AccountAssumption
  <1>8. TypeOK
    BY <1>3, <1>5, <1>6, <1>7 DEF TypeOK
  <1>9. Cardinality(LoggingIn(Account)) = 0
    <2>1. LoggingIn(Account) = {}
      BY <1>3 DEF LoggingIn
    <2> QED
      BY <2>1, FS_EmptySet
  <1>11. ~(count > 0)
    BY <1>6
  <1>10. Logins
    BY <1>3, <1>5, <1>6, <1>9, <1>11 DEF Logins, LoginsAreRecorded
  <1> QED
    BY <1>8, <1>10 DEF TL

(***************************************************************************)
(* No account logs in before or after a session of the program.            *)
(***************************************************************************)
LEMMA NobodyLogsIn ==
  ASSUME TypeOK',
         \A a \in Account : ~account'[a].login, count' = 0,
         mem'.pending <=> stale',
         ~running' => waitsForLogin' = "nobody" /\ (disk'.pending <=> stale')
  PROVE  TL'
  <1>1. LoggingIn(Account)' = {}
    BY DEF LoggingIn
  <1>2. count' = Cardinality(LoggingIn(Account))' /\ ~(count' > 0)
    BY <1>1, FS_EmptySet
  <1>3. mem'.pending \in BOOLEAN
    BY DEF TypeOK, Prefs
  <1> QED
    BY <1>2, <1>3 DEF TL, Logins, LoginsAreRecorded

LEMMA StartTL ==
  ASSUME TL, Start
  PROVE  TL'
  <1> DEFINE first == [a \in Account |->
                         IF a \in disk.list THEN Blamed(disk.first[a])
                         ELSE disk.first[a]]
             p(disabled) == [disk EXCEPT !.first = first,
                                         !.pending = @ /\ disabled]
             fresh(a) == Fresh(account[a].password)
             own(a) == IF fresh(a).password = "none" THEN "missing"
                       ELSE IF first[a] = "crashed" THEN "crashed" ELSE "none"
  <1>1. /\ disk \in Prefs /\ account \in [Account -> ImAccount]
        /\ count \in Nat /\ online \in BOOLEAN /\ stale \in BOOLEAN
        /\ ~running /\ (disk.pending <=> stale)
        /\ ops \in 0..MaxOps /\ failures \in 0..MaxFailures
        /\ sessions \in 0..MaxSessions
    BY DEF TL, TypeOK, Logins, Start
  <1>2. first \in [Account -> First]
    BY <1>1 DEF Blamed, Prefs, First
  <1>3. \A disabled \in BOOLEAN :
          /\ p(disabled) \in Prefs
          /\ p(disabled).pending = (disk.pending /\ disabled)
    BY <1>1, <1>2 DEF Prefs
  <1>4. /\ running' = TRUE
        /\ \E later, disabled \in BOOLEAN :
             Save(p(disabled), FALSE, later) /\ InitAutoLoginStatus(disabled)
        /\ account' = [a \in Account |-> [fresh(a) EXCEPT !.own = own(a)]]
        /\ online' = online /\ count' = count /\ ops' = ops /\ failures' = failures
    BY DEF Start
  <1>5. sessions' \in 0..MaxSessions
    BY <1>1, AccountAssumption DEF Start
  <1>6. \A a \in Account :
          /\ [fresh(a) EXCEPT !.own = own(a)] \in ImAccount
          /\ [fresh(a) EXCEPT !.own = own(a)].login = FALSE
    <2> TAKE a \in Account
    <2>1. account[a].password \in {"none", "session", "saved"}
      BY <1>1 DEF ImAccount
    <2>2. fresh(a) \in ImAccount /\ fresh(a).login = FALSE
      BY <2>1, FreshType
    <2>3. own(a) \in {"none", "missing", "crashed"}
      OBVIOUS
    <2> HIDE DEF fresh, own
    <2> QED
      BY <2>2, <2>3 DEF ImAccount
  <1> HIDE DEF p, first, fresh, own
  <1>7. /\ account' \in [Account -> ImAccount]
        /\ \A a \in Account : ~account'[a].login
    BY <1>4, <1>6
  <1>11. PICK disabled \in BOOLEAN :
           /\ InitAutoLoginStatus(disabled)
           /\ \E later \in BOOLEAN : Save(p(disabled), FALSE, later)
    BY <1>4
  <1>8. /\ mem' = p(disabled) /\ mem' \in Prefs
        /\ disk' \in Prefs /\ saveTimer' \in BOOLEAN
    BY <1>3, <1>11, SaveEffects DEF TL
  <1>12. /\ waitsForLogin' \in {"core", "user"} /\ stale' \in BOOLEAN
         /\ mem'.pending <=> stale'
    BY <1>1, <1>3, <1>8, <1>11 DEF InitAutoLoginStatus
  <1>9. TypeOK'
    BY <1>1, <1>4, <1>5, <1>7, <1>8, <1>12 DEF TypeOK
  <1>10. count' = 0
    BY <1>4 DEF Start, TL, Logins
  <1> QED
    BY <1>4, <1>7, <1>9, <1>10, <1>12, NobodyLogsIn

(***************************************************************************)
(* A normal end leaves the marker of auto-login only if it was stale, and  *)
(* no first connection that is pending.                                    *)
(***************************************************************************)
LEMMA QuitLeavesStale ==
  ASSUME TL, Quit
  PROVE  /\ disk'.pending <=> stale
         /\ \A a \in Account : disk'.first[a] # "pending"
  <1> DEFINE q == LoginsEnd(mem, Account)
             p == UnInit(q)
  <1>1. mem \in Prefs /\ running
    BY DEF Quit, TL, TypeOK
  <1>2. q \in Prefs /\ p \in Prefs
    BY <1>1, PrefsTypes
  <1>3. disk' = p
    BY DEF Quit, Save
  <1>4. q.pending <=> stale
    <2>1. CASE LoggingIn(Account) = {}
      <3>1. q = mem
        BY <2>1 DEF LoginsEnd
      <3>2. count = 0
        BY <2>1, FS_EmptySet DEF TL, Logins, LoginsAreRecorded
      <3>3. ~(count > 0)
        BY <3>2
      <3> QED
        BY <1>1, <3>1, <3>3 DEF TL, Logins, LoginsAreRecorded
    <2>2. CASE LoggingIn(Account) # {}
      <3>1. count = Cardinality(LoggingIn(Account)) /\ ~stale
        <4>1. count > 0
          BY <2>2, Counting
        <4> QED
          BY <4>1 DEF TL, Logins, LoginsAreRecorded
      <3>2. q = [mem EXCEPT !.pending = FALSE]
        BY <2>2, <3>1 DEF LoginsEnd
      <3>3. q.pending = FALSE
        BY <1>1, <3>2 DEF Prefs
      <3> QED
        BY <3>1, <3>3
    <2> QED
      BY <2>1, <2>2
  <1> HIDE DEF q
  <1>5. p.pending = q.pending /\ \A a \in Account : p.first[a] # "pending"
    BY <1>2 DEF UnInit, Prefs
  <1> HIDE DEF p
  <1> QED
    BY <1>3, <1>4, <1>5

LEMMA EndTL ==
  ASSUME TL, Quit \/ Crash
  PROVE  TL'
  <1>1. /\ disk \in Prefs /\ mem \in Prefs
        /\ account \in [Account -> ImAccount]
        /\ count \in Nat /\ online \in BOOLEAN
        /\ ops \in 0..MaxOps /\ failures \in 0..MaxFailures
        /\ sessions \in 0..MaxSessions
    BY DEF TL, TypeOK
  <1>2. /\ running' = FALSE /\ waitsForLogin' = "nobody"
        /\ account' = [a \in Account |-> Fresh(account[a].password)]
        /\ online' = online /\ ops' = ops /\ failures' = failures
        /\ sessions' = sessions
    BY DEF Quit, Crash
  <1>3. /\ account' \in [Account -> ImAccount]
        /\ \A a \in Account : ~account'[a].login
    <2>1. \A a \in Account : account[a].password \in {"none", "session", "saved"}
      BY <1>1 DEF ImAccount
    <2> QED
      BY <1>2, <2>1, FreshType
  <1>4. mem' \in Prefs /\ disk' \in Prefs /\ saveTimer' \in BOOLEAN
    <2>1. CASE Quit
      <3>1. UnInit(LoginsEnd(mem, Account)) \in Prefs
        BY <1>1, PrefsTypes
      <3> QED
        BY <2>1, <3>1, SaveEffects DEF Quit, TL
    <2>2. CASE Crash
      BY <1>1, <2>2 DEF Crash
    <2> QED
      BY <2>1, <2>2
  <1>5. count' = 0
    <2>1. CountAfter(Account) = 0
      <3>1. Account \ Account = {} /\ LoggingIn({}) = {}
        BY DEF LoggingIn
      <3>2. CountAfter(Account) = Cardinality(LoggingIn(Account \ Account))
        BY Counting
      <3> QED
        BY <3>1, <3>2, FS_EmptySet
    <2> QED
      BY <2>1 DEF Quit, Crash
  <1>7. /\ stale' \in BOOLEAN
        /\ (mem'.pending <=> stale') /\ (disk'.pending <=> stale')
    <2>1. CASE Quit
      <3>1. mem' = disk' /\ stale' = stale
        BY <2>1 DEF Quit, Save
      <3>2. disk'.pending <=> stale
        BY <2>1, QuitLeavesStale
      <3> QED
        BY <3>1, <3>2 DEF TL, TypeOK
    <2>2. CASE Crash
      BY <1>1, <2>2 DEF Crash, Prefs
    <2> QED
      BY <2>1, <2>2
  <1>6. TypeOK'
    BY <1>1, <1>2, <1>3, <1>4, <1>5, <1>7 DEF TypeOK
  <1> QED
    BY <1>2, <1>3, <1>5, <1>6, <1>7, NobodyLogsIn

LEMMA ProcessAutoLoginTL ==
  ASSUME TL, ProcessAutoLogin
  PROVE  TL'
  <1> DEFINE A == {a \in mem.list \cap AutoLogin :
                     account[a].own = "none"
                     /\ account[a].conn \notin {"connecting", "connected"}}
             r == [a \in Account |->
                     [account[a] EXCEPT !.login = @ \/ a \in A]]
             p == [mem EXCEPT !.pending = @ \/ A # {}]
  <1>1. /\ mem \in Prefs /\ account \in [Account -> ImAccount]
        /\ online \in BOOLEAN /\ ops \in 0..MaxOps
        /\ failures \in 0..MaxFailures /\ sessions \in 0..MaxSessions
    BY DEF TL, TypeOK
  <1>2. /\ count = 0 /\ (mem.pending <=> stale)
        /\ \A a \in Account : ~account[a].login
    <2>1. count = 0 /\ running
      BY DEF ProcessAutoLogin, TL, Logins
    <2>2. LoggingIn(Account) = {}
      <3>1. Cardinality(LoggingIn(Account)) = 0
        BY <2>1 DEF TL, Logins, LoginsAreRecorded
      <3>2. LoggingIn(Account) # {} <=> Cardinality(LoggingIn(Account)) > 0
        BY Counting
      <3>3. ~(Cardinality(LoggingIn(Account)) > 0)
        BY <3>1
      <3> QED
        BY <3>2, <3>3
    <2>3. mem.pending <=> (count > 0 \/ stale)
      BY <2>1 DEF TL, Logins, LoginsAreRecorded
    <2>4. ~(count > 0)
      BY <2>1
    <2>5. \A a \in Account : ~account[a].login
      BY <2>2 DEF LoggingIn
    <2> QED
      BY <2>1, <2>3, <2>4, <2>5
  <1>3. A \in SUBSET Account /\ A \subseteq mem.list
    BY <1>1 DEF Prefs
  <1>4. /\ waitsForLogin' = "nobody" /\ running' = running /\ running
        /\ count' = count + Cardinality(A)
        /\ Connect(A, r, p, count = 0 /\ A # {}, FALSE)
        /\ stale' = (stale /\ A = {})
        /\ online' = online /\ ops' = ops /\ failures' = failures
        /\ sessions' = sessions
    BY DEF ProcessAutoLogin
  <1> HIDE DEF A
  <1>5. /\ IsFiniteSet(A) /\ Cardinality(A) \in Nat
        /\ Cardinality(A) > 0 <=> A # {}
    <2>1. IsFiniteSet(A)
      BY <1>3, AccountAssumption, FS_Subset
    <2>2. Cardinality(A) \in Nat
      BY <2>1, FS_CardinalityType
    <2> QED
      BY <2>1, <2>2, FS_EmptySet
  <1>6. /\ r \in [Account -> ImAccount]
        /\ \A a \in Account : r[a].login <=> a \in A
    BY <1>1, <1>2 DEF ImAccount
  <1>7. p \in Prefs /\ p.list = mem.list /\ (p.pending <=> A # {} \/ stale)
    BY <1>1, <1>2 DEF Prefs
  <1>8. (count = 0 /\ A # {}) \in BOOLEAN
    OBVIOUS
  <1> HIDE DEF r, p
  <1>9. /\ account' \in [Account -> ImAccount]
        /\ mem' \in Prefs /\ disk' \in Prefs /\ saveTimer' \in BOOLEAN
        /\ \A a \in Account : account'[a].login = r[a].login
        /\ mem'.pending = p.pending /\ mem'.list = p.list
        /\ disk' = mem' \/ (disk' = disk /\ ~(count = 0 /\ A # {}))
    BY <1>3, <1>4, <1>6, <1>7, <1>8, ConnectEffects DEF TL
  <1>10. LoggingIn(Account)' = A
    BY <1>3, <1>6, <1>9 DEF LoggingIn
  <1>11. count' = Cardinality(A)
    BY <1>2, <1>4, <1>5
  <1>12. TypeOK'
    BY <1>1, <1>4, <1>5, <1>9, <1>11 DEF TypeOK
  <1>13. count' > 0 <=> A # {}
    BY <1>5, <1>11
  <1>14. mem'.pending = (count' > 0 \/ stale')
    BY <1>4, <1>7, <1>9, <1>12, <1>13 DEF TypeOK, Prefs
  <1>15. count' > 0 => disk'.pending /\ ~stale'
    BY <1>2, <1>4, <1>7, <1>9, <1>13
  <1>16. \A a \in Account \ mem'.list : ~account'[a].login
    BY <1>3, <1>6, <1>7, <1>9
  <1> QED
    BY <1>4, <1>10, <1>11, <1>12, <1>14, <1>15, <1>16
    DEF TL, Logins, LoginsAreRecorded

LEMMA StatusTL ==
  ASSUME TL, GoOffline \/ GoOnline
  PROVE  TL'
  <1>1. /\ mem \in Prefs /\ disk \in Prefs
        /\ account \in [Account -> ImAccount] /\ online \in BOOLEAN
        /\ failures \in 0..MaxFailures /\ sessions \in 0..MaxSessions
        /\ ops \in 0..MaxOps
    BY DEF TL, TypeOK
  <1>2. CASE GoOffline
    <2> DEFINE A == {a \in Observers :
                       account[a].conn \in {"connecting", "connected"}}
               off(a) == CancelReconnection(Disconnecting(a, account[a]))
    <2>1. /\ UserActs /\ online' = FALSE
          /\ account' = [a \in Account |-> IF a \in Observers THEN off(a)
                                           ELSE account[a]]
          /\ StopsConnecting(A)
      BY <1>2 DEF GoOffline
    <2>2. A \in SUBSET Account
      BY <1>1 DEF Observers, Prefs
    <2>3. \A a \in Account : /\ off(a) \in ImAccount
                             /\ off(a).login =
                                  IF account[a].conn \in {"connecting", "connected"}
                                  THEN FALSE ELSE account[a].login
      <3> TAKE a \in Account
      <3>1. account[a] \in ImAccount
        BY <1>1
      <3>2. Disconnecting(a, account[a]) \in ImAccount
        BY <1>1, <3>1, Parts
      <3>3. /\ off(a) \in ImAccount
            /\ off(a).login = Disconnecting(a, account[a]).login
        BY <1>1, <3>2, Parts, PartsLogins
      <3> QED
        BY <1>1, <3>1, <3>3, PartsLogins
    <2> HIDE DEF off
    <2>4. account' \in [Account -> ImAccount]
      BY <1>1, <2>1, <2>3
    <2>5. \A a \in Account : account'[a].login <=> (account[a].login /\ a \notin A)
      <3> TAKE a \in Account
      <3>1. CASE a \in A
        BY <2>1, <2>3, <3>1
      <3>2. CASE a \notin A
        BY <2>1, <2>3, <3>2
      <3> QED
        BY <3>1, <3>2
    <2> HIDE DEF A
    <2>6. /\ Bounded /\ running' = running
          /\ waitsForLogin' = waitsForLogin /\ stale' = stale
      BY <2>1, UserBounds DEF TL
    <2>7. Effect(A)
      BY <2>1, <2>2, <2>4, <2>5, <2>6, StopsEffects DEF Effect, TL
    <2> QED
      BY <2>2, <2>6, <2>7, EffectKeeps
  <1>3. CASE GoOnline
    <2> DEFINE A == {a \in Observers : ComesBack(a)}
               p == Pending(mem, A)
    <2>1. PICK late \in LateTimers :
            account' = [a \in Account |-> IF a \in A
                                          THEN Connecting(account[a], late)
                                          ELSE account[a]]
      BY <1>3 DEF GoOnline
    <2>2. /\ Save(p, SavesNow(mem, A), FALSE)
          /\ running' = running /\ waitsForLogin' = waitsForLogin
          /\ count' = count /\ online' = TRUE /\ stale' = stale
          /\ UNCHANGED <<failures, sessions>>
      BY <1>3 DEF GoOnline
    <2>11. ops' \in 0..MaxOps
      <3>1. ops' = ops \/ (ops < MaxOps /\ ops' = ops + 1)
        BY <1>3 DEF GoOnline
      <3> QED
        BY <1>1, <3>1, AccountAssumption
    <2>3. A \in SUBSET Account
      BY <1>1 DEF Observers, Prefs
    <2>4. late \in BOOLEAN /\ SavesNow(mem, A) \in BOOLEAN
      BY AccountAssumption DEF SavesNow
    <2>5. \A a \in Account : /\ Connecting(account[a], late) \in ImAccount
                             /\ Connecting(account[a], late).login = account[a].login
      BY <1>1, <2>4, Parts, PartsLogins
    <2>6. p \in Prefs /\ p.pending = mem.pending /\ p.list = mem.list
      BY <1>1, <2>3, PrefsTypes, PrefsFields
    <2> HIDE DEF A, p
    <2>7. /\ account' \in [Account -> ImAccount]
          /\ \A a \in Account : account'[a].login = account[a].login
      BY <1>1, <2>1, <2>5
    <2>8. /\ mem' = p /\ (disk' = mem' \/ disk' = disk)
          /\ mem' \in Prefs /\ disk' \in Prefs /\ saveTimer' \in BOOLEAN
      BY <2>2, <2>4, <2>6, SaveEffects DEF TL
    <2>9. Effect({})
      BY <2>2, <2>6, <2>7, <2>8, QuietEffect
    <2>10. Bounded /\ {} \in SUBSET Account
      BY <1>1, <2>2, <2>11 DEF Bounded
    <2> QED
      BY <2>9, <2>10, EffectKeeps
  <1> QED
    BY <1>2, <1>3

LEMMA StepTL ==
  ASSUME TL, [Next]_vars
  PROVE  TL'
  <1>1. /\ mem \in Prefs /\ disk \in Prefs /\ saveTimer \in BOOLEAN
        /\ account \in [Account -> ImAccount] /\ online \in BOOLEAN
        /\ failures \in 0..MaxFailures /\ sessions \in 0..MaxSessions
        /\ ops \in 0..MaxOps
    BY DEF TL, TypeOK
  <1>2. CASE SaveTimerFires
    <2>1. /\ account' = account /\ count' = count /\ running' = running
          /\ waitsForLogin' = waitsForLogin /\ stale' = stale
          /\ Save(mem, TRUE, FALSE)
          /\ UNCHANGED <<online, ops, failures, sessions>>
      BY <1>2 DEF SaveTimerFires
    <2>2. /\ mem' = mem /\ (disk' = mem' \/ disk' = disk)
          /\ mem' \in Prefs /\ disk' \in Prefs /\ saveTimer' \in BOOLEAN
      BY <1>1, <2>1, SaveEffects DEF TL
    <2>3. Effect({})
      BY <1>1, <2>1, <2>2, QuietEffect
    <2>4. Bounded /\ {} \in SUBSET Account
      BY <1>1, <2>1 DEF Bounded
    <2> QED
      BY <2>3, <2>4, EffectKeeps
  <1>3. CASE UNCHANGED vars
    <2>1. Effect({})
      BY <1>1, <1>3, QuietEffect DEF vars
    <2>2. Bounded /\ {} \in SUBSET Account
      BY <1>1, <1>3 DEF Bounded, vars
    <2> QED
      BY <2>1, <2>2, EffectKeeps
  <1> QED
    BY <1>2, <1>3, StartTL, ProcessAutoLoginTL, EndTL, StatusTL, UserSteps,
       EventSteps
    DEF Next

(***************************************************************************)
(* Types, for any accounts and bounds, and whatever the timers do.         *)
(***************************************************************************)
THEOREM TypeCorrect == Spec => []TypeOK
  <1>1. Init => TL
    BY InitTL
  <1>2. TL /\ [Next]_vars => TL'
    BY StepTL
  <1>3. TL => TypeOK
    BY DEF TL
  <1> QED
    BY <1>1, <1>2, <1>3, PTL DEF Spec

(***************************************************************************)
(* The counter counts the auto-logins and the next start is told of them   *)
(* (AutoLoginCounter); the start after a normal end blames nobody (unInit) *)
(* but for the marker of a crash that no start has dealt with.             *)
(***************************************************************************)
THEOREM LoginsAreCounted == Spec => []LoginsAreRecorded /\ QuitIsNoCrash
  <1>1. Init => TL
    BY InitTL
  <1>2. TL /\ [Next]_vars => TL'
    BY StepTL
  <1>3. TL => LoginsAreRecorded
    BY DEF TL, Logins
  <1>4. TL /\ [Next]_vars =>
          [Quit => /\ disk'.pending => stale
                   /\ \A a \in Account : disk'.first[a] # "pending"]_vars
    BY QuitLeavesStale
  <1> QED
    BY <1>1, <1>2, <1>3, <1>4, PTL DEF Spec, QuitIsNoCrash

-----------------------------------------------------------------------------
(* First connections.                                                      *)
-----------------------------------------------------------------------------
BlamesIn(r, prefs) ==
  \A a \in prefs.list :
    r[a].conn = "connecting" /\ ~r[a].soon /\ prefs.first[a] # "ok"
      => prefs.first[a] = "pending" /\ disk.first[a] = "pending"

LEMMA ConnectOneBlames ==
  ASSUME NEW r \in ImAccount, online \in BOOLEAN,
         NEW typed \in BOOLEAN, NEW kept \in BOOLEAN, NEW late \in BOOLEAN,
         kept => typed /\ Asks(r)
  PROVE  LET n == ConnectOne(r, typed, kept, late) IN
           /\ ~n.soon => ~r.soon
           /\ kept /\ r.conn = "connecting" => n.soon
  <1> DEFINE p == IF Asks(r) /\ typed THEN Types(Forgets(r), kept)
                  ELSE Forgets(r)
             q == [p EXCEPT !.observer = TRUE]
  <1>1. /\ Forgets(r) \in ImAccount
        /\ Forgets(r).soon = r.soon /\ Forgets(r).conn = r.conn
    BY Parts DEF Forgets, ImAccount
  <1>2. \A x \in ImAccount :
          /\ ~Types(x, kept).soon => ~x.soon
          /\ kept /\ x.conn = "connecting" => Types(x, kept).soon
    BY DEF Types, InfoChanged, ImAccount
  <1>3. /\ p \in ImAccount
        /\ ~p.soon => ~r.soon
        /\ kept /\ r.conn = "connecting" => p.soon
    BY <1>1, <1>2, TypesType
  <1>4. q \in ImAccount /\ q.soon = p.soon
    BY <1>3 DEF ImAccount
  <1>5. Connecting(q, late).soon = q.soon
    BY <1>4 DEF Connecting, CancelReconnection, ImAccount
  <1> HIDE DEF p, q
  <1>6. ConnectOne(r, typed, kept, late) \in {p, q, Connecting(q, late)}
    BY DEF ConnectOne, p, q
  <1> QED
    BY <1>3, <1>4, <1>5, <1>6

LEMMA PendingFirst ==
  ASSUME NEW prefs \in Prefs, NEW A \in SUBSET Account, NEW a \in Account
  PROVE  /\ Pending(prefs, A).first[a] =
              IF a \in A /\ prefs.first[a] # "ok" THEN "pending"
              ELSE prefs.first[a]
         /\ a \in A /\ prefs.first[a] # "ok" => SavesNow(prefs, A)
         /\ NewSettings(prefs, A).first[a] =
              IF a \in A THEN "unknown" ELSE prefs.first[a]
  BY DEF Pending, NewSettings, FirstTries, SavesNow, Prefs

LEMMA ConnectBlames ==
  ASSUME TypeOK, NEW A \in SUBSET Account, NEW r \in [Account -> ImAccount],
         NEW prefs \in Prefs, NEW now \in BOOLEAN, NEW later \in BOOLEAN,
         Connect(A, r, prefs, now, later), BlamesIn(r, prefs)
  PROVE  Blames'
  <1> DEFINE Next1(typed, kept, late) ==
               [a \in Account |->
                  IF a \in A THEN ConnectOne(r[a], a \in typed, a \in kept, late)
                  ELSE r[a]]
             Begins(n) == {a \in A : r[a].conn # "connecting"
                                     /\ n[a].conn = "connecting"}
  <1>1. PICK typed \in SUBSET {a \in A : Asks(r[a])}, late \in LateTimers :
          \E kept \in SUBSET typed :
            LET n == Next1(typed, kept, late)
                b == Begins(n)
                asked == NewSettings(prefs, kept)
            IN  /\ account' = n
                /\ Save(Pending(asked, b), now \/ SavesNow(asked, b),
                        later \/ kept # {})
    BY DEF Connect
  <1>2. PICK kept \in SUBSET typed :
            LET n == Next1(typed, kept, late)
                b == Begins(n)
                asked == NewSettings(prefs, kept)
            IN  /\ account' = n
                /\ Save(Pending(asked, b), now \/ SavesNow(asked, b),
                        later \/ kept # {})
    BY <1>1
  <1> DEFINE n == Next1(typed, kept, late)
             b == Begins(n)
             asked == NewSettings(prefs, kept)
             final == Pending(asked, b)
  <1>3. late \in BOOLEAN /\ online \in BOOLEAN
    BY AccountAssumption DEF TypeOK
  <1>4. kept \in SUBSET Account /\ b \in SUBSET Account
    OBVIOUS
  <1>5. asked \in Prefs /\ asked.list = prefs.list
    BY <1>4, PrefsTypes, PrefsFields
  <1> HIDE DEF asked
  <1>6. final \in Prefs /\ final.list = prefs.list
    BY <1>4, <1>5, PrefsTypes, PrefsFields
  <1>7. account' = n /\ Save(final, now \/ SavesNow(asked, b), later \/ kept # {})
    BY <1>2 DEF asked
  <1>8. (now \/ SavesNow(asked, b)) \in BOOLEAN /\ (later \/ kept # {}) \in BOOLEAN
    BY DEF SavesNow
  <1> HIDE DEF b, final
  <1>9. mem' = final /\ (disk' = final \/ (disk' = disk /\ ~SavesNow(asked, b)))
    BY <1>6, <1>7, <1>8, SaveEffects
  <1>10. SUFFICES ASSUME NEW a \in prefs.list,
                         n[a].conn = "connecting", ~n[a].soon,
                         final.first[a] # "ok"
                  PROVE  final.first[a] = "pending" /\ disk'.first[a] = "pending"
    BY <1>6, <1>7, <1>9 DEF Blames
  <1>11. a \in Account
    BY DEF Prefs
  <1>12. /\ final.first[a] = IF a \in b /\ asked.first[a] # "ok" THEN "pending"
                             ELSE asked.first[a]
         /\ a \in b /\ asked.first[a] # "ok" => SavesNow(asked, b)
         /\ asked.first[a] = IF a \in kept THEN "unknown" ELSE prefs.first[a]
    BY <1>4, <1>5, <1>11, PendingFirst DEF final, asked
  <1>13. CASE a \in b
    BY <1>9, <1>10, <1>12, <1>13
  <1>14. CASE a \notin b
    <2>1. r[a].conn = "connecting"
      BY <1>10, <1>11, <1>14 DEF b
    <2>2. ~r[a].soon /\ a \notin kept
      <3>1. CASE a \in A
        <4>1. /\ r[a] \in ImAccount
              /\ (a \in typed) \in BOOLEAN /\ (a \in kept) \in BOOLEAN
              /\ a \in kept => a \in typed /\ Asks(r[a])
              /\ n[a] = ConnectOne(r[a], a \in typed, a \in kept, late)
          BY <1>11, <3>1
        <4> DEFINE c == ConnectOne(r[a], a \in typed, a \in kept, late)
        <4>2. /\ ~c.soon => ~r[a].soon
              /\ (a \in kept) /\ r[a].conn = "connecting" => c.soon
          BY <1>3, <4>1, ConnectOneBlames
        <4>3. n[a] = c
          BY <4>1
        <4> HIDE DEF n, c
        <4> QED
          BY <1>10, <2>1, <4>2, <4>3
      <3>2. CASE a \notin A
        BY <1>10, <1>11, <3>2
      <3> QED
        BY <3>1, <3>2
    <2>3. final.first[a] = prefs.first[a]
      BY <1>12, <1>14, <2>2
    <2>4. prefs.first[a] = "pending" /\ disk.first[a] = "pending"
      BY <1>10, <2>1, <2>2, <2>3 DEF BlamesIn
    <2> QED
      BY <1>9, <2>3, <2>4
  <1> QED
    BY <1>13, <1>14

(***************************************************************************)
(* Steps that begin no connection.                                         *)
(***************************************************************************)
LEMMA TameBlames ==
  ASSUME Blames, mem' \in Prefs,
         \A a \in mem'.list :
           account'[a].conn = "connecting" /\ ~account'[a].soon
           => /\ a \in mem.list
              /\ account[a].conn = "connecting" /\ ~account[a].soon
              /\ mem'.first[a] = mem.first[a]
              /\ disk'.first[a] \in {disk.first[a], mem'.first[a]}
  PROVE  Blames'
  BY DEF Blames

LEMMA BlamesConnect ==
  ASSUME TypeOK, Blames, NEW a \in Account, NEW r \in ImAccount,
         NEW prefs \in Prefs, NEW now \in BOOLEAN, NEW later \in BOOLEAN,
         r.conn # "connecting" \/ (r.conn = account[a].conn /\ r.soon = account[a].soon),
         prefs.list = mem.list,
         r.conn = "connecting" => prefs.first[a] = mem.first[a],
         \A b \in Account : b # a => prefs.first[b] = mem.first[b],
         Connect({a}, [account EXCEPT ![a] = r], prefs, now, later)
  PROVE  Blames'
  <1> DEFINE next == [account EXCEPT ![a] = r]
  <1>1. account \in [Account -> ImAccount] /\ mem \in Prefs
    BY DEF TypeOK
  <1>2. /\ next \in [Account -> ImAccount] /\ next[a] = r
        /\ \A b \in Account : b # a => next[b] = account[b]
    BY <1>1
  <1> HIDE DEF next
  <1>3. BlamesIn(next, prefs)
    <2>1. SUFFICES ASSUME NEW b \in mem.list,
                          next[b].conn = "connecting" /\ ~next[b].soon,
                          prefs.first[b] # "ok"
                   PROVE  prefs.first[b] = "pending" /\ disk.first[b] = "pending"
      BY DEF BlamesIn
    <2>2. b \in Account
      BY <1>1 DEF Prefs
    <2>3. account[b].conn = "connecting" /\ ~account[b].soon
          /\ prefs.first[b] = mem.first[b]
      BY <1>2, <2>1, <2>2
    <2> QED
      BY <2>1, <2>3 DEF Blames
  <1>4. Connect({a}, next, prefs, now, later) /\ {a} \in SUBSET Account
    BY DEF next
  <1> QED
    BY <1>2, <1>3, <1>4, ConnectBlames

LEMMA PartsConns ==
  ASSUME NEW r \in ImAccount, online \in BOOLEAN
  PROVE  /\ CancelReconnection(r).conn = r.conn
         /\ RemoveStatusObserver(r).conn = r.conn
         /\ RemoveStatusObserver(r).soon = r.soon
         /\ StartReconnectTimer(r).conn = r.conn
         /\ InfoChanged(r).conn = r.conn
         /\ r.conn = "connecting" => InfoChanged(r).soon
         /\ Types(r, TRUE).conn = r.conn
         /\ r.conn = "connecting" => Types(r, TRUE).soon
         /\ \A a \in Account : Disconnecting(a, r).conn # "connecting"
  <1>1. /\ CancelReconnection(r).conn = r.conn
        /\ RemoveStatusObserver(r).conn = r.conn
        /\ RemoveStatusObserver(r).soon = r.soon
        /\ StartReconnectTimer(r).conn = r.conn
        /\ InfoChanged(r).conn = r.conn
        /\ r.conn = "connecting" => InfoChanged(r).soon
    BY DEF CancelReconnection, RemoveStatusObserver, StartReconnectTimer,
           InfoChanged, ImAccount
  <1>2. /\ Types(r, TRUE).conn = r.conn
        /\ r.conn = "connecting" => Types(r, TRUE).soon
    BY DEF Types, InfoChanged, ImAccount
  <1>3. \A a \in Account : Disconnecting(a, r).conn # "connecting"
    BY DEF Disconnecting, ImAccount, Conn
  <1> QED
    BY <1>1, <1>2, <1>3

LEMMA FirstFields ==
  ASSUME NEW prefs \in Prefs, NEW A \in SUBSET Account
  PROVE  /\ \A b \in Account : b \notin A =>
              NoLongerPending(prefs, A).first[b] = prefs.first[b]
         /\ LoginsEnd(prefs, A).first = prefs.first
         /\ \A a \in Account, b \in Account :
              b # a => FirstConnected(prefs, a).first[b] = prefs.first[b]
  BY DEF NoLongerPending, LoginsEnd, FirstConnected, Prefs

BInv == TL /\ Blames

LEMMA UserBlames ==
  ASSUME BInv, NEW a \in Account, UserStep(a)
  PROVE  Blames'
  <1>1. /\ account \in [Account -> ImAccount] /\ account[a] \in ImAccount
        /\ mem \in Prefs /\ disk \in Prefs /\ saveTimer \in BOOLEAN
        /\ online \in BOOLEAN /\ TypeOK /\ Blames
    BY DEF BInv, TL, TypeOK
  <1>2. {a} \in SUBSET Account /\ mem' \in Prefs /\ mem.list \subseteq Account
    BY <1>1, UserSteps DEF BInv, TL, TypeOK, Prefs
  <1>3. mem'.list \subseteq Account
    BY <1>2 DEF Prefs
  <1>4. CASE UserConnects(a)
    <2>1. Connect({a}, account, mem, FALSE, FALSE)
      BY <1>4 DEF UserConnects
    <2>2. BlamesIn(account, mem)
      BY <1>1 DEF Blames, BlamesIn
    <2> QED
      BY <1>1, <1>2, <2>1, <2>2, ConnectBlames
  <1>5. CASE UserDisconnects(a)
    <2> DEFINE r == Disconnecting(a, RemoveStatusObserver(account[a]))
    <2>1. r.conn # "connecting"
      BY <1>1, Parts, PartsConns
    <2>2. account' = [account EXCEPT ![a] = r]
      BY <1>5 DEF UserDisconnects
    <2> HIDE DEF r
    <2>3. /\ account'[a].conn # "connecting"
          /\ \A b \in Account : b # a => account'[b] = account[b]
      BY <1>1, <2>1, <2>2
    <2>4. /\ mem'.list = mem.list
          /\ \A b \in Account : b # a => mem'.first[b] = mem.first[b]
          /\ disk' = mem' \/ disk' = disk
      <3>1. CASE StopsConnecting({a})
        BY <1>1, <1>2, <3>1, StopsEffects, FirstFields
      <3> QED
        BY <1>5, <3>1 DEF UserDisconnects
    <2> QED
      BY <1>1, <1>2, <1>3, <2>3, <2>4, TameBlames
  <1>6. CASE UserCancelsReconnection(a)
    <2> DEFINE r == CancelReconnection(RemoveStatusObserver(account[a]))
    <2>1. r.conn # "connecting"
      BY <1>1, <1>6, Parts, PartsConns DEF UserCancelsReconnection
    <2>2. account' = [account EXCEPT ![a] = r] /\ mem' = mem /\ disk' = disk
      BY <1>6 DEF UserCancelsReconnection
    <2> HIDE DEF r
    <2>3. /\ account'[a].conn # "connecting"
          /\ \A b \in Account : b # a => account'[b] = account[b]
      BY <1>1, <2>1, <2>2
    <2> QED
      BY <1>1, <1>2, <1>3, <2>2, <2>3, TameBlames
  <1>7. CASE ChangesSettings(a) \/ ChangesPassword(a)
    <2>1. PICK r \in {InfoChanged(account[a]), Types(account[a], TRUE)} :
            /\ account' = [account EXCEPT ![a] = r]
            /\ Save(NewSettings(mem, {a}), FALSE, TRUE)
      BY <1>7 DEF ChangesSettings, ChangesPassword
    <2>2. r.conn = "connecting" => r.soon
      <3>1. CASE r = InfoChanged(account[a])
        BY <1>1, <3>1, PartsConns
      <3>2. CASE r = Types(account[a], TRUE)
        BY <1>1, <3>2, PartsConns
      <3> QED
        BY <3>1, <3>2
    <2>3. /\ account'[a].conn = "connecting" => account'[a].soon
          /\ \A b \in Account : b # a => account'[b] = account[b]
      BY <1>1, <2>1, <2>2
    <2>4. /\ NewSettings(mem, {a}) \in Prefs
          /\ NewSettings(mem, {a}).list = mem.list
          /\ \A b \in Account : b # a =>
               NewSettings(mem, {a}).first[b] = mem.first[b]
      BY <1>1, <1>2, PrefsTypes, PrefsFields, PendingFirst
    <2>5. mem' = NewSettings(mem, {a}) /\ (disk' = mem' \/ disk' = disk)
      BY <1>1, <2>1, <2>4, SaveEffects
    <2> QED
      BY <1>1, <1>2, <1>3, <2>3, <2>4, <2>5, TameBlames
  <1>8. CASE CreatesAccount(a)
    <2> DEFINE p == [mem EXCEPT !.list = @ \cup {a}, !.first[a] = "unknown"]
    <2>1. account' = [account EXCEPT ![a] = Fresh("saved")] /\ Save(p, FALSE, TRUE)
      BY <1>8 DEF CreatesAccount
    <2>2. Fresh("saved").conn # "connecting"
      BY FreshType
    <2>3. /\ account'[a].conn # "connecting"
          /\ \A b \in Account : b # a => account'[b] = account[b]
      BY <1>1, <2>1, <2>2
    <2>4. /\ p \in Prefs /\ p.list = mem.list \cup {a}
          /\ \A b \in Account : b # a => p.first[b] = mem.first[b]
      BY <1>1 DEF Prefs, First
    <2> HIDE DEF p
    <2>5. mem' = p /\ (disk' = mem' \/ disk' = disk)
      BY <1>1, <2>1, <2>4, SaveEffects
    <2> QED
      BY <1>1, <1>2, <1>3, <2>3, <2>4, <2>5, TameBlames
  <1>9. CASE DeletesAccount(a)
    <2> DEFINE p == NoLongerPending(mem, {a})
               q == LoginsEnd(p, {a})
               m == [q EXCEPT !.list = @ \ {a}, !.first[a] = "ok"]
    <2>1. /\ mem' = m /\ (disk' = q \/ disk' = disk)
          /\ \A b \in Account : b # a => account'[b] = account[b]
      BY <1>1, <1>9 DEF DeletesAccount
    <2>2. /\ q \in Prefs /\ q.list = mem.list
          /\ \A b \in Account : b # a => q.first[b] = mem.first[b]
      <3>1. /\ p \in Prefs /\ p.list = mem.list
            /\ \A b \in Account : b # a => p.first[b] = mem.first[b]
        BY <1>1, <1>2, PrefsTypes, PrefsFields, FirstFields
      <3> HIDE DEF p
      <3> QED
        BY <1>2, <3>1, PrefsTypes, PrefsFields, FirstFields
    <2> HIDE DEF q
    <2>3. /\ m.list = mem.list \ {a}
          /\ \A b \in Account : b # a => m.first[b] = mem.first[b]
      BY <2>2 DEF Prefs
    <2> HIDE DEF m
    <2> QED
      BY <1>1, <1>2, <1>3, <2>1, <2>2, <2>3, TameBlames
  <1> QED
    BY <1>4, <1>5, <1>6, <1>7, <1>8, <1>9 DEF UserStep

LEMMA FiresBlames ==
  ASSUME TypeOK, Blames, NEW a \in Account, NEW r \in ImAccount,
         r.conn = account[a].conn /\ r.soon = account[a].soon,
         Fires(a, [account EXCEPT ![a] = r])
  PROVE  Blames'
  <1>1. account \in [Account -> ImAccount] /\ mem \in Prefs
    BY DEF TypeOK
  <1>2. CASE a \in mem.list
    <2>1. Connect({a}, [account EXCEPT ![a] = r], mem, FALSE, FALSE)
      BY <1>2 DEF Fires
    <2> QED
      BY <1>1, <2>1, BlamesConnect
  <1>3. CASE a \notin mem.list
    <2>1. account' = [account EXCEPT ![a] = r] /\ mem' = mem /\ disk' = disk
      BY <1>3 DEF Fires
    <2>2. \A b \in Account : /\ account'[b].conn = account[b].conn
                             /\ account'[b].soon = account[b].soon
      BY <1>1, <2>1
    <2>3. mem.list \subseteq Account
      BY <1>1 DEF Prefs
    <2> QED
      BY <1>1, <2>1, <2>2, <2>3, TameBlames
  <1> QED
    BY <1>2, <1>3

LEMMA EventBlames ==
  ASSUME BInv, NEW a \in Account, EventStep(a)
  PROVE  Blames'
  <1>1. /\ account \in [Account -> ImAccount] /\ account[a] \in ImAccount
        /\ mem \in Prefs /\ disk \in Prefs /\ saveTimer \in BOOLEAN
        /\ online \in BOOLEAN /\ TypeOK /\ Blames
    BY DEF BInv, TL, TypeOK
  <1>2. {a} \in SUBSET Account /\ mem' \in Prefs
    BY <1>1, EventSteps DEF BInv, TL, TypeOK
  <1>3. mem'.list \subseteq Account
    BY <1>2 DEF Prefs
  <1>4. CASE PrplConnected(a)
    <2> DEFINE q == LoginsEnd(mem, {a})
               p == FirstConnected(q, a)
    <2>1. \E later \in BOOLEAN : Save(p, FALSE, later)
      BY <1>4 DEF PrplConnected
    <2>2. /\ q \in Prefs /\ q.list = mem.list /\ q.first = mem.first
      BY <1>1, <1>2, PrefsTypes, PrefsFields
    <2> HIDE DEF q
    <2>3. /\ p \in Prefs /\ p.list = mem.list
          /\ \A b \in Account : b # a => p.first[b] = mem.first[b]
      <3>1. p \in Prefs /\ p.list = mem.list
        BY <1>2, <2>2, PrefsTypes, PrefsFields
      <3>2. \A b \in Account : b # a => p.first[b] = q.first[b]
        BY <1>2, <2>2, FirstFields
      <3> QED
        BY <2>2, <3>1, <3>2
    <2> HIDE DEF p
    <2>4. mem' = p /\ (disk' = mem' \/ disk' = disk)
      BY <1>1, <2>1, <2>3, SaveEffects
    <2>5. /\ account'[a].conn = "connected"
          /\ \A b \in Account : b # a => account'[b] = account[b]
      <3>1. account' = [account EXCEPT ![a].conn = "connected",
                                       ![a].login = FALSE]
        BY <1>4 DEF PrplConnected
      <3> QED
        BY <1>1, <3>1 DEF ImAccount
    <2> QED
      BY <1>1, <1>2, <1>3, <2>3, <2>4, <2>5, TameBlames
  <1>5. CASE \E err \in {"network", "auth"} : PrplFails(a, err)
    <2>1. PICK err \in {"network", "auth"} : PrplFails(a, err)
      BY <1>5
    <2> DEFINE r == [account[a] EXCEPT !.conn = "disconnected", !.err = err,
                                       !.login = FALSE]
               n == IF err = "network" THEN StartReconnectTimer(r) ELSE r
    <2>2. r \in ImAccount /\ r.conn = "disconnected"
      BY <1>1 DEF ImAccount, Conn
    <2>3. n.conn = "disconnected"
      BY <1>1, <2>2, PartsConns
    <2>4. account' = [account EXCEPT ![a] = n] /\ StopsConnecting({a})
      BY <2>1 DEF PrplFails
    <2> HIDE DEF n
    <2>5. /\ account'[a].conn # "connecting"
          /\ \A b \in Account : b # a => account'[b] = account[b]
      BY <1>1, <2>3, <2>4
    <2>6. /\ mem'.list = mem.list
          /\ \A b \in Account : b # a => mem'.first[b] = mem.first[b]
          /\ disk' = mem' \/ disk' = disk
      BY <1>1, <1>2, <2>4, StopsEffects, FirstFields
    <2> QED
      BY <1>1, <1>2, <1>3, <2>5, <2>6, TameBlames
  <1>6. CASE PrplDisconnected(a)
    <2> DEFINE r == [account[a] EXCEPT !.conn = "disconnected"]
    <2>1. r \in ImAccount /\ r.conn = "disconnected"
      BY <1>1 DEF ImAccount, Conn
    <2>2. [account EXCEPT ![a].conn = "disconnected"] = [account EXCEPT ![a] = r]
      BY <1>1
    <2> HIDE DEF r
    <2>3. CASE Connect({a}, [account EXCEPT ![a] = r], mem, FALSE, FALSE)
      BY <1>1, <2>1, <2>3, BlamesConnect
    <2>4. CASE account' = [account EXCEPT ![a] = r] /\ mem' = mem /\ disk' = disk
      <3>1. /\ account'[a].conn # "connecting"
            /\ \A b \in Account : b # a => account'[b] = account[b]
        BY <1>1, <2>1, <2>4
      <3> QED
        BY <1>1, <1>2, <1>3, <2>4, <3>1, TameBlames
    <2> QED
      BY <1>6, <2>2, <2>3, <2>4 DEF PrplDisconnected
  <1>7. CASE TimerFires(a)
    <2>1. CASE Fires(a, [account EXCEPT ![a].timer = FALSE])
      <3> DEFINE r == [account[a] EXCEPT !.timer = FALSE]
      <3>1. /\ r \in ImAccount /\ r.conn = account[a].conn
            /\ r.soon = account[a].soon
            /\ [account EXCEPT ![a].timer = FALSE] = [account EXCEPT ![a] = r]
        BY <1>1 DEF ImAccount
      <3> HIDE DEF r
      <3> QED
        BY <1>1, <2>1, <3>1, FiresBlames
    <2>2. CASE /\ account[a].strays > 0
               /\ Fires(a, [account EXCEPT ![a].strays = @ - 1])
      <3> DEFINE n == account[a].strays - 1
                 r == [account[a] EXCEPT !.strays = n]
      <3>1. n \in Nat
        BY <1>1, <2>2 DEF ImAccount
      <3>2. [account EXCEPT ![a].strays = @ - 1] = [account EXCEPT ![a] = r]
        BY <1>1
      <3> HIDE DEF n
      <3>3. /\ r \in ImAccount /\ r.conn = account[a].conn
            /\ r.soon = account[a].soon
        BY <1>1, <3>1 DEF ImAccount
      <3> HIDE DEF r
      <3> QED
        BY <1>1, <2>2, <3>2, <3>3, FiresBlames
    <2> QED
      BY <1>7, <2>1, <2>2 DEF TimerFires
  <1>8. CASE RunSoon(a)
    <2> DEFINE r == [account[a] EXCEPT !.soon = FALSE]
               stopped == Disconnecting(a, RemoveStatusObserver(r))
               p == NoLongerPending(mem, {a})
               q == LoginsEnd(p, {a})
    <2>1. r \in ImAccount /\ r.conn = account[a].conn
      BY <1>1 DEF ImAccount
    <2>2. CASE Connect({a}, [account EXCEPT ![a] = stopped], q, FALSE, TRUE)
      <3>1. stopped \in ImAccount /\ stopped.conn # "connecting"
        BY <1>1, <2>1, Parts, PartsConns
      <3>2. /\ p \in Prefs /\ p.list = mem.list
            /\ \A b \in Account : b # a => p.first[b] = mem.first[b]
        BY <1>1, <1>2, PrefsTypes, PrefsFields, FirstFields
      <3> HIDE DEF p, stopped
      <3>3. /\ q \in Prefs /\ q.list = mem.list
            /\ \A b \in Account : b # a => q.first[b] = mem.first[b]
        BY <1>2, <3>2, PrefsTypes, PrefsFields, FirstFields
      <3> HIDE DEF q
      <3> QED
        BY <1>1, <2>2, <3>1, <3>3, BlamesConnect
    <2>3. CASE /\ r.conn # "connecting"
               /\ Connect({a}, [account EXCEPT ![a] = r], mem, FALSE, FALSE)
      <3> HIDE DEF r
      <3> QED
        BY <1>1, <2>1, <2>3, BlamesConnect
    <2>4. CASE /\ r.conn # "connecting"
               /\ account' = [account EXCEPT ![a] = r]
               /\ mem' = mem /\ disk' = disk
      <3> HIDE DEF r
      <3>1. /\ account'[a].conn # "connecting"
            /\ \A b \in Account : b # a => account'[b] = account[b]
        BY <1>1, <2>1, <2>4
      <3> QED
        BY <1>1, <1>2, <1>3, <2>4, <3>1, TameBlames
    <2>5. \/ Connect({a}, [account EXCEPT ![a] = stopped], q, FALSE, TRUE)
          \/ /\ r.conn = "disconnected"
             /\ Connect({a}, [account EXCEPT ![a] = r], mem, FALSE, FALSE)
          \/ /\ r.conn # "connecting"
             /\ account' = [account EXCEPT ![a] = r]
             /\ mem' = mem /\ disk' = disk
      BY <1>8 DEF RunSoon
    <2> HIDE DEF r, q, stopped
    <2> QED
      BY <2>2, <2>3, <2>4, <2>5
  <1> QED
    BY <1>4, <1>5, <1>6, <1>7, <1>8 DEF EventStep

LEMMA StepBlames ==
  ASSUME BInv, [Next]_vars
  PROVE  BInv'
  <1>1. /\ account \in [Account -> ImAccount]
        /\ mem \in Prefs /\ disk \in Prefs /\ saveTimer \in BOOLEAN
        /\ online \in BOOLEAN /\ TypeOK /\ Blames /\ mem.list \subseteq Account
    BY DEF BInv, TL, TypeOK, Prefs
  <1>2. TL' /\ mem' \in Prefs
    BY StepTL DEF BInv, TL, TypeOK
  <1>3. mem'.list \subseteq Account
    BY <1>2 DEF Prefs
  <1>4. SUFFICES Blames'
    BY <1>2 DEF BInv
  <1>5. CASE Start \/ Quit \/ Crash
    <2>1. \A a \in Account : account'[a].conn # "connecting"
      <3>1. \A a \in Account :
              LET f == Fresh(account[a].password) IN
                f \in ImAccount /\ f.conn = "disconnected"
        BY <1>1, FreshType DEF ImAccount
      <3>2. CASE Quit \/ Crash
        BY <1>1, <3>1, <3>2 DEF Quit, Crash
      <3>3. CASE Start
        <4>1. \E own \in [Account -> {"none", "missing", "crashed"}] :
                account' = [a \in Account |->
                  [Fresh(account[a].password) EXCEPT !.own = own[a]]]
          <5> DEFINE first == [a \in Account |->
                                 IF a \in disk.list THEN Blamed(disk.first[a])
                                 ELSE disk.first[a]]
                     own == [a \in Account |->
                               IF Fresh(account[a].password).password = "none"
                               THEN "missing"
                               ELSE IF first[a] = "crashed" THEN "crashed"
                               ELSE "none"]
          <5>1. account' = [a \in Account |->
                  [Fresh(account[a].password) EXCEPT !.own = own[a]]]
            BY <3>3 DEF Start
          <5>2. own \in [Account -> {"none", "missing", "crashed"}]
            OBVIOUS
          <5> HIDE DEF own, first
          <5> QED
            BY <5>1, <5>2
        <4> QED
          BY <3>1, <4>1 DEF ImAccount
      <3> QED
        BY <1>5, <3>2, <3>3
    <2> QED
      BY <1>2, <1>3, <2>1 DEF Blames
  <1>6. CASE ProcessAutoLogin
    <2> DEFINE A == {a \in mem.list \cap AutoLogin :
                       account[a].own = "none"
                       /\ account[a].conn \notin {"connecting", "connected"}}
               r == [a \in Account |->
                       [account[a] EXCEPT !.login = @ \/ a \in A]]
               p == [mem EXCEPT !.pending = @ \/ A # {}]
    <2>1. Connect(A, r, p, count = 0 /\ A # {}, FALSE)
      BY <1>6 DEF ProcessAutoLogin
    <2>2. A \in SUBSET Account /\ (count = 0 /\ A # {}) \in BOOLEAN
      BY <1>1
    <2> HIDE DEF A
    <2>3. /\ r \in [Account -> ImAccount]
          /\ \A a \in Account : /\ r[a].conn = account[a].conn
                                /\ r[a].soon = account[a].soon
      BY <1>1 DEF ImAccount
    <2>4. p \in Prefs /\ p.list = mem.list /\ p.first = mem.first
      BY <1>1 DEF Prefs
    <2> HIDE DEF r, p
    <2>5. BlamesIn(r, p)
      BY <1>1, <2>3, <2>4 DEF Blames, BlamesIn
    <2> QED
      BY <1>1, <2>1, <2>2, <2>3, <2>4, <2>5, ConnectBlames
  <1>7. CASE SaveTimerFires
    <2>1. account' = account /\ Save(mem, TRUE, FALSE)
      BY <1>7 DEF SaveTimerFires
    <2>2. mem' = mem /\ (disk' = mem' \/ disk' = disk)
      BY <1>1, <2>1, SaveEffects
    <2> QED
      BY <1>1, <1>2, <2>1, <2>2, TameBlames
  <1>8. CASE UNCHANGED vars
    BY <1>1, <1>2, <1>8, TameBlames DEF vars
  <1>9. CASE GoOffline
    <2> DEFINE A == {a \in Observers :
                       account[a].conn \in {"connecting", "connected"}}
               off(a) == CancelReconnection(Disconnecting(a, account[a]))
    <2>1. /\ account' = [a \in Account |-> IF a \in Observers THEN off(a)
                                           ELSE account[a]]
          /\ StopsConnecting(A)
      BY <1>9 DEF GoOffline
    <2>2. A \in SUBSET Account
      BY <1>1 DEF Observers, Prefs
    <2>3. \A a \in Account : off(a).conn # "connecting"
      <3> TAKE a \in Account
      <3>1. account[a] \in ImAccount
        BY <1>1
      <3>2. /\ Disconnecting(a, account[a]) \in ImAccount
            /\ Disconnecting(a, account[a]).conn # "connecting"
        BY <1>1, <3>1, Parts, PartsConns
      <3> QED
        BY <1>1, <3>2, PartsConns
    <2> HIDE DEF off
    <2>4. \A a \in Account : account'[a].conn = "connecting" =>
            a \notin A /\ account'[a] = account[a]
      BY <2>1, <2>3
    <2> HIDE DEF A
    <2>5. /\ mem'.list = mem.list
          /\ \A b \in Account : b \notin A => mem'.first[b] = mem.first[b]
          /\ disk' = mem' \/ disk' = disk
      BY <1>1, <2>1, <2>2, StopsEffects, FirstFields
    <2> QED
      BY <1>1, <1>2, <1>3, <2>4, <2>5, TameBlames
  <1>10. CASE GoOnline
    <2> DEFINE A == {a \in Observers : ComesBack(a)}
               p == Pending(mem, A)
    <2>1. PICK late \in LateTimers :
            account' = [a \in Account |-> IF a \in A
                                          THEN Connecting(account[a], late)
                                          ELSE account[a]]
      BY <1>10 DEF GoOnline
    <2>2. Save(p, SavesNow(mem, A), FALSE)
      BY <1>10 DEF GoOnline
    <2>3. A \in SUBSET Account
      BY <1>1 DEF Observers, Prefs
    <2>4. SavesNow(mem, A) \in BOOLEAN
      BY DEF SavesNow
    <2>5. p \in Prefs /\ p.list = mem.list
      BY <1>1, <2>3, PrefsTypes, PrefsFields
    <2> HIDE DEF A
    <2>6. \A a \in Account :
            /\ p.first[a] = IF a \in A /\ mem.first[a] # "ok" THEN "pending"
                            ELSE mem.first[a]
            /\ a \in A /\ mem.first[a] # "ok" => SavesNow(mem, A)
      BY <1>1, <2>3, PendingFirst
    <2> HIDE DEF p
    <2>7. mem' = p /\ (disk' = p \/ (disk' = disk /\ ~SavesNow(mem, A)))
      BY <1>1, <2>2, <2>4, <2>5, SaveEffects
    <2>8. SUFFICES ASSUME NEW a \in mem.list,
                          account'[a].conn = "connecting", ~account'[a].soon,
                          p.first[a] # "ok"
                   PROVE  p.first[a] = "pending" /\ disk'.first[a] = "pending"
      BY <2>5, <2>7 DEF Blames
    <2>9. a \in Account
      BY <1>1
    <2>10. CASE a \in A
      BY <2>6, <2>7, <2>8, <2>9, <2>10
    <2>11. CASE a \notin A
      <3>1. account'[a] = account[a] /\ p.first[a] = mem.first[a]
        BY <2>1, <2>6, <2>9, <2>11
      <3>2. mem.first[a] = "pending" /\ disk.first[a] = "pending"
        BY <1>1, <2>8, <3>1 DEF Blames
      <3> QED
        BY <2>7, <3>1, <3>2
    <2> QED
      BY <2>10, <2>11
  <1> QED
    BY <1>5, <1>6, <1>7, <1>8, <1>9, <1>10, UserBlames, EventBlames DEF Next

(***************************************************************************)
(* A crash during a first connection is known to the next start (the       *)
(* setter of firstConnectionState saves it at once).                       *)
(***************************************************************************)
THEOREM CrashesAreBlamed == Spec => CrashIsBlamed
  <1>1. Init => BInv
    <2>1. SUFFICES ASSUME Init PROVE Blames
      BY InitTL DEF BInv
    <2>2. PICK password \in [Account -> Passwords] :
            account = [a \in Account |-> Fresh(password[a])]
      BY <2>1 DEF Init
    <2>3. \A a \in Account : account[a].conn = "disconnected"
      BY <2>2, AccountAssumption, FreshType
    <2>4. mem.list \subseteq Account
      BY <2>1, InitTL DEF TL, TypeOK, Prefs
    <2> QED
      BY <2>3, <2>4 DEF Blames
  <1>2. BInv /\ [Next]_vars => BInv'
    BY StepBlames
  <1>3. BInv /\ [Next]_vars =>
          [Crash => \A a \in mem.list :
             /\ account[a].conn = "connecting" /\ ~account[a].soon
             /\ mem.first[a] # "ok"
             => mem'.first[a] = "pending"]_vars
    BY DEF BInv, Blames, Crash
  <1> QED
    BY <1>1, <1>2, <1>3, PTL DEF Spec, CrashIsBlamed

-----------------------------------------------------------------------------
(* Reconnections.                                                          *)
-----------------------------------------------------------------------------
LEMMA TypesFields ==
  ASSUME NEW r \in ImAccount, NEW kept \in BOOLEAN
  PROVE  LET t == Types(r, kept) IN
           /\ t.password # "none"
           /\ t.conn = r.conn /\ t.err = r.err /\ t.timer = r.timer
           /\ t.observer = r.observer /\ t.strays = r.strays
           /\ t.own = r.own \/ (t.own = "none" /\ r.own = "missing")
  <1>1. CASE ~kept
    BY <1>1 DEF Types, ImAccount
  <1>2. CASE kept
    <2> DEFINE p == [r EXCEPT !.password = "saved"]
               i == InfoChanged(p)
    <2>1. /\ i.password = "saved"
          /\ i.conn = r.conn /\ i.err = r.err /\ i.timer = r.timer
          /\ i.observer = r.observer /\ i.strays = r.strays /\ i.own = r.own
      BY DEF InfoChanged, ImAccount
    <2>2. i \in ImAccount
      <3>1. p \in ImAccount
        BY DEF ImAccount
      <3> QED
        BY <3>1 DEF InfoChanged, ImAccount
    <2>3. Types(r, kept) = [i EXCEPT !.own = IF @ = "missing" THEN "none" ELSE @]
      BY <1>2 DEF Types
    <2> HIDE DEF i
    <2> QED
      BY <2>1, <2>2, <2>3 DEF ImAccount
  <1> QED
    BY <1>1, <1>2

LEMMA ConnectOneSound ==
  ASSUME NEW r \in ImAccount, online \in BOOLEAN,
         NEW typed \in BOOLEAN, NEW kept \in BOOLEAN,
         Sound(r), r.conn \in {"disconnected", "disconnecting"}
  PROVE  LET n == ConnectOne(r, typed, kept, FALSE) IN
           Sound(n) /\ Retried(n, online)
  <1> DEFINE f == Forgets(r)
             p == IF Asks(r) /\ typed THEN Types(f, kept) ELSE f
             q == [p EXCEPT !.observer = TRUE]
             c == Connecting(q, FALSE)
  <1>1. /\ f \in ImAccount /\ Sound(f) /\ f.conn = r.conn
        /\ f.password = "none" => Retried(f, online)
    <2>1. f \in ImAccount
      BY Parts
    <2>2. /\ f.conn = r.conn /\ f.err = r.err /\ f.own = r.own
          /\ f.timer = r.timer /\ f.observer = r.observer /\ f.strays = r.strays
          /\ f.password # r.password => ErrorReason(r) = "auth"
      BY DEF Forgets, ImAccount
    <2>3. ErrorReason(r) = "auth" => r.err = "auth"
      BY DEF ErrorReason, ImAccount
    <2>4. Sound(f)
      BY <2>2, <2>3 DEF Sound
    <2>5. ErrorReason(f) = "network" => f.err = "network"
      BY <2>1 DEF ErrorReason, ImAccount
    <2>6. f.password = "none" => Retried(f, online)
      BY <2>4, <2>5 DEF Retried, Sound
    <2> HIDE DEF f
    <2> QED
      BY <2>1, <2>2, <2>4, <2>6
  <1> HIDE DEF f
  <1>2. /\ p \in ImAccount /\ Sound(p) /\ p.conn = r.conn
        /\ p.password = "none" => Retried(p, online)
    <2>1. CASE Asks(r) /\ typed
      <3> DEFINE t == Types(f, kept)
      <3>1. /\ t \in ImAccount /\ t.password # "none"
            /\ t.conn = f.conn /\ t.err = f.err /\ t.timer = f.timer
            /\ t.observer = f.observer /\ t.strays = f.strays
        BY <1>1, TypesType, TypesFields
      <3> HIDE DEF t
      <3>2. Sound(t)
        BY <1>1, <3>1 DEF Sound
      <3>3. p = t
        BY <2>1 DEF t
      <3> QED
        BY <1>1, <3>1, <3>2, <3>3
    <2>2. CASE ~(Asks(r) /\ typed)
      BY <1>1, <2>2
    <2> QED
      BY <2>1, <2>2
  <1>3. ConnectOne(r, typed, kept, FALSE) =
          IF p.password = "none" THEN p
          ELSE IF online /\ q.conn = "disconnected" THEN c ELSE q
    BY DEF ConnectOne, f
  <1> HIDE DEF p
  <1>4. CASE p.password = "none"
    BY <1>2, <1>3, <1>4
  <1>5. CASE p.password # "none"
    <2>1. /\ q \in ImAccount /\ q.observer /\ q.password # "none"
          /\ q.conn = p.conn /\ q.err = p.err /\ q.timer = p.timer
          /\ q.strays = p.strays
      BY <1>2, <1>5 DEF ImAccount
    <2> HIDE DEF q
    <2>2. Sound(q)
      BY <1>2, <2>1 DEF Sound
    <2>3. CASE online /\ q.conn = "disconnected"
      <3>1. /\ c.conn = "connecting" /\ c.observer /\ c.password # "none"
            /\ c.strays = 0 /\ ~c.timer /\ c.err = q.err
        <4>1. q.err = "none" => ~q.timer
          BY <2>2 DEF Sound
        <4> QED
          BY <2>1, <2>2, <4>1 DEF Connecting, CancelReconnection, ImAccount, Sound
      <3> HIDE DEF c
      <3> QED
        BY <1>3, <1>5, <2>3, <3>1 DEF Sound, Retried
    <2>4. CASE ~(online /\ q.conn = "disconnected")
      BY <1>3, <1>5, <2>2, <2>4 DEF Retried
    <2> QED
      BY <2>3, <2>4
  <1> QED
    BY <1>4, <1>5

(***************************************************************************)
(* connect() of accounts that are not connected.                           *)
(***************************************************************************)
LEMMA ConnectRetries ==
  ASSUME TypeOK, PromptTimers, NEW A \in SUBSET Account,
         NEW r \in [Account -> ImAccount], NEW prefs, NEW now, NEW later,
         Connect(A, r, prefs, now, later),
         \A a \in A : Sound(r[a]) /\ r[a].conn \in {"disconnected", "disconnecting"},
         \A a \in Account \ A : Sound(r[a]) /\ Retried(r[a], online)
  PROVE  /\ \A a \in Account : Sound(account'[a]) /\ Retried(account'[a], online)
         /\ \A a \in Account \ A : account'[a] = r[a]
  <1>1. PICK typed \in SUBSET Account, kept \in SUBSET Account, late \in LateTimers :
          account' = [a \in Account |->
                        IF a \in A
                        THEN ConnectOne(r[a], a \in typed, a \in kept, late)
                        ELSE r[a]]
    <2>1. \E typed \in SUBSET {a \in A : Asks(r[a])}, late \in LateTimers :
          \E kept \in SUBSET typed :
          account' = [a \in Account |->
                        IF a \in A
                        THEN ConnectOne(r[a], a \in typed, a \in kept, late)
                        ELSE r[a]]
      BY DEF Connect
    <2>2. PICK typed \in SUBSET {a \in A : Asks(r[a])}, late \in LateTimers :
          \E kept \in SUBSET typed :
          account' = [a \in Account |->
                        IF a \in A
                        THEN ConnectOne(r[a], a \in typed, a \in kept, late)
                        ELSE r[a]]
      BY <2>1
    <2>3. typed \in SUBSET Account /\ SUBSET typed \subseteq SUBSET Account
      OBVIOUS
    <2> QED
      BY <2>2, <2>3
  <1>2. late = FALSE /\ online \in BOOLEAN
    BY DEF PromptTimers, TypeOK
  <1>3. \A a \in A :
          LET n == ConnectOne(r[a], a \in typed, a \in kept, FALSE) IN
            Sound(n) /\ Retried(n, online)
    <2> TAKE a \in A
    <2>1. r[a] \in ImAccount /\ (a \in typed) \in BOOLEAN /\ (a \in kept) \in BOOLEAN
      OBVIOUS
    <2> QED
      BY <1>2, <2>1, ConnectOneSound
  <1>4. \A a \in Account \ A : account'[a] = r[a]
    BY <1>1
  <1>5. \A a \in A : account'[a] = ConnectOne(r[a], a \in typed, a \in kept, FALSE)
    BY <1>1, <1>2
  <1> QED
    BY <1>3, <1>4, <1>5


(***************************************************************************)
(* What the methods do to accounts whose connections are sound.            *)
(***************************************************************************)
LEMMA DisconnectingSound ==
  ASSUME NEW r \in ImAccount, NEW a \in Account, Sound(r), NEW on \in BOOLEAN,
         Retried(r, on)
  PROVE  LET d == Disconnecting(a, r) IN
           /\ Sound(d) /\ Retried(d, on)
           /\ d.conn \in {"disconnected", "disconnecting"}
           /\ d.observer = r.observer
  <1> DEFINE d == Disconnecting(a, r)
  <1>1. CASE r.conn \notin {"connecting", "connected"}
    BY <1>1 DEF Disconnecting, ImAccount, Conn
  <1>2. CASE r.conn \in {"connecting", "connected"}
    <2>1. /\ d.conn \in {"disconnected", "disconnecting"} /\ d.err = "none"
          /\ d.timer = r.timer /\ d.observer = r.observer /\ d.own = r.own
          /\ d.strays = r.strays /\ d.password = r.password
      BY <1>2 DEF Disconnecting, ImAccount
    <2>2. ~r.timer /\ r.observer /\ r.password # "none" /\ r.strays = 0
      BY <1>2 DEF Sound
    <2> HIDE DEF d
    <2>3. Sound(d)
      BY <2>1, <2>2 DEF Sound
    <2>4. ErrorReason(d) # "network"
      BY <2>1 DEF ErrorReason, ImAccount
    <2> QED
      BY <2>1, <2>3, <2>4 DEF Retried, d
  <1> QED
    BY <1>1, <1>2

(***************************************************************************)
(* disconnect(), by the user or for new settings.                          *)
(***************************************************************************)
LEMMA UserDisconnectSound ==
  ASSUME NEW r \in ImAccount, NEW a \in Account, Sound(r),
         r.conn # "disconnected", NEW on \in BOOLEAN
  PROVE  LET d == Disconnecting(a, RemoveStatusObserver(r)) IN
           /\ d \in ImAccount /\ Sound(d) /\ Retried(d, on)
           /\ d.conn \in {"disconnected", "disconnecting"} /\ ~d.observer
  <1> DEFINE s == RemoveStatusObserver(r)
             d == Disconnecting(a, s)
  <1>1. /\ s \in ImAccount /\ s.conn = r.conn /\ ~s.observer /\ s.timer = r.timer
        /\ s.err = r.err /\ s.strays = r.strays /\ s.password = r.password
    BY DEF RemoveStatusObserver, ImAccount
  <1>2. ~r.timer /\ r.strays = 0 /\ r.password # "none"
        /\ (r.conn = "disconnecting" => r.err = "none")
    BY DEF Sound
  <1>3. r.conn \in {"connecting", "connected", "disconnecting"}
    BY DEF ImAccount, Conn
  <1> HIDE DEF s
  <1>4. /\ d.conn \in {"disconnected", "disconnecting"} /\ d.err = "none"
        /\ ~d.timer /\ ~d.observer /\ d.strays = 0 /\ d.password # "none"
    BY <1>1, <1>2, <1>3 DEF Disconnecting, ImAccount, Conn
  <1> HIDE DEF d
  <1>5. Sound(d) /\ Retried(d, on)
    BY <1>4 DEF Sound, Retried
  <1>6. d \in ImAccount
    BY <1>1 DEF d, Disconnecting, ImAccount, Conn
  <1> QED
    BY <1>4, <1>5, <1>6 DEF d, s

(***************************************************************************)
(* New settings and passwords.                                             *)
(***************************************************************************)
LEMMA SettingsSound ==
  ASSUME NEW r \in ImAccount, Sound(r), NEW on \in BOOLEAN, Retried(r, on)
  PROVE  /\ Sound(InfoChanged(r)) /\ Retried(InfoChanged(r), on)
         /\ Sound(Types(r, TRUE)) /\ Retried(Types(r, TRUE), on)
         /\ InfoChanged(r).conn = r.conn /\ InfoChanged(r).observer = r.observer
         /\ Types(r, TRUE).conn = r.conn /\ Types(r, TRUE).observer = r.observer
  <1> DEFINE i == InfoChanged(r)
             t == Types(r, TRUE)
  <1>1. /\ i.conn = r.conn /\ i.err = r.err /\ i.timer = r.timer /\ i.own = r.own
        /\ i.observer = r.observer /\ i.strays = r.strays
        /\ i.password = r.password
    BY DEF InfoChanged, ImAccount
  <1>2. /\ t.password # "none"
        /\ t.conn = r.conn /\ t.err = r.err /\ t.timer = r.timer
        /\ t.observer = r.observer /\ t.strays = r.strays
        /\ t.own = r.own \/ (t.own = "none" /\ r.own = "missing")
    BY TypesFields
  <1> HIDE DEF i, t
  <1>3. Sound(i)
    BY <1>1 DEF Sound
  <1>4. Retried(i, on)
    <2>1. ErrorReason(i) = ErrorReason(r)
      BY <1>1 DEF ErrorReason
    <2> QED
      BY <1>1, <2>1 DEF Retried
  <1>5. Sound(t)
    BY <1>2 DEF Sound
  <1>6. Retried(t, on)
    <2>1. SUFFICES ASSUME on, t.observer, t.conn = "disconnected",
                          ErrorReason(t) = "network"
                   PROVE  t.timer
      BY DEF Retried
    <2>2. t.err = "network" /\ t.own \in {"none", "missing"}
      BY <1>2, <2>1 DEF ErrorReason, ImAccount
    <2>3. r.err = "network" /\ r.own \in {"none", "missing"} /\ r.observer
      BY <1>2, <2>1, <2>2
    <2>4. r.password # "none"
      BY <2>3 DEF Sound
    <2>5. ErrorReason(r) = "network"
      BY <2>3, <2>4 DEF ErrorReason
    <2> QED
      BY <1>2, <2>1, <2>5 DEF Retried
  <1> QED
    BY <1>1, <1>2, <1>3, <1>4, <1>5, <1>6 DEF i, t

LEMMA FreshSound ==
  ASSUME NEW password \in {"none", "session", "saved"},
         NEW own \in {"none", "missing", "crashed"}, NEW on \in BOOLEAN
  PROVE  LET f == [Fresh(password) EXCEPT !.own = own] IN
           /\ Sound(f) /\ Retried(f, on)
           /\ f.conn = "disconnected" /\ ~f.observer
  <1> DEFINE f == [Fresh(password) EXCEPT !.own = own]
  <1>1. /\ f.conn = "disconnected" /\ f.err = "none" /\ ~f.observer /\ ~f.timer
        /\ f.strays = 0
    BY DEF Fresh
  <1> HIDE DEF f
  <1>2. Sound(f) /\ Retried(f, on)
    BY <1>1 DEF Sound, Retried
  <1> QED
    BY <1>1, <1>2 DEF f

LEMMA FailedSound ==
  ASSUME NEW r \in ImAccount, online \in BOOLEAN, Sound(r),
         r.conn \in {"connecting", "connected"}, NEW err \in {"network", "auth"}
  PROVE  LET x == [r EXCEPT !.conn = "disconnected", !.err = err,
                            !.login = FALSE]
             n == IF err = "network" THEN StartReconnectTimer(x) ELSE x
         IN  Sound(n) /\ Retried(n, online) /\ n.conn = "disconnected"
  <1> DEFINE x == [r EXCEPT !.conn = "disconnected", !.err = err,
                            !.login = FALSE]
             n == IF err = "network" THEN StartReconnectTimer(x) ELSE x
  <1>1. ~r.timer /\ r.observer /\ r.password # "none" /\ r.strays = 0
    BY DEF Sound
  <1>2. /\ x \in ImAccount /\ x.conn = "disconnected" /\ x.err = err /\ ~x.timer
        /\ x.observer /\ x.password # "none" /\ x.strays = 0
    BY <1>1 DEF ImAccount, Conn
  <1> HIDE DEF x
  <1>3. CASE err = "network" /\ online
    <2> DEFINE z == x.strays + (IF x.timer THEN 1 ELSE 0)
               y == [x EXCEPT !.timer = TRUE, !.strays = z]
    <2>1. z = 0
      BY <1>2
    <2>2. StartReconnectTimer(x) = y
      BY <1>3 DEF StartReconnectTimer
    <2> HIDE DEF z
    <2>3. /\ y.conn = "disconnected" /\ y.err = "network" /\ y.timer
          /\ y.observer /\ y.password # "none" /\ y.strays = 0
      BY <1>2, <1>3, <2>1 DEF ImAccount
    <2> HIDE DEF y
    <2>4. Sound(y) /\ Retried(y, online)
      BY <2>3 DEF Sound, Retried
    <2> QED
      BY <1>3, <2>2, <2>3, <2>4 DEF x
  <1>4. CASE ~(err = "network" /\ online)
    <2>1. n = x
      BY <1>4 DEF StartReconnectTimer
    <2>2. Sound(x)
      BY <1>2 DEF Sound
    <2>3. Retried(x, online)
      <3>1. ErrorReason(x) = "network" => err = "network"
        BY <1>2 DEF ErrorReason, ImAccount
      <3> QED
        BY <1>4, <3>1 DEF Retried
    <2> QED
      BY <1>2, <2>1, <2>2, <2>3 DEF x
  <1> QED
    BY <1>3, <1>4

LEMMA OnlineSound ==
  ASSUME NEW r \in ImAccount, Sound(r), r.conn = "disconnected", r.observer,
         ErrorReason(r) \in {"none", "network"}
  PROVE  LET c == Connecting(r, FALSE) IN Sound(c) /\ Retried(c, TRUE)
  <1> DEFINE c == Connecting(r, FALSE)
  <1>1. r.password # "none"
    BY DEF Sound, ErrorReason, ImAccount
  <1>2. r.err = "none" => ~r.timer
    BY DEF Sound
  <1>3. /\ c.conn = "connecting" /\ c.observer /\ c.password # "none"
        /\ c.strays = 0 /\ ~c.timer
    BY <1>1, <1>2 DEF Connecting, CancelReconnection, ImAccount, Sound
  <1> HIDE DEF c
  <1> QED
    BY <1>3 DEF Sound, Retried, c

(***************************************************************************)
(* Steps that change one account and begin no connection.                  *)
(***************************************************************************)
RInv == TL /\ Retries

LEMMA OneAccount ==
  ASSUME RInv, NEW a \in Account, NEW r,
         account' = [account EXCEPT ![a] = r],
         online' = online, Sound(r), Retried(r, online),
         mem.list \ {a} \subseteq mem'.list,
         a \in mem'.list \/ (r.conn = "disconnected" /\ ~r.observer)
  PROVE  Retries'
  <1>1. account \in [Account -> ImAccount]
    BY DEF RInv, TL, TypeOK
  <1>2. /\ account'[a] = r
        /\ \A b \in Account : b # a => account'[b] = account[b]
    BY <1>1
  <1>3. \A b \in Account : Sound(account'[b]) /\ Retried(account'[b], online')
    BY <1>2 DEF RInv, Retries
  <1>4. \A b \in Account \ mem'.list :
          account'[b].conn = "disconnected" /\ ~account'[b].observer
    BY <1>2 DEF RInv, Retries
  <1> QED
    BY <1>3, <1>4 DEF Retries, Sound, Retried, ErrorReason

LEMMA OneConnects ==
  ASSUME RInv, PromptTimers, NEW a \in mem.list, NEW r \in ImAccount,
         NEW prefs \in Prefs, NEW later \in BOOLEAN, prefs.list = mem.list,
         Connect({a}, [account EXCEPT ![a] = r], prefs, FALSE, later),
         Sound(r), r.conn \in {"disconnected", "disconnecting"},
         online' = online
  PROVE  /\ Retries'
         /\ \A b \in Account : b # a => account'[b] = account[b]
  <1> DEFINE next == [account EXCEPT ![a] = r]
  <1>1. /\ account \in [Account -> ImAccount] /\ TypeOK
        /\ mem.list \subseteq Account
    BY DEF RInv, TL, TypeOK, Prefs
  <1>2. /\ next \in [Account -> ImAccount] /\ next[a] = r
        /\ \A b \in Account : b # a => next[b] = account[b]
    BY <1>1
  <1>3. Connect({a}, next, prefs, FALSE, later) /\ {a} \in SUBSET Account
    BY <1>1
  <1> HIDE DEF next
  <1>4. \A b \in Account \ {a} : Sound(next[b]) /\ Retried(next[b], online)
    BY <1>2 DEF RInv, Retries
  <1>5. \A b \in {a} : Sound(next[b])
                       /\ next[b].conn \in {"disconnected", "disconnecting"}
    BY <1>2
  <1>6. /\ \A b \in Account : Sound(account'[b]) /\ Retried(account'[b], online)
        /\ \A b \in Account \ {a} : account'[b] = next[b]
    BY <1>1, <1>2, <1>3, <1>4, <1>5, ConnectRetries
  <1>7. \A b \in Account : b # a => account'[b] = account[b]
    BY <1>2, <1>6
  <1>8. mem'.list = mem.list
    BY <1>1, <1>2, <1>3, ConnectEffects
  <1>9. \A b \in Account \ mem'.list :
          account'[b].conn = "disconnected" /\ ~account'[b].observer
    BY <1>7, <1>8 DEF RInv, Retries
  <1> QED
    BY <1>6, <1>7, <1>9 DEF Retries, Sound, Retried, ErrorReason

LEMMA UserRetries ==
  ASSUME RInv, PromptTimers, NEW a \in Account, UserStep(a)
  PROVE  Retries'
  <1>1. /\ account \in [Account -> ImAccount] /\ account[a] \in ImAccount
        /\ mem \in Prefs /\ disk \in Prefs /\ saveTimer \in BOOLEAN
        /\ online \in BOOLEAN /\ TypeOK
        /\ Sound(account[a]) /\ Retried(account[a], online)
        /\ account = [account EXCEPT ![a] = account[a]]
    BY DEF RInv, TL, TypeOK, Retries
  <1>2. {a} \in SUBSET Account /\ account[a].conn \in Conn
    BY <1>1 DEF ImAccount
  <1>3. CASE UserConnects(a)
    <2>1. /\ Connect({a}, account, mem, FALSE, FALSE) /\ online' = online
          /\ a \in mem.list /\ account[a].conn = "disconnected"
      BY <1>3 DEF UserConnects
    <2> QED
      BY <1>1, <2>1, OneConnects
  <1>4. CASE UserDisconnects(a)
    <2> DEFINE r == Disconnecting(a, RemoveStatusObserver(account[a]))
    <2>1. /\ account' = [account EXCEPT ![a] = r] /\ online' = online
          /\ a \in mem.list /\ account[a].conn # "disconnected"
      BY <1>4 DEF UserDisconnects
    <2>2. Sound(r) /\ Retried(r, online)
      BY <1>1, <2>1, UserDisconnectSound
    <2> HIDE DEF r
    <2>3. mem'.list = mem.list
      <3>1. CASE StopsConnecting({a})
        BY <1>1, <1>2, <3>1, StopsEffects
      <3> QED
        BY <1>4, <3>1 DEF UserDisconnects
    <2> QED
      BY <2>1, <2>2, <2>3, OneAccount
  <1>5. CASE UserCancelsReconnection(a)
    <2> DEFINE r == CancelReconnection(RemoveStatusObserver(account[a]))
    <2>1. /\ account' = [account EXCEPT ![a] = r] /\ online' = online
          /\ a \in mem.list /\ account[a].conn = "disconnected" /\ mem' = mem
      BY <1>5 DEF UserCancelsReconnection
    <2>2. /\ r.conn = "disconnected" /\ ~r.timer /\ ~r.observer
          /\ r.strays = account[a].strays
      BY <1>1, <2>1 DEF CancelReconnection, RemoveStatusObserver, ImAccount
    <2> HIDE DEF r
    <2>3. Sound(r) /\ Retried(r, online)
      BY <1>1, <2>2 DEF Sound, Retried
    <2> QED
      BY <2>1, <2>3, OneAccount
  <1>6. CASE ChangesSettings(a) \/ ChangesPassword(a)
    <2>1. PICK r \in {InfoChanged(account[a]), Types(account[a], TRUE)} :
            /\ account' = [account EXCEPT ![a] = r]
            /\ Save(NewSettings(mem, {a}), FALSE, TRUE)
      BY <1>6 DEF ChangesSettings, ChangesPassword
    <2>2. online' = online /\ a \in mem.list
      BY <1>6 DEF ChangesSettings, ChangesPassword
    <2>3. Sound(r) /\ Retried(r, online)
      BY <1>1, SettingsSound
    <2>4. NewSettings(mem, {a}) \in Prefs /\ NewSettings(mem, {a}).list = mem.list
      BY <1>1, <1>2, PrefsTypes, PrefsFields
    <2>5. mem'.list = mem.list
      BY <1>1, <2>1, <2>4, SaveEffects
    <2> QED
      BY <2>1, <2>2, <2>3, <2>5, OneAccount
  <1>7. CASE CreatesAccount(a)
    <2> DEFINE p == [mem EXCEPT !.list = @ \cup {a}, !.first[a] = "unknown"]
    <2>1. /\ account' = [account EXCEPT ![a] = Fresh("saved")]
          /\ Save(p, FALSE, TRUE) /\ online' = online
      BY <1>7 DEF CreatesAccount
    <2>2. p \in Prefs /\ p.list = mem.list \cup {a}
      BY <1>1 DEF Prefs, First
    <2> HIDE DEF p
    <2>3. mem' = p
      BY <1>1, <2>1, <2>2, SaveEffects
    <2>4. Sound(Fresh("saved")) /\ Retried(Fresh("saved"), online)
      BY FreshType DEF Sound, Retried
    <2> QED
      BY <2>1, <2>2, <2>3, <2>4, OneAccount
  <1>8. CASE DeletesAccount(a)
    <2> DEFINE p == NoLongerPending(mem, {a})
               q == LoginsEnd(p, {a})
               m == [q EXCEPT !.list = @ \ {a}, !.first[a] = "ok"]
               r == [Fresh("none") EXCEPT !.strays = account[a].strays]
    <2>1. mem' = m /\ account' = [account EXCEPT ![a] = r] /\ online' = online
      BY <1>8 DEF DeletesAccount
    <2>2. q \in Prefs /\ q.list = mem.list
      <3>1. p \in Prefs /\ p.list = mem.list
        BY <1>1, <1>2, PrefsTypes, PrefsFields
      <3> HIDE DEF p
      <3> QED
        BY <1>2, <3>1, PrefsTypes, PrefsFields
    <2> HIDE DEF q
    <2>3. m.list = mem.list \ {a}
      BY <2>2 DEF Prefs
    <2> HIDE DEF m
    <2>4. /\ r.conn = "disconnected" /\ ~r.observer /\ ~r.timer
          /\ r.strays = account[a].strays
      BY DEF Fresh
    <2> HIDE DEF r
    <2>5. Sound(r) /\ Retried(r, online)
      BY <1>1, <2>4 DEF Sound, Retried
    <2> QED
      BY <2>1, <2>3, <2>4, <2>5, OneAccount
  <1> QED
    BY <1>3, <1>4, <1>5, <1>6, <1>7, <1>8 DEF UserStep

(***************************************************************************)
(* What NoUnaskedConnect says of a step.                                   *)
(***************************************************************************)
Asked ==
  \A a \in Account :
    account[a].conn # "connecting" /\ account'[a].conn = "connecting"
    => \/ account[a].observer \/ account[a].soon
       \/ ops' # ops \/ waitsForLogin' # waitsForLogin

LEMMA EventRetries ==
  ASSUME RInv, PromptTimers, NEW a \in Account, EventStep(a)
  PROVE  Retries' /\ Asked
  <1>1. /\ account \in [Account -> ImAccount] /\ account[a] \in ImAccount
        /\ mem \in Prefs /\ disk \in Prefs /\ saveTimer \in BOOLEAN
        /\ online \in BOOLEAN /\ TypeOK
        /\ Sound(account[a]) /\ Retried(account[a], online)
        /\ a \in mem.list \/ (account[a].conn = "disconnected"
                               /\ ~account[a].observer)
    BY DEF RInv, TL, TypeOK, Retries
  <1>2. {a} \in SUBSET Account /\ account[a].conn \in Conn
    BY <1>1 DEF ImAccount
  <1>3. online' = online
    BY DEF EventStep, PrplConnected, PrplFails, PrplDisconnected, TimerFires,
           RunSoon, Event
  <1>4. CASE PrplConnected(a)
    <2> DEFINE q == LoginsEnd(mem, {a})
               p == FirstConnected(q, a)
               r == [account[a] EXCEPT !.conn = "connected", !.login = FALSE]
    <2>1. \E later \in BOOLEAN : Save(p, FALSE, later)
      BY <1>4 DEF PrplConnected
    <2>2. q \in Prefs /\ q.list = mem.list
      BY <1>1, <1>2, PrefsTypes, PrefsFields
    <2> HIDE DEF q
    <2>3. p \in Prefs /\ p.list = mem.list
      BY <1>2, <2>2, PrefsTypes, PrefsFields
    <2> HIDE DEF p
    <2>4. mem' = p
      BY <1>1, <2>1, <2>3, SaveEffects
    <2>5. account[a].conn = "connecting"
          /\ account' = [account EXCEPT ![a] = r]
      <3>1. account[a].conn = "connecting"
            /\ account' = [account EXCEPT ![a].conn = "connected",
                                          ![a].login = FALSE]
        BY <1>4 DEF PrplConnected
      <3> QED
        BY <1>1, <3>1
    <2>6. /\ r.conn = "connected" /\ r.observer = account[a].observer
          /\ r.timer = account[a].timer /\ r.err = account[a].err
          /\ r.strays = account[a].strays /\ r.password = account[a].password
      BY <1>1 DEF ImAccount
    <2> HIDE DEF r
    <2>7. Sound(r) /\ Retried(r, online)
      BY <1>1, <2>5, <2>6 DEF Sound, Retried
    <2>8. a \in mem.list
      BY <1>1, <2>5
    <2>9. Retries'
      BY <1>3, <2>3, <2>4, <2>5, <2>7, <2>8, OneAccount
    <2>10. Asked
      BY <1>1, <2>5, <2>6 DEF Asked
    <2> QED
      BY <2>9, <2>10
  <1>5. CASE \E err \in {"network", "auth"} : PrplFails(a, err)
    <2>1. PICK err \in {"network", "auth"} : PrplFails(a, err)
      BY <1>5
    <2> DEFINE r == [account[a] EXCEPT !.conn = "disconnected", !.err = err,
                                       !.login = FALSE]
               n == IF err = "network" THEN StartReconnectTimer(r) ELSE r
    <2>2. /\ account' = [account EXCEPT ![a] = n] /\ StopsConnecting({a})
          /\ account[a].conn \in {"connecting", "connected"}
      BY <2>1 DEF PrplFails
    <2>3. Sound(n) /\ Retried(n, online) /\ n.conn = "disconnected"
      BY <1>1, <2>2, FailedSound
    <2> HIDE DEF n
    <2>4. mem'.list = mem.list /\ a \in mem.list
      BY <1>1, <1>2, <2>2, StopsEffects
    <2>5. Retries'
      BY <1>3, <2>2, <2>3, <2>4, OneAccount
    <2>6. Asked
      BY <1>1, <2>2, <2>3 DEF Asked
    <2> QED
      BY <2>5, <2>6
  <1>6. CASE PrplDisconnected(a)
    <2> DEFINE r == [account[a] EXCEPT !.conn = "disconnected"]
    <2>1. account[a].conn = "disconnecting" /\ a \in mem.list
      BY <1>1, <1>6 DEF PrplDisconnected
    <2>2. [account EXCEPT ![a].conn = "disconnected"] = [account EXCEPT ![a] = r]
      BY <1>1
    <2>3. /\ r \in ImAccount /\ r.conn = "disconnected" /\ r.err = "none"
          /\ ~r.timer /\ r.observer = account[a].observer /\ r.strays = 0
          /\ r.password # "none"
      BY <1>1, <2>1 DEF ImAccount, Conn, Sound
    <2>4. Sound(r) /\ Retried(r, online)
      <3>1. ErrorReason(r) # "network"
        BY <2>3 DEF ErrorReason, ImAccount
      <3> HIDE DEF r
      <3> QED
        BY <2>3, <3>1 DEF Sound, Retried
    <2>5. \/ /\ Connect({a}, [account EXCEPT ![a] = r], mem, FALSE, FALSE)
             /\ account[a].observer
          \/ account' = [account EXCEPT ![a] = r] /\ mem' = mem
      BY <1>6, <2>2 DEF PrplDisconnected
    <2> HIDE DEF r
    <2>6. CASE /\ Connect({a}, [account EXCEPT ![a] = r], mem, FALSE, FALSE)
               /\ account[a].observer
      <3>1. Retries' /\ \A b \in Account : b # a => account'[b] = account[b]
        BY <1>1, <1>3, <2>1, <2>3, <2>4, <2>6, OneConnects
      <3> QED
        BY <2>6, <3>1 DEF Asked
    <2>7. CASE account' = [account EXCEPT ![a] = r] /\ mem' = mem
      <3>1. Retries'
        BY <1>3, <2>1, <2>4, <2>7, OneAccount
      <3>2. Asked
        BY <1>1, <2>3, <2>7 DEF Asked
      <3> QED
        BY <3>1, <3>2
    <2> QED
      BY <2>5, <2>6, <2>7
  <1>7. CASE TimerFires(a)
    <2> DEFINE r == [account[a] EXCEPT !.timer = FALSE]
    <2>1. account[a].timer /\ Fires(a, [account EXCEPT ![a].timer = FALSE])
      <3>1. ~(account[a].strays > 0)
        BY <1>1 DEF Sound
      <3> QED
        BY <1>7, <3>1 DEF TimerFires
    <2>2. /\ account[a].observer /\ account[a].conn = "disconnected"
          /\ a \in mem.list
      BY <1>1, <2>1 DEF Sound
    <2>3. [account EXCEPT ![a].timer = FALSE] = [account EXCEPT ![a] = r]
      BY <1>1
    <2>4. /\ r \in ImAccount /\ ~r.timer /\ r.conn = "disconnected"
          /\ r.err = account[a].err /\ r.observer = account[a].observer
          /\ r.strays = account[a].strays /\ r.password = account[a].password
      BY <1>1, <2>2 DEF ImAccount
    <2>5. Connect({a}, [account EXCEPT ![a] = r], mem, FALSE, FALSE)
      BY <2>1, <2>2, <2>3 DEF Fires
    <2> HIDE DEF r
    <2>6. Sound(r)
      BY <1>1, <2>2, <2>4 DEF Sound
    <2>7. Retries' /\ \A b \in Account : b # a => account'[b] = account[b]
      BY <1>1, <1>3, <2>2, <2>4, <2>5, <2>6, OneConnects
    <2> QED
      BY <2>2, <2>7 DEF Asked
  <1>8. CASE RunSoon(a)
    <2> DEFINE r == [account[a] EXCEPT !.soon = FALSE]
               stopped == Disconnecting(a, RemoveStatusObserver(r))
               p == NoLongerPending(mem, {a})
               q == LoginsEnd(p, {a})
    <2>1. /\ r \in ImAccount /\ r.conn = account[a].conn
          /\ r.own = account[a].own /\ r.timer = account[a].timer
          /\ r.err = account[a].err /\ r.observer = account[a].observer
          /\ r.strays = account[a].strays /\ r.password = account[a].password
      BY <1>1 DEF ImAccount
    <2>2. \/ /\ r.conn = "connecting"
             /\ Connect({a}, [account EXCEPT ![a] = stopped], q, FALSE, TRUE)
          \/ /\ r.conn = "disconnected" /\ a \in mem.list
             /\ Connect({a}, [account EXCEPT ![a] = r], mem, FALSE, FALSE)
          \/ /\ r.conn # "connecting"
             /\ account' = [account EXCEPT ![a] = r] /\ mem' = mem
      BY <1>8 DEF RunSoon
    <2>3. Sound(r) /\ Retried(r, online)
      <3>1. ErrorReason(r) = ErrorReason(account[a])
        BY <2>1 DEF ErrorReason
      <3> HIDE DEF r
      <3> QED
        BY <1>1, <2>1, <3>1 DEF Sound, Retried
    <2>4. account[a].soon
      BY <1>8 DEF RunSoon
    <2>5. CASE /\ r.conn = "connecting"
               /\ Connect({a}, [account EXCEPT ![a] = stopped], q, FALSE, TRUE)
      <3>1. /\ stopped \in ImAccount /\ Sound(stopped)
            /\ stopped.conn \in {"disconnected", "disconnecting"}
        <4> HIDE DEF r
        <4> QED
          BY <1>1, <2>1, <2>3, <2>5, UserDisconnectSound
      <3>2. q \in Prefs /\ q.list = mem.list
        <4>1. p \in Prefs /\ p.list = mem.list
          BY <1>1, <1>2, PrefsTypes, PrefsFields
        <4> HIDE DEF p
        <4> QED
          BY <1>2, <4>1, PrefsTypes, PrefsFields
      <3>3. a \in mem.list
        BY <1>1, <2>1, <2>5
      <3> HIDE DEF q, stopped, r
      <3>4. Retries' /\ \A b \in Account : b # a => account'[b] = account[b]
        BY <1>3, <2>5, <3>1, <3>2, <3>3, OneConnects
      <3> QED
        BY <2>4, <3>4 DEF Asked
    <2>6. CASE /\ r.conn = "disconnected" /\ a \in mem.list
               /\ Connect({a}, [account EXCEPT ![a] = r], mem, FALSE, FALSE)
      <3> HIDE DEF r
      <3>1. Retries' /\ \A b \in Account : b # a => account'[b] = account[b]
        BY <1>1, <1>3, <2>1, <2>3, <2>6, OneConnects
      <3> QED
        BY <2>4, <3>1 DEF Asked
    <2>7. CASE /\ r.conn # "connecting"
               /\ account' = [account EXCEPT ![a] = r] /\ mem' = mem
      <3> HIDE DEF r
      <3>1. Retries'
        BY <1>1, <1>3, <2>1, <2>3, <2>7, OneAccount
      <3>2. Asked
        BY <1>1, <2>7 DEF Asked
      <3> QED
        BY <3>1, <3>2
    <2> HIDE DEF r, q, stopped
    <2> QED
      BY <2>2, <2>5, <2>6, <2>7
  <1> QED
    BY <1>4, <1>5, <1>6, <1>7, <1>8 DEF EventStep

LEMMA AllFresh ==
  ASSUME TypeOK, mem'.list \subseteq Account,
         \E own \in [Account -> {"none", "missing", "crashed"}] :
           account' = [a \in Account |->
             [Fresh(account[a].password) EXCEPT !.own = own[a]]]
  PROVE  Retries' /\ Asked
  <1>1. PICK own \in [Account -> {"none", "missing", "crashed"}] :
           account' = [a \in Account |->
             [Fresh(account[a].password) EXCEPT !.own = own[a]]]
    OBVIOUS
  <1>2. \A a \in Account :
          /\ Sound(account'[a]) /\ Retried(account'[a], TRUE)
          /\ account'[a].conn = "disconnected" /\ ~account'[a].observer
    <2> TAKE a \in Account
    <2> DEFINE n == [Fresh(account[a].password) EXCEPT !.own = own[a]]
    <2>1. account[a].password \in {"none", "session", "saved"}
      BY DEF TypeOK, ImAccount
    <2>2. own[a] \in {"none", "missing", "crashed"}
      OBVIOUS
    <2>3. /\ Sound(n) /\ Retried(n, TRUE)
          /\ n.conn = "disconnected" /\ ~n.observer
      BY <2>1, <2>2, FreshSound
    <2>4. account'[a] = n
      BY <1>1
    <2> HIDE DEF n
    <2> QED
      BY <2>3, <2>4
  <1>3. \A a \in Account : Retried(account'[a], online')
    BY <1>2 DEF Retried
  <1> QED
    BY <1>2, <1>3 DEF Retries, Sound, Retried, ErrorReason, Asked

LEMMA StatusRetries ==
  ASSUME RInv, PromptTimers, GoOffline \/ GoOnline
  PROVE  Retries' /\ Asked
  <1>1. /\ account \in [Account -> ImAccount] /\ mem \in Prefs
        /\ online \in BOOLEAN /\ TypeOK /\ Retries
    BY DEF RInv, TL, TypeOK
  <1>2. CASE GoOffline
    <2> DEFINE A == {a \in Observers :
                       account[a].conn \in {"connecting", "connected"}}
               off(a) == CancelReconnection(Disconnecting(a, account[a]))
    <2>1. /\ account' = [a \in Account |-> IF a \in Observers THEN off(a)
                                           ELSE account[a]]
          /\ StopsConnecting(A) /\ online' = FALSE
      BY <1>2 DEF GoOffline
    <2>2. A \in SUBSET Account
      BY <1>1 DEF Observers, Prefs
    <2> HIDE DEF A
    <2>3. mem'.list = mem.list
      BY <1>1, <2>1, <2>2, StopsEffects
    <2>4. \A a \in Account : /\ Sound(off(a)) /\ off(a).conn # "connecting"
      <3> TAKE a \in Account
      <3> DEFINE d == Disconnecting(a, account[a])
      <3>1. account[a] \in ImAccount /\ Sound(account[a])
            /\ Retried(account[a], online)
        BY <1>1 DEF Retries
      <3>2. /\ d \in ImAccount /\ Sound(d)
            /\ d.conn \in {"disconnected", "disconnecting"}
        BY <1>1, <3>1, Parts, DisconnectingSound
      <3> HIDE DEF d
      <3>3. LET c == CancelReconnection(d) IN
              /\ c.conn = d.conn /\ c.err = d.err /\ ~c.timer
              /\ c.observer = d.observer /\ c.strays = d.strays
              /\ c.password = d.password
        BY <3>2 DEF CancelReconnection, ImAccount
      <3>4. off(a) = CancelReconnection(d)
        BY DEF d
      <3> HIDE DEF off
      <3>5. Sound(off(a))
        BY <3>2, <3>3, <3>4 DEF Sound
      <3> QED
        BY <3>2, <3>3, <3>4, <3>5
    <2> HIDE DEF off
    <2>5. \A a \in Account : Sound(account'[a])
      BY <1>1, <2>1, <2>4 DEF Retries
    <2>6. \A a \in Account : Retried(account'[a], online')
      BY <2>1 DEF Retried
    <2>7. \A a \in Account \ mem.list : account'[a] = account[a]
      BY <2>1 DEF Observers
    <2>8. Retries'
      BY <1>1, <2>3, <2>5, <2>6, <2>7 DEF Retries, Sound, Retried, ErrorReason
    <2>9. Asked
      BY <1>1, <2>1, <2>4 DEF Asked
    <2> QED
      BY <2>8, <2>9
  <1>3. CASE GoOnline
    <2> DEFINE A == {a \in Observers : ComesBack(a)}
               p == Pending(mem, A)
    <2>1. PICK late \in LateTimers :
            account' = [a \in Account |-> IF a \in A
                                          THEN Connecting(account[a], late)
                                          ELSE account[a]]
      BY <1>3 DEF GoOnline
    <2>2. Save(p, SavesNow(mem, A), FALSE) /\ online' = TRUE /\ late = FALSE
      BY <1>3 DEF GoOnline, PromptTimers
    <2>3. A \in SUBSET Account /\ SavesNow(mem, A) \in BOOLEAN
      BY <1>1 DEF Observers, Prefs, SavesNow
    <2>4. \A a \in A : /\ a \in Account /\ account[a].observer
                       /\ account[a].conn = "disconnected"
                       /\ ErrorReason(account[a]) \in {"none", "network"}
      BY <2>3 DEF Observers, ComesBack
    <2>5. \A a \in Account \ A : Retried(account[a], TRUE)
      <3> SUFFICES ASSUME NEW a \in Account, account[a].observer,
                          account[a].conn = "disconnected",
                          ErrorReason(account[a]) = "network"
                   PROVE  a \in A
        BY DEF Retried
      <3>1. a \in mem.list
        BY <1>1 DEF Retries
      <3> QED
        BY <3>1 DEF Observers, ComesBack
    <2>6. p \in Prefs /\ p.list = mem.list
      BY <1>1, <2>3, PrefsTypes, PrefsFields
    <2>7. A \subseteq mem.list
      BY DEF Observers
    <2> HIDE DEF A, p
    <2>8. mem'.list = mem.list
      BY <1>1, <2>2, <2>3, <2>6, SaveEffects
    <2>9. \A a \in A : Sound(account'[a]) /\ Retried(account'[a], TRUE)
      <3> TAKE a \in A
      <3>1. account[a] \in ImAccount /\ Sound(account[a])
        BY <1>1, <2>4 DEF Retries
      <3>2. LET c == Connecting(account[a], FALSE) IN Sound(c) /\ Retried(c, TRUE)
        BY <2>4, <3>1, OnlineSound
      <3>3. account'[a] = Connecting(account[a], FALSE)
        BY <2>1, <2>2, <2>4
      <3> QED
        BY <3>2, <3>3
    <2>10. \A a \in Account \ A : account'[a] = account[a]
      BY <2>1
    <2>11. \A a \in Account : Sound(account'[a]) /\ Retried(account'[a], TRUE)
      BY <1>1, <2>5, <2>9, <2>10 DEF Retries
    <2>12. Retries'
      BY <1>1, <2>2, <2>7, <2>8, <2>10, <2>11
      DEF Retries, Sound, Retried, ErrorReason
    <2>13. Asked
      BY <2>4, <2>10 DEF Asked
    <2> QED
      BY <2>12, <2>13
  <1> QED
    BY <1>2, <1>3

LEMMA AutoLoginRetries ==
  ASSUME RInv, PromptTimers, ProcessAutoLogin
  PROVE  Retries' /\ Asked
  <1> DEFINE A == {a \in mem.list \cap AutoLogin :
                     account[a].own = "none"
                     /\ account[a].conn \notin {"connecting", "connected"}}
             r == [a \in Account |->
                     [account[a] EXCEPT !.login = @ \/ a \in A]]
             p == [mem EXCEPT !.pending = @ \/ A # {}]
  <1>1. /\ account \in [Account -> ImAccount] /\ mem \in Prefs
        /\ online \in BOOLEAN /\ TypeOK /\ Retries
    BY DEF RInv, TL, TypeOK
  <1>2. /\ Connect(A, r, p, count = 0 /\ A # {}, FALSE) /\ online' = online
        /\ waitsForLogin' # waitsForLogin
    BY DEF ProcessAutoLogin
  <1>3. /\ A \in SUBSET Account /\ (count = 0 /\ A # {}) \in BOOLEAN
        /\ A \subseteq mem.list
        /\ \A a \in A : account[a].conn \in {"disconnected", "disconnecting"}
    BY <1>1 DEF Prefs, ImAccount, Conn
  <1> HIDE DEF A
  <1>4. /\ r \in [Account -> ImAccount]
        /\ \A a \in Account :
             /\ r[a].conn = account[a].conn /\ r[a].err = account[a].err
             /\ r[a].own = account[a].own /\ r[a].timer = account[a].timer
             /\ r[a].observer = account[a].observer
             /\ r[a].strays = account[a].strays
             /\ r[a].password = account[a].password
    BY <1>1 DEF ImAccount
  <1>5. p \in Prefs /\ p.list = mem.list
    BY <1>1 DEF Prefs
  <1> HIDE DEF r, p
  <1>6. \A a \in Account : Sound(r[a]) /\ Retried(r[a], online)
    <2> TAKE a \in Account
    <2>1. Sound(account[a]) /\ Retried(account[a], online)
      BY <1>1 DEF Retries
    <2>2. Sound(r[a])
      BY <1>4, <2>1 DEF Sound
    <2>3. ErrorReason(r[a]) = ErrorReason(account[a])
      BY <1>4 DEF ErrorReason
    <2> QED
      BY <1>4, <2>1, <2>2, <2>3 DEF Retried
  <1>7. \A a \in A : r[a].conn \in {"disconnected", "disconnecting"}
    BY <1>3, <1>4
  <1>8. /\ \A a \in Account : Sound(account'[a]) /\ Retried(account'[a], online)
        /\ \A a \in Account \ A : account'[a] = r[a]
    BY <1>1, <1>2, <1>3, <1>4, <1>6, <1>7, ConnectRetries
  <1>9. mem'.list = mem.list
    BY <1>1, <1>2, <1>3, <1>4, <1>5, ConnectEffects
  <1>10. \A a \in Account \ mem'.list :
           account'[a].conn = "disconnected" /\ ~account'[a].observer
    BY <1>1, <1>3, <1>4, <1>8, <1>9 DEF Retries
  <1>11. Retries'
    BY <1>2, <1>8, <1>10 DEF Retries, Sound, Retried, ErrorReason
  <1>12. Asked
    BY <1>2 DEF Asked
  <1> QED
    BY <1>11, <1>12

LEMMA StepRetries ==
  ASSUME RInv, PromptTimers, [Next]_vars
  PROVE  RInv' /\ Asked
  <1>1. /\ account \in [Account -> ImAccount] /\ mem \in Prefs
        /\ disk \in Prefs /\ TypeOK /\ Retries /\ ops \in 0..MaxOps
    BY DEF RInv, TL, TypeOK
  <1>2. TL' /\ mem'.list \subseteq Account
    BY StepTL DEF RInv, TL, TypeOK, Prefs
  <1>3. SUFFICES Retries' /\ Asked
    BY <1>2 DEF RInv
  <1>4. CASE Start
    <2> DEFINE first == [a \in Account |->
                           IF a \in disk.list THEN Blamed(disk.first[a])
                           ELSE disk.first[a]]
               own == [a \in Account |->
                         IF Fresh(account[a].password).password = "none"
                         THEN "missing"
                         ELSE IF first[a] = "crashed" THEN "crashed"
                         ELSE "none"]
    <2>1. account' = [a \in Account |->
            [Fresh(account[a].password) EXCEPT !.own = own[a]]]
      BY <1>4 DEF Start
    <2>2. own \in [Account -> {"none", "missing", "crashed"}]
      OBVIOUS
    <2> HIDE DEF own, first
    <2> QED
      BY <1>1, <1>2, <2>1, <2>2, AllFresh
  <1>5. CASE Quit \/ Crash
    <2> DEFINE own == [a \in Account |-> "none"]
    <2>1. account' = [a \in Account |-> Fresh(account[a].password)]
      BY <1>5 DEF Quit, Crash
    <2>2. account' = [a \in Account |->
            [Fresh(account[a].password) EXCEPT !.own = own[a]]]
      BY <2>1 DEF Fresh
    <2>3. own \in [Account -> {"none", "missing", "crashed"}]
      OBVIOUS
    <2> HIDE DEF own
    <2> QED
      BY <1>1, <1>2, <2>2, <2>3, AllFresh
  <1>6. CASE SaveTimerFires \/ UNCHANGED vars
    <2>1. account' = account /\ mem' = mem /\ online' = online
      BY <1>6 DEF SaveTimerFires, Save, vars
    <2>2. Retries'
      BY <1>1, <2>1 DEF Retries, Sound, Retried, ErrorReason
    <2> QED
      BY <2>1, <2>2 DEF Asked
  <1>7. CASE \E a \in Account : UserStep(a)
    <2>1. PICK a \in Account : UserStep(a)
      BY <1>7
    <2>2. ops' # ops
      <3>1. UserActs
        BY <2>1
        DEF UserStep, UserConnects, UserDisconnects, UserCancelsReconnection,
            ChangesSettings, ChangesPassword, CreatesAccount, DeletesAccount
      <3> QED
        BY <1>1, <3>1, AccountAssumption DEF UserActs
    <2> QED
      BY <2>1, <2>2, UserRetries DEF Asked
  <1>8. CASE \E a \in Account : EventStep(a)
    BY <1>8, EventRetries
  <1> QED
    BY <1>4, <1>5, <1>6, <1>7, <1>8, StatusRetries, AutoLoginRetries DEF Next

(***************************************************************************)
(* If no account begins to connect during the last second of its timer,    *)
(* an account that lost its connection to a network error has a timer, and *)
(* nothing connects an account that the user disconnected.                 *)
(***************************************************************************)
THEOREM RetriesAreScheduled ==
  ASSUME PromptTimers
  PROVE  Spec => []RetryIsScheduled /\ NoUnaskedConnect
  <1>1. Init => RInv
    <2>1. SUFFICES ASSUME Init PROVE Retries
      BY InitTL DEF RInv
    <2>2. PICK password \in [Account -> Passwords] :
            account = [a \in Account |-> Fresh(password[a])]
      BY <2>1 DEF Init
    <2>3. \A a \in Account : /\ account[a].conn = "disconnected"
                             /\ ~account[a].observer /\ ~account[a].timer
                             /\ account[a].strays = 0
      BY <2>2, AccountAssumption, FreshType
    <2> QED
      BY <2>3 DEF Retries, Sound, Retried
  <1>2. RInv /\ [Next]_vars => RInv'
    BY StepRetries
  <1>3. RInv => RetryIsScheduled
    <2>1. SUFFICES ASSUME RInv PROVE RetryIsScheduled
      OBVIOUS
    <2>2. mem.list \subseteq Account
      BY <2>1 DEF RInv, TL, TypeOK, Prefs
    <2> QED
      BY <2>1, <2>2 DEF RInv, Retries, Retried, RetryIsScheduled
  <1>4. RInv /\ [Next]_vars =>
          [\A a \in Account :
             account[a].conn # "connecting" /\ account'[a].conn = "connecting"
             => \/ account[a].observer \/ account[a].soon
                \/ ops' # ops \/ waitsForLogin' # waitsForLogin]_vars
    BY StepRetries DEF Asked
  <1> QED
    BY <1>1, <1>2, <1>3, <1>4, PTL DEF Spec, NoUnaskedConnect

(***************************************************************************)
(* The start that follows a normal end (unInit) blames no account for a    *)
(* crash, and auto-login only for one that no start has dealt with, for    *)
(* any accounts and late timers.                                           *)
(***************************************************************************)
THEOREM QuitsBlameNobody == Spec => QuitIsNoCrash
  BY LoginsAreCounted, PTL

(***************************************************************************)
(* Without the status observer that disconnect() and cancelReconnection()  *)
(* remove, nothing but the user, a start or new settings connects an       *)
(* account, if no account begins to connect in the last second of its      *)
(* timer.                                                                  *)
(***************************************************************************)
THEOREM ConnectsAreAsked ==
  ASSUME PromptTimers
  PROVE  Spec => NoUnaskedConnect
  BY RetriesAreScheduled, PTL
=============================================================================
