---------------------- MODULE SocketReadSessionProofs -----------------------
(***************************************************************************)
(* What SocketReadSession keeps for every set of callers, every number of  *)
(* retries and every capacity of the queue; and, in the last part, what a  *)
(* pipeline keeps for every list of requests.                              *)
(*                                                                         *)
(* The argument rests on an exact account of the shares of a live session: *)
(* the timer's share, one for each thread inside notify, and the one that  *)
(* notify leaves to a waiting caller.  The timer's share is given back by  *)
(* the timer thread and, after TIMER_BUSY or WRITE_FAIL, by the caller; the*)
(* account stays exact even where both do.                                 *)
(***************************************************************************)
EXTENDS PipelineSession, TLAPS

\* Most leaves are first-order: Zenon is the default prover here, and a leaf that
\* needs arithmetic, or the type of a function or a record, cites SMT.
USE Zenon

Queued == {_session_info[n] : n \in 1..Len(_session_info)}

\* The call that r belongs to is done with r, or has not come to it.
Past(r) == attempt[r[1]] # r[2] \/ pc[r[1]] \in {"attempted", "return", "done", "threw"}

\* r has never been handed to the socket: it is not made yet, it is being
\* prepared, or the queue was full.
Preparing(r) == pc[r[1]] = "prepareRead" /\ attempt[r[1]] = r[2]
Aside(r) == mem[r] = "unborn" \/ Preparing(r) \/ (mem[r] = "freed" /\ owners[r].exclusive = 0)

\* Thread t holds a share of r inside notify.
Holds(t, r) == cur[t] = r /\ at[t] \in {"undo", "upgrade", "deliver", "release"}

\* The share that notify has left to the caller of r.
Left(r) == result[r] # "unset" /\ (r \in unsent \/ ~Past(r))

One(b) == IF b THEN 1 ELSE 0

\* Shares taken inside notify, and shares given back.
Inside(r) == One(Holds("OnRead", r)) + One(Holds("Timeout", r))
Returned(r) == One(r \in expired) + One(r \in unsent)

Delivering(r) == \E t \in Notifiers : cur[t] = r /\ at[t] = "deliver"

\* The account of the shares of a live session, and the winner of the race.
Shares(r) ==
  mem[r] = "live" =>
    /\ owners[r].exclusive = 0
    /\ owners[r].shared = 1 - Returned(r) + Inside(r) + One(Left(r))
    /\ owners[r].upgraded = 1 <=> delivered[r] = 1 \/ Delivering(r)

Wins(r) ==
  /\ delivered[r] \in {0, 1}
  /\ delivered[r] = 1 => ~Delivering(r)
  /\ ~(\A t \in Notifiers : cur[t] = r /\ at[t] = "deliver")
  /\ result[r] # "unset" <=> delivered[r] = 1 /\ ~callback[r]

\* What the reader or ~Socket has freed.
Gone(r) ==
  mem[r] = "freed" /\ owners[r].exclusive = 1 =>
    /\ delivered[r] = 1
    /\ r \in expired \/ (callback[r] /\ r \in unsent)
    /\ ~callback[r] => Past(r)
    /\ \A t \in Notifiers : cur[t] = r => at[t] \notin {"upgrade", "deliver", "release"}

\* Who may know r, and where it is.
Places(r) ==
  /\ Aside(r) =>
       /\ timer[r] = "none" /\ delivered[r] = 0
       /\ r \notin wire \cup _session_map \cup Queued \cup expired \cup unsent
       /\ cur["OnRead"] # r /\ cur["Timeout"] # r
  /\ ~Aside(r) /\ mem[r] = "live" => r \in Queued \cup _session_map
  /\ r \in Queued \cup _session_map => mem[r] = "live"
  /\ r \notin Queued \cap _session_map
  /\ mem[r] = "unborn" => ~callback[r]
  /\ Preparing(r) => owners[r] = AddShared(NoBits)

\* The caller of r.
Called(r) ==
  LET c == r[1]
  IN  /\ r[2] > attempt[c] => mem[r] = "unborn"
      /\ r \in unsent => Past(r)
      /\ r[2] = attempt[c] =>
           /\ pc[c] = "begin" => mem[r] = "unborn"
           /\ pc[c] = "prepareRead" => mem[r] = "live"
           /\ ~Past(r) /\ pc[c] # "begin" => mem[r] # "unborn"
           /\ pc[c] \in {"fill", "publish", "addTimeschdule"} => timer[r] = "none"
           /\ pc[c] \in {"fill", "publish", "addTimeschdule", "timer_task_id", "write", "giveUp",
                         "written", "wait", "releaseShared"} => ~Aside(r)
           /\ pc[c] \in {"wait", "releaseShared"} => ~callback[r]
           /\ pc[c] = "releaseShared" => result[r] # "unset"
      /\ ~Aside(r) /\ Past(r) /\ r \notin unsent /\ ~callback[r] => result[r] # "unset"

\* The timer's task of r.
Timed(r) ==
  /\ cur["Timeout"] = r <=> timer[r] = "running"
  /\ r \in expired => timer[r] = "over"

\* A caller's callback is with the caller, or in one session, or has been called.
Callback(r) ==
  /\ callback[r] => ~has_callback[r[1]] /\ invoked[r[1]] = delivered[r]
  /\ \A s \in Sessions : callback[r] /\ callback[s] /\ r[1] = s[1] => r = s

Invoked(c) ==
  /\ invoked[c] \in {0, 1}
  /\ invoked[c] = 1 => pc[c] = "done" \/ ~has_callback[c]
  /\ (\A r \in Sessions : r[1] = c => ~callback[r]) => invoked[c] = 0 \/ pc[c] = "done"

ThreadsPlaced ==
  /\ at["Timeout"] \in {"idle", "notify", "undo", "upgrade", "deliver", "release", "releaseTimer"}
  /\ at["OnRead"] # "releaseTimer"
  /\ at["Timeout"] = "idle" <=> cur["Timeout"] = NoSession
  /\ at["OnRead"] \in {"notify", "undo", "upgrade", "deliver", "release", "message", "pop", "undefined",
                      "find"}
       => cur["OnRead"] \in Sessions
  /\ at["OnRead"] \in {"notify", "undo", "upgrade", "deliver", "release"}
       => cur["OnRead"] \in _session_map
  /\ socket # "open" => at["OnRead"] = "idle"
  /\ at["OnRead"] \in {"idle", "reclaim"} => cur["OnRead"] = NoSession
  /\ todo \subseteq _session_map

\* The queue holds a session once, and behind the session of the answer in hand
\* only what the reader will reach.
Order ==
  /\ \A m, n \in 1..Len(_session_info) : _session_info[m] = _session_info[n] => m = n
  /\ at["OnRead"] = "pop" =>
       /\ cur["OnRead"] \in older
       /\ \A m, n \in 1..Len(_session_info) :
            m < n /\ _session_info[n] = cur["OnRead"] => _session_info[m] \in older

Account(r) == Shares(r) /\ Wins(r) /\ Gone(r) /\ Places(r) /\ Called(r) /\ Timed(r) /\ Callback(r)

IInv ==
  /\ TypeOK
  /\ \A r \in Sessions : Account(r)
  /\ \A c \in Callers : Invoked(c)
  /\ ThreadsPlaced /\ Order /\ DanglesOnlyLate

\* What is claimed and not published is what the pushing callers will publish.
Balanced ==
  IsFiniteSet(Pushing) /\ Len(_session_info) = published + Cardinality(Pushing)

\* While pushes have never overlapped, a pushing caller owns the last slot, and
\* the reader has seen all others when it stops popping.
Alone ==
  /\ \A c, d \in Pushing : c = d
  /\ \A c \in Pushing : _session_info[Len(_session_info)] = Mine(c)
  /\ at["OnRead"] = "find" => cur["OnRead"] \notin Queued

\* The pushes into the queue.  A request that is still being pushed was not sent.
Pushes ==
  /\ Balanced
  /\ \A c \in Pushing : Mine(c) \notin wire /\ cur["OnRead"] # Mine(c)
  /\ overlap \/ Alone

-----------------------------------------------------------------------------
\* A session is a caller and the number of one of its attempts.
LEMMA SessionParts ==
  ASSUME NEW r \in Sessions
  PROVE  /\ r = <<r[1], r[2]>> /\ r[1] \in Callers /\ r[2] \in 1..Retry[r[1]] /\ r[2] \in Nat
         /\ r # NoSession
  BY SMT, RetryAssumption DEF Sessions, NoSession

\* What a step that updates one caller, one session or one thread needs to know
\* of the types.
LEMMA Domains ==
  ASSUME TypeOK
  PROVE  /\ DOMAIN pc = Callers /\ DOMAIN attempt = Callers /\ DOMAIN _error_code = Callers
         /\ DOMAIN has_callback = Callers /\ DOMAIN invoked = Callers
         /\ DOMAIN mem = Sessions /\ DOMAIN owners = Sessions /\ DOMAIN callback = Sessions
         /\ DOMAIN result = Sessions /\ DOMAIN timer = Sessions /\ DOMAIN delivered = Sessions
         /\ DOMAIN at = Notifiers /\ DOMAIN cur = Notifiers
  BY DEF TypeOK

\* The session a caller works on is its own.
LEMMA MineSession ==
  ASSUME TypeOK, NEW c \in Callers
  PROVE  Mine(c) \in Sessions /\ Mine(c)[1] = c /\ Mine(c)[2] = attempt[c]
  BY SMT DEF TypeOK, Sessions, Mine

\* What the instructions of the lock do to the word of a session.
LEMMA WordAdd ==
  ASSUME owners \in [Sessions -> Bits], NEW q \in Sessions, SetOwners(q, AddShared(owners[q]))
  PROVE  /\ owners' \in [Sessions -> Bits] /\ owners[q].shared \in Int
         /\ owners'[q].shared = owners[q].shared + 1 /\ owners'[q].upgraded = owners[q].upgraded
         /\ owners'[q].exclusive = owners[q].exclusive
         /\ \A r \in Sessions : r # q => owners'[r] = owners[r]
  BY SMT DEF SetOwners, AddShared, Bits

\* Subtracting from the word of shares.
LEMMA WordSub ==
  ASSUME owners \in [Sessions -> Bits], NEW q \in Sessions, SetOwners(q, SubShared(owners[q]))
  PROVE  /\ owners' \in [Sessions -> Bits] /\ owners[q].shared \in Int
         /\ owners'[q].shared = owners[q].shared - 1 /\ owners'[q].upgraded = owners[q].upgraded
         /\ owners'[q].exclusive = owners[q].exclusive
         /\ \A r \in Sessions : r # q => owners'[r] = owners[r]
  BY SMT DEF SetOwners, SubShared, Bits

\* Setting a bit of the word of shares.
LEMMA WordOr ==
  ASSUME owners \in [Sessions -> Bits], NEW q \in Sessions, SetOwners(q, OrUpgraded(owners[q]))
  PROVE  /\ owners' \in [Sessions -> Bits] /\ owners[q].shared \in Int
         /\ owners'[q].shared = owners[q].shared /\ owners'[q].upgraded = 1
         /\ owners'[q].exclusive = owners[q].exclusive
         /\ \A r \in Sessions : r # q => owners'[r] = owners[r]
  BY DEF SetOwners, OrUpgraded, Bits

-----------------------------------------------------------------------------
\* A step that leaves session r alone, but for what is sent and for its timer's
\* task while that is not running.
Same(r) ==
  /\ mem'[r] = mem[r] /\ owners'[r] = owners[r] /\ callback'[r] = callback[r]
  /\ result'[r] = result[r] /\ delivered'[r] = delivered[r]
  /\ \/ timer'[r] = timer[r]
     \/ /\ ~Aside(r) /\ (timer[r] = "over" => timer'[r] = "over")
        /\ timer'[r] = "running" <=> timer[r] = "running"
  /\ r \in wire' => r \in wire \/ ~Aside(r)
  /\ r \in _session_map' <=> r \in _session_map
  /\ r \in Queued' <=> r \in Queued
  /\ r \in expired' <=> r \in expired
  /\ r \in unsent' <=> r \in unsent
  /\ \A t \in Notifiers : (cur'[t] = r <=> cur[t] = r) /\ (cur[t] = r => at'[t] = at[t])
  /\ Past(r)' <=> Past(r)
  /\ Preparing(r)' <=> Preparing(r)

\* The three counts that add up to the references of a session are integers.
LEMMA CountsInt ==
  ASSUME NEW r
  PROVE  Returned(r) \in Int /\ Inside(r) \in Int /\ One(Left(r)) \in Int
<1>1. ASSUME NEW b PROVE One(b) \in Int
  BY SMT DEF One
<1>2. ASSUME NEW x \in Int, NEW y \in Int PROVE x + y \in Int
  BY SMT
<1> QED BY <1>1, <1>2 DEF Returned, Inside

\* A step that leaves session r alone keeps its account.
LEMMA SameAccount ==
  ASSUME NEW r \in Sessions, Account(r), Same(r)
  PROVE  /\ Shares(r)' /\ Wins(r)' /\ Gone(r)' /\ Places(r)' /\ Timed(r)'
         /\ Aside(r)' <=> Aside(r)
<1>1. /\ Aside(r)' <=> Aside(r)
      /\ Left(r)' <=> Left(r)
      /\ Delivering(r)' <=> Delivering(r)
  BY DEF Same, Aside, Left, Delivering
<1>2. Inside(r)' = Inside(r) /\ Returned(r)' = Returned(r) /\ One(Left(r))' = One(Left(r))
  BY <1>1 DEF Same, Inside, Returned, One, Holds, Notifiers
<1>3. Shares(r)'
  BY <1>1, <1>2 DEF Account, Shares, Same
<1>4. Wins(r)'
  BY <1>1 DEF Account, Wins, Same, Notifiers
<1>5. Gone(r)'
  BY DEF Account, Gone, Same, Notifiers
<1>6. Places(r)'
  BY <1>1 DEF Account, Places, Same, Notifiers
<1>7. Timed(r)'
  BY DEF Account, Timed, Same, Notifiers
<1> QED BY <1>1, <1>3, <1>4, <1>5, <1>6, <1>7

\* ... and whose caller does not move, as far as r is concerned.
LEMMA SameCalled ==
  ASSUME NEW r \in Sessions, Account(r), Same(r), attempt'[r[1]] = attempt[r[1]],
         r[2] = attempt[r[1]] => pc'[r[1]] = pc[r[1]], timer[r] = "none" => timer'[r] = "none"
  PROVE  Called(r)'
  BY SameAccount DEF Account, Called, Same

\* A step of caller c leaves the sessions of other attempts alone.
LEMMA OtherSession ==
  ASSUME TypeOK, NEW c \in Callers, NEW r \in Sessions, r # Mine(c), NEW x,
         pc' = [pc EXCEPT ![c] = x], attempt' = attempt
  PROVE  /\ attempt'[r[1]] = attempt[r[1]]
         /\ r[2] = attempt[r[1]] => pc'[r[1]] = pc[r[1]]
         /\ Past(r)' <=> Past(r)
         /\ Preparing(r)' <=> Preparing(r)
<1>1. r = <<r[1], r[2]>> /\ r[1] \in Callers
  BY SessionParts
<1>2. r[1] = c => r[2] # attempt[c]
  BY <1>1 DEF Mine
<1>3. r[1] # c => pc'[r[1]] = pc[r[1]]
  BY <1>1 DEF TypeOK
<1> QED BY SMT, <1>2, <1>3 DEF Past, Preparing

\* A caller that uses a freed session is late: the call is asynchronous and its
\* timeout has passed.
LEMMA CallerUse ==
  ASSUME IInv, NEW c \in Callers,
         pc[c] \in {"timer_task_id", "write", "giveUp", "written", "wait", "releaseShared"},
         Use(c, Mine(c)), callback' = callback, expired' = expired, unsent \subseteq unsent'
  PROVE  DanglesOnlyLate' /\ dangling' \subseteq (Callers \cup Notifiers) \X Sessions
<1>1. TypeOK /\ Mine(c) \in Sessions /\ Mine(c)[1] = c /\ Mine(c)[2] = attempt[c]
  BY MineSession DEF IInv
<1>2. Account(Mine(c))
  BY <1>1 DEF IInv
<1>3. ~Past(Mine(c)) /\ ~Aside(Mine(c)) /\ Mine(c) \notin unsent
  BY <1>1, <1>2 DEF Past, Account, Called
<1>4. mem[Mine(c)] = "freed" => callback[Mine(c)] /\ Mine(c) \in expired
  <2>1. owners[Mine(c)].exclusive \in {0, 1}
    BY <1>1 DEF TypeOK, Bits
  <2> QED BY <1>2, <1>3, <2>1 DEF Aside, Account, Gone
<1>5. DanglesOnlyLate'
  BY SMT, <1>4 DEF IInv, DanglesOnlyLate, Use
<1>6. dangling' \subseteq (Callers \cup Notifiers) \X Sessions
  BY SMT, <1>1 DEF TypeOK, Use
<1> QED BY <1>5, <1>6

\* A thread inside notify is on a session that the socket knows; if that has been
\* freed, then it is the timer thread, on a session the caller gave up.
LEMMA OnSession ==
  ASSUME IInv, NEW t \in Notifiers,
         at[t] \in {"notify", "undo", "upgrade", "deliver", "release", "releaseTimer"}
  PROVE  /\ cur[t] \in Sessions /\ cur[t] # NoSession /\ ~Aside(cur[t])
         /\ mem[cur[t]] = "freed" =>
              /\ t = "Timeout" /\ callback[cur[t]] /\ cur[t] \in unsent
              /\ at[t] \in {"notify", "undo", "releaseTimer"}
<1>1. cur[t] \in Sessions
  <2>1. CASE t = "OnRead"
    BY <2>1 DEF IInv, ThreadsPlaced
  <2>2. CASE t = "Timeout"
    BY <2>2 DEF IInv, ThreadsPlaced, TypeOK, Notifiers
  <2> QED BY <2>1, <2>2 DEF Notifiers
<1>2. Account(cur[t]) /\ cur[t] # NoSession
  BY <1>1, SessionParts DEF IInv
<1>3. ~Aside(cur[t])
  BY <1>2 DEF Account, Places, Notifiers
<1>4. ASSUME mem[cur[t]] = "freed"
      PROVE  /\ t = "Timeout" /\ callback[cur[t]] /\ cur[t] \in unsent
             /\ at[t] \in {"notify", "undo", "releaseTimer"}
  <2>1. owners[cur[t]].exclusive = 1
    BY SMT, <1>1, <1>3, <1>4 DEF Aside, IInv, TypeOK, Bits
  <2>2. t = "Timeout"
    BY <1>2, <1>4 DEF IInv, ThreadsPlaced, Account, Places, Notifiers
  <2>3. cur[t] \notin expired
    BY <1>2, <2>2 DEF Account, Timed
  <2> QED BY <1>2, <1>4, <2>1, <2>2, <2>3 DEF Account, Gone
<1> QED BY <1>1, <1>2, <1>3, <1>4

\* owners.tryShared(): the first instruction takes a share.
LEMMA Notify_tryShared ==
  ASSUME IInv, NEW t \in Notifiers, notify_tryShared(t)
  PROVE  IInv'
<1>0. TypeOK
  BY DEF IInv
<1>q. /\ cur[t] \in Sessions /\ cur[t] # NoSession /\ ~Aside(cur[t])
      /\ mem[cur[t]] = "freed" =>
           /\ t = "Timeout" /\ callback[cur[t]] /\ cur[t] \in unsent
           /\ at[t] \in {"notify", "undo", "releaseTimer"}
  BY OnSession DEF notify_tryShared, Move
<1>a. /\ at[t] = "notify"
      /\ at' = [at EXCEPT ![t] = IF UpgradedOrExclusive(owners[cur[t]]) THEN "undo" ELSE "upgrade"]
      /\ Use(t, cur[t])
  BY DEF notify_tryShared, Move
<1>u. UNCHANGED <<pc, attempt, _error_code, has_callback, mem, callback, result, timer,
        _session_info, _session_map, older, todo, wire, socket, published, overlap, cur, delivered,
        invoked, expired, unsent>>
  BY DEF notify_tryShared, call, reader, commit
<1>o. /\ owners' \in [Sessions -> Bits]
      /\ owners'[cur[t]].shared = owners[cur[t]].shared + 1
      /\ owners'[cur[t]].upgraded = owners[cur[t]].upgraded
      /\ owners'[cur[t]].exclusive = owners[cur[t]].exclusive
      /\ owners[cur[t]].shared \in Int
      /\ \A r \in Sessions : r # cur[t] => owners'[r] = owners[r]
  BY <1>0, <1>q, WordAdd DEF notify_tryShared, TypeOK
<1>1. TypeOK'
  <2>1. at' \in [Notifiers -> ThreadAt]
    BY <1>0, <1>a DEF TypeOK, ThreadAt, AfterNotify
  <2>2. dangling' \subseteq (Callers \cup Notifiers) \X Sessions
    BY SMT, <1>0, <1>q, <1>a DEF TypeOK, Use
  <2> QED BY <1>0, <1>u, <1>o, <2>1, <2>2 DEF TypeOK
<1>2. ASSUME NEW r \in Sessions PROVE Account(r)'
  <2>0. Account(r) /\ Account(cur[t])
    BY <1>q DEF IInv
  <2>a. Returned(r)' = Returned(r) /\ (Left(r)' <=> Left(r))
    BY <1>u DEF Returned, Left, Past, One
  <2>b. Inside(r)' = IF r = cur[t] THEN Inside(r) + 1 ELSE Inside(r)
    BY SMT, <1>0, Domains, <1>q, <1>a, <1>u DEF Inside, Holds, One, Notifiers, AfterNotify
  <2>c. Delivering(r)' <=> Delivering(r)
    BY <1>0, <1>q, <1>a, <1>u DEF TypeOK, Delivering, Notifiers, AfterNotify
  <2>e. (Preparing(r)' <=> Preparing(r)) /\ (Aside(r)' <=> Aside(r)) /\ (Past(r)' <=> Past(r))
    BY <1>q, <1>u, <1>o DEF Aside, Preparing, Past
  <2>d. Returned(r) \in Int /\ Inside(r) \in Int /\ One(Left(r)) \in Int /\ One(Left(r)') = One(Left(r))
    BY SMT, <2>a DEF Returned, Inside, One
  <2>f. mem' = mem /\ delivered' = delivered /\ Shares(r) /\ Queued' = Queued
    BY <1>u, <2>0 DEF Account, Queued
  <2>g. Preparing(r) => owners'[r] = owners[r]
    BY <1>q, <1>o DEF Aside
  <2>h. (\A s \in Notifiers : s # t => at'[s] = at[s]) /\ at'[t] # at[t]
    BY <1>0, <1>a, Domains DEF AfterNotify
  <2>1. Shares(r)'
    BY SMT, <1>o, <2>a, <2>b, <2>c, <2>d, <2>f DEF Shares
  <2>2. Wins(r)'
    BY <1>0, <1>q, <1>a, <1>u, <2>0, <2>c DEF TypeOK, Account, Wins, Delivering, Notifiers, AfterNotify
  <2>3. Gone(r)'
    <3>1. owners[cur[t]].exclusive = 1 => at'[t] \notin {"upgrade", "deliver", "release"}
      BY SMT, <1>0, <1>a, Domains DEF UpgradedOrExclusive, AfterNotify
    <3>2. Gone(r)
      BY <2>0 DEF Account
    <3> QED BY ZenonT(40), <1>q, <1>u, <1>o, <2>e, <2>h, <3>1, <3>2 DEF Gone
  <2>4. Places(r)'
    BY <1>u, <2>0, <2>e, <2>f, <2>g DEF Account, Places
  <2>5. Called(r)'
    BY <1>u, <2>0, <2>e DEF Account, Called
  <2>6. Timed(r)'
    BY <1>u, <2>0 DEF Account, Timed
  <2>7. Callback(r)'
    BY <1>u, <2>0 DEF Account, Callback
  <2> QED BY <2>1, <2>2, <2>3, <2>4, <2>5, <2>6, <2>7 DEF Account
<1>3. \A c \in Callers : Invoked(c)'
  BY <1>u DEF IInv, Invoked
<1>4. ThreadsPlaced'
  BY <1>0, <1>q, <1>a, <1>u, <1>o DEF IInv, ThreadsPlaced, TypeOK, Notifiers, AfterNotify
<1>5. Order'
  <2>1. at'["OnRead"] \in {"pop", "find"} => at'["OnRead"] = at["OnRead"]
    BY SMT, <1>0, <1>a, Domains DEF AfterNotify, Notifiers
  <2> QED BY <1>u, <2>1 DEF IInv, Order, Queued
<1>6. DanglesOnlyLate'
  BY SMT, <1>0, <1>q, <1>a, <1>u DEF IInv, DanglesOnlyLate, Use
<1> QED BY <1>1, <1>2, <1>3, <1>4, <1>5, <1>6 DEF IInv

\* owners.tryShared(): the second instruction gives it back.
LEMMA Notify_undo ==
  ASSUME IInv, NEW t \in Notifiers, notify_undo(t)
  PROVE  IInv'
<1>0. TypeOK
  BY DEF IInv
<1>q. /\ cur[t] \in Sessions /\ cur[t] # NoSession /\ ~Aside(cur[t])
      /\ mem[cur[t]] = "freed" =>
           /\ t = "Timeout" /\ callback[cur[t]] /\ cur[t] \in unsent
           /\ at[t] \in {"notify", "undo", "releaseTimer"}
  BY OnSession DEF notify_undo, Move
<1>a. /\ at[t] = "undo" /\ at' = [at EXCEPT ![t] = AfterNotify(t)]
      /\ Use(t, cur[t])
  BY DEF notify_undo, Move
<1>u. UNCHANGED <<pc, attempt, _error_code, has_callback, mem, callback, result, timer,
        _session_info, _session_map, older, todo, wire, socket, published, overlap, cur, delivered,
        invoked, expired, unsent>>
  BY DEF notify_undo, call, reader, commit
<1>o. /\ owners' \in [Sessions -> Bits]
      /\ owners'[cur[t]].shared = owners[cur[t]].shared - 1
      /\ owners'[cur[t]].upgraded = owners[cur[t]].upgraded
      /\ owners'[cur[t]].exclusive = owners[cur[t]].exclusive
      /\ owners[cur[t]].shared \in Int
      /\ \A r \in Sessions : r # cur[t] => owners'[r] = owners[r]
  BY <1>0, <1>q, WordSub DEF notify_undo, TypeOK
<1>1. TypeOK'
  <2>1. at' \in [Notifiers -> ThreadAt]
    BY <1>0, <1>a DEF TypeOK, ThreadAt, AfterNotify
  <2>2. dangling' \subseteq (Callers \cup Notifiers) \X Sessions
    BY SMT, <1>0, <1>q, <1>a DEF TypeOK, Use
  <2> QED BY <1>0, <1>u, <1>o, <2>1, <2>2 DEF TypeOK
<1>2. ASSUME NEW r \in Sessions PROVE Account(r)'
  <2>0. Account(r) /\ Account(cur[t])
    BY <1>q DEF IInv
  <2>a. Returned(r)' = Returned(r) /\ (Left(r)' <=> Left(r))
    BY <1>u DEF Returned, Left, Past, One
  <2>b. Inside(r)' = IF r = cur[t] THEN Inside(r) - 1 ELSE Inside(r)
    BY SMT, <1>0, Domains, <1>q, <1>a, <1>u DEF Inside, Holds, One, Notifiers, AfterNotify
  <2>c. Delivering(r)' <=> Delivering(r)
    BY <1>0, <1>q, <1>a, <1>u DEF TypeOK, Delivering, Notifiers, AfterNotify
  <2>e. (Preparing(r)' <=> Preparing(r)) /\ (Aside(r)' <=> Aside(r)) /\ (Past(r)' <=> Past(r))
    BY <1>q, <1>u, <1>o DEF Aside, Preparing, Past
  <2>d. Returned(r) \in Int /\ Inside(r) \in Int /\ One(Left(r)) \in Int /\ One(Left(r)') = One(Left(r))
    BY SMT, <2>a DEF Returned, Inside, One
  <2>f. mem' = mem /\ delivered' = delivered /\ Shares(r) /\ Queued' = Queued
    BY <1>u, <2>0 DEF Account, Queued
  <2>g. Preparing(r) => owners'[r] = owners[r]
    BY <1>q, <1>o DEF Aside
  <2>h. (\A s \in Notifiers : s # t => at'[s] = at[s]) /\ at'[t] # at[t]
    BY <1>0, <1>a, Domains DEF AfterNotify
  <2>1. Shares(r)'
    BY SMT, <1>o, <2>a, <2>b, <2>c, <2>d, <2>f DEF Shares
  <2>2. Wins(r)'
    BY <1>0, <1>q, <1>a, <1>u, <2>0, <2>c DEF TypeOK, Account, Wins, Delivering, Notifiers, AfterNotify
  <2>3. Gone(r)'
    <3>1. owners[cur[t]].exclusive = 1 => at'[t] \notin {"upgrade", "deliver", "release"}
      BY SMT, <1>0, <1>a, Domains DEF UpgradedOrExclusive, AfterNotify
    <3>2. Gone(r)
      BY <2>0 DEF Account
    <3> QED BY ZenonT(40), <1>q, <1>u, <1>o, <2>e, <2>h, <3>1, <3>2 DEF Gone
  <2>4. Places(r)'
    BY <1>u, <2>0, <2>e, <2>f, <2>g DEF Account, Places
  <2>5. Called(r)'
    BY <1>u, <2>0, <2>e DEF Account, Called
  <2>6. Timed(r)'
    BY <1>u, <2>0 DEF Account, Timed
  <2>7. Callback(r)'
    BY <1>u, <2>0 DEF Account, Callback
  <2> QED BY <2>1, <2>2, <2>3, <2>4, <2>5, <2>6, <2>7 DEF Account
<1>3. \A c \in Callers : Invoked(c)'
  BY <1>u DEF IInv, Invoked
<1>4. ThreadsPlaced'
  BY <1>0, <1>q, <1>a, <1>u, <1>o DEF IInv, ThreadsPlaced, TypeOK, Notifiers, AfterNotify
<1>5. Order'
  <2>1. at'["OnRead"] \in {"pop", "find"} => at'["OnRead"] = at["OnRead"]
    BY SMT, <1>0, <1>a, Domains DEF AfterNotify, Notifiers
  <2> QED BY <1>u, <2>1 DEF IInv, Order, Queued
<1>6. DanglesOnlyLate'
  BY SMT, <1>0, <1>q, <1>a, <1>u DEF IInv, DanglesOnlyLate, Use
<1> QED BY <1>1, <1>2, <1>3, <1>4, <1>5, <1>6 DEF IInv

\* The upgrade has one winner.
LEMMA Notify_upgrade ==
  ASSUME IInv, NEW t \in Notifiers, notify_upgrade(t)
  PROVE  IInv'
<1>0. TypeOK
  BY DEF IInv
<1>q. /\ cur[t] \in Sessions /\ cur[t] # NoSession /\ ~Aside(cur[t])
      /\ mem[cur[t]] = "freed" =>
           /\ t = "Timeout" /\ callback[cur[t]] /\ cur[t] \in unsent
           /\ at[t] \in {"notify", "undo", "releaseTimer"}
  BY OnSession DEF notify_upgrade, Move
<1>a. /\ at[t] = "upgrade"
      /\ at' = [at EXCEPT ![t] = IF UpgradedOrExclusive(owners[cur[t]]) THEN "release" ELSE "deliver"]
      /\ Use(t, cur[t])
  BY DEF notify_upgrade, Move
<1>u. UNCHANGED <<pc, attempt, _error_code, has_callback, mem, callback, result, timer,
        _session_info, _session_map, older, todo, wire, socket, published, overlap, cur, delivered,
        invoked, expired, unsent>>
  BY DEF notify_upgrade, call, reader, commit
<1>o. /\ owners' \in [Sessions -> Bits]
      /\ owners'[cur[t]].shared = owners[cur[t]].shared
      /\ owners'[cur[t]].upgraded = 1
      /\ owners'[cur[t]].exclusive = owners[cur[t]].exclusive
      /\ owners[cur[t]].shared \in Int
      /\ \A r \in Sessions : r # cur[t] => owners'[r] = owners[r]
  BY <1>0, <1>q, WordOr DEF notify_upgrade, TypeOK
<1>1. TypeOK'
  <2>1. at' \in [Notifiers -> ThreadAt]
    BY <1>0, <1>a DEF TypeOK, ThreadAt, AfterNotify
  <2>2. dangling' \subseteq (Callers \cup Notifiers) \X Sessions
    BY <1>0, <1>q, <1>a DEF TypeOK, Use
  <2> QED BY <1>0, <1>u, <1>o, <2>1, <2>2 DEF TypeOK
<1>2. ASSUME NEW r \in Sessions PROVE Account(r)'
  <2>0. Account(r) /\ Account(cur[t])
    BY <1>q DEF IInv
  <2>a. Returned(r)' = Returned(r) /\ (Left(r)' <=> Left(r))
    BY <1>u DEF Returned, Left, Past, One
  <2>b. Inside(r)' = Inside(r)
    BY <1>0, <1>q, <1>a, <1>u DEF TypeOK, Inside, Holds, One, Notifiers, AfterNotify
  <2>c. Delivering(r)' <=> Delivering(r) \/ (r = cur[t] /\ ~UpgradedOrExclusive(owners[cur[t]]))
    BY <1>0, <1>q, <1>a, <1>u DEF TypeOK, Delivering, Notifiers, AfterNotify
  <2>e. (Preparing(r)' <=> Preparing(r)) /\ (Aside(r)' <=> Aside(r)) /\ (Past(r)' <=> Past(r))
    BY <1>q, <1>u, <1>o DEF Aside, Preparing, Past
  <2>d. Returned(r) \in Int /\ Inside(r) \in Int /\ One(Left(r)) \in Int /\ One(Left(r)') = One(Left(r))
    BY SMTT(30), <2>a DEF Returned, Inside, One
  <2>f. mem' = mem /\ delivered' = delivered /\ Shares(r) /\ Queued' = Queued
    BY <1>u, <2>0 DEF Account, Queued
  <2>g. Preparing(r) => owners'[r] = owners[r]
    BY <1>q, <1>o DEF Aside
  <2>h. (\A s \in Notifiers : s # t => at'[s] = at[s]) /\ at'[t] # at[t]
    BY <1>0, <1>a, Domains DEF AfterNotify
  <2>1. Shares(r)'
    BY SMT, <1>o, <2>a, <2>b, <2>c, <2>d, <2>f DEF Shares, UpgradedOrExclusive
  <2>2. Wins(r)'
    <3>1. CASE r = cur[t]
      <4>1. mem[r] = "live"
        BY <1>0, <1>q, <1>a, <3>1 DEF TypeOK, Aside
      <4>2. ~UpgradedOrExclusive(owners[cur[t]]) => delivered[r] # 1 /\ ~Delivering(r)
        BY SMT, <2>f, <3>1, <4>1 DEF Shares, UpgradedOrExclusive
      <4>3. ~(\A s \in Notifiers : cur'[s] = r /\ at'[s] = "deliver")
        BY <1>0, <1>a, <1>u, <2>0, <2>h, <3>1, <4>2, Domains DEF Delivering, Notifiers, Account, Wins
      <4> QED BY <1>u, <2>0, <2>c, <3>1, <4>2, <4>3 DEF Account, Wins
    <3>2. CASE r # cur[t]
      BY <1>u, <2>0, <2>c, <2>h, <3>2 DEF Account, Wins
    <3> QED BY <3>1, <3>2
  <2>3. Gone(r)'
    BY ZenonT(40), <1>q, <1>a, <1>u, <1>o, <2>0, <2>e, <2>h DEF Account, Gone
  <2>4. Places(r)'
    BY <1>u, <2>0, <2>e, <2>f, <2>g DEF Account, Places
  <2>5. Called(r)'
    BY <1>u, <2>0, <2>e DEF Account, Called
  <2>6. Timed(r)'
    BY <1>u, <2>0 DEF Account, Timed
  <2>7. Callback(r)'
    BY <1>u, <2>0 DEF Account, Callback
  <2> QED BY <2>1, <2>2, <2>3, <2>4, <2>5, <2>6, <2>7 DEF Account
<1>3. \A c \in Callers : Invoked(c)'
  BY <1>u DEF IInv, Invoked
<1>4. ThreadsPlaced'
  BY <1>0, <1>q, <1>a, <1>u, <1>o DEF IInv, ThreadsPlaced, TypeOK, Notifiers, AfterNotify
<1>5. Order'
  <2>1. at'["OnRead"] \in {"pop", "find"} => at'["OnRead"] = at["OnRead"]
    BY SMT, <1>0, <1>a, Domains DEF AfterNotify, Notifiers
  <2> QED BY <1>u, <2>1 DEF IInv, Order, Queued
<1>6. DanglesOnlyLate'
  BY <1>0, <1>q, <1>a, <1>u DEF IInv, DanglesOnlyLate, Use
<1> QED BY <1>1, <1>2, <1>3, <1>4, <1>5, <1>6 DEF IInv

\* The share is given back.
LEMMA Notify_release ==
  ASSUME IInv, NEW t \in Notifiers, notify_release(t)
  PROVE  IInv'
<1>0. TypeOK
  BY DEF IInv
<1>q. /\ cur[t] \in Sessions /\ cur[t] # NoSession /\ ~Aside(cur[t])
      /\ mem[cur[t]] = "freed" =>
           /\ t = "Timeout" /\ callback[cur[t]] /\ cur[t] \in unsent
           /\ at[t] \in {"notify", "undo", "releaseTimer"}
  BY OnSession DEF notify_release, Move
<1>a. /\ at[t] = "release" /\ at' = [at EXCEPT ![t] = AfterNotify(t)]
      /\ Use(t, cur[t])
  BY DEF notify_release, Move
<1>u. UNCHANGED <<pc, attempt, _error_code, has_callback, mem, callback, result, timer,
        _session_info, _session_map, older, todo, wire, socket, published, overlap, cur, delivered,
        invoked, expired, unsent>>
  BY DEF notify_release, call, reader, commit
<1>o. /\ owners' \in [Sessions -> Bits]
      /\ owners'[cur[t]].shared = owners[cur[t]].shared - 1
      /\ owners'[cur[t]].upgraded = owners[cur[t]].upgraded
      /\ owners'[cur[t]].exclusive = owners[cur[t]].exclusive
      /\ owners[cur[t]].shared \in Int
      /\ \A r \in Sessions : r # cur[t] => owners'[r] = owners[r]
  BY <1>0, <1>q, WordSub DEF notify_release, TypeOK
<1>1. TypeOK'
  <2>1. at' \in [Notifiers -> ThreadAt]
    BY <1>0, <1>a DEF TypeOK, ThreadAt, AfterNotify
  <2>2. dangling' \subseteq (Callers \cup Notifiers) \X Sessions
    BY <1>0, <1>q, <1>a DEF TypeOK, Use
  <2> QED BY <1>0, <1>u, <1>o, <2>1, <2>2 DEF TypeOK
<1>2. ASSUME NEW r \in Sessions PROVE Account(r)'
  <2>0. Account(r) /\ Account(cur[t])
    BY <1>q DEF IInv
  <2>a. Returned(r)' = Returned(r) /\ (Left(r)' <=> Left(r))
    BY <1>u DEF Returned, Left, Past, One
  <2>b. Inside(r)' = IF r = cur[t] THEN Inside(r) - 1 ELSE Inside(r)
    BY SMT, <1>0, Domains, <1>q, <1>a, <1>u DEF Inside, Holds, One, Notifiers, AfterNotify
  <2>c. Delivering(r)' <=> Delivering(r)
    BY <1>0, <1>q, <1>a, <1>u DEF TypeOK, Delivering, Notifiers, AfterNotify
  <2>e. (Preparing(r)' <=> Preparing(r)) /\ (Aside(r)' <=> Aside(r)) /\ (Past(r)' <=> Past(r))
    BY <1>q, <1>u, <1>o DEF Aside, Preparing, Past
  <2>d. Returned(r) \in Int /\ Inside(r) \in Int /\ One(Left(r)) \in Int /\ One(Left(r)') = One(Left(r))
    BY SMT, <2>a DEF Returned, Inside, One
  <2>f. mem' = mem /\ delivered' = delivered /\ Shares(r) /\ Queued' = Queued
    BY <1>u, <2>0 DEF Account, Queued
  <2>g. Preparing(r) => owners'[r] = owners[r]
    BY <1>q, <1>o DEF Aside
  <2>h. (\A s \in Notifiers : s # t => at'[s] = at[s]) /\ at'[t] # at[t]
    BY <1>0, <1>a, Domains DEF AfterNotify
  <2>1. Shares(r)'
    BY SMT, <1>o, <2>a, <2>b, <2>c, <2>d, <2>f DEF Shares
  <2>2. Wins(r)'
    BY <1>0, <1>q, <1>a, <1>u, <2>0, <2>c DEF TypeOK, Account, Wins, Delivering, Notifiers, AfterNotify
  <2>3. Gone(r)'
    BY <1>q, <1>a, <1>u, <1>o, <2>0, <2>e, <2>h DEF Account, Gone
  <2>4. Places(r)'
    BY <1>u, <2>0, <2>e, <2>f, <2>g DEF Account, Places
  <2>5. Called(r)'
    BY <1>u, <2>0, <2>e DEF Account, Called
  <2>6. Timed(r)'
    BY <1>u, <2>0 DEF Account, Timed
  <2>7. Callback(r)'
    BY <1>u, <2>0 DEF Account, Callback
  <2> QED BY <2>1, <2>2, <2>3, <2>4, <2>5, <2>6, <2>7 DEF Account
<1>3. \A c \in Callers : Invoked(c)'
  BY <1>u DEF IInv, Invoked
<1>4. ThreadsPlaced'
  BY <1>0, <1>q, <1>a, <1>u, <1>o DEF IInv, ThreadsPlaced, TypeOK, Notifiers, AfterNotify
<1>5. Order'
  <2>1. at'["OnRead"] \in {"pop", "find"} => at'["OnRead"] = at["OnRead"]
    BY SMT, <1>0, <1>a, Domains DEF AfterNotify, Notifiers
  <2> QED BY <1>u, <2>1 DEF IInv, Order, Queued
<1>6. DanglesOnlyLate'
  BY <1>0, <1>q, <1>a, <1>u DEF IInv, DanglesOnlyLate, Use
<1> QED BY <1>1, <1>2, <1>3, <1>4, <1>5, <1>6 DEF IInv

\* timer_task_id is stored: the caller alone moves.
LEMMA Send_timer_task_id ==
  ASSUME IInv, NEW c \in Callers, sendInternal_timer_task_id(c)
  PROVE  IInv'
<1>0. TypeOK
  BY DEF IInv
<1>q. Mine(c) \in Sessions /\ Mine(c)[1] = c /\ Mine(c)[2] = attempt[c] /\ Account(Mine(c))
  BY <1>0, MineSession DEF IInv
<1>a. /\ pc[c] = "timer_task_id" /\ pc' = [pc EXCEPT ![c] = "write"]
      /\ Use(c, Mine(c))
  BY DEF sendInternal_timer_task_id, Step
<1>u. UNCHANGED <<attempt, _error_code, has_callback, mem, owners, callback, result, timer,
        _session_info, _session_map, older, todo, wire, socket, published, overlap, at, cur,
        delivered, invoked, expired, unsent>>
  BY DEF sendInternal_timer_task_id, call, heap, reader, commit, thread, history
<1>1. TypeOK'
  <2>1. pc' \in [Callers -> CallAt]
    BY <1>0, <1>a DEF TypeOK, CallAt
  <2>3. dangling' \subseteq (Callers \cup Notifiers) \X Sessions
    BY <1>a, <1>u, CallerUse
  <2> QED BY <1>0, <1>u, <2>1, <2>3 DEF TypeOK
<1>2. ASSUME NEW r \in Sessions PROVE Account(r)'
  <2>0. Account(r)
    BY DEF IInv
  <2>1. Callback(r)'
    BY <1>u, <2>0 DEF Account, Callback
  <2>2. CASE r # Mine(c)
    <3>1. /\ attempt'[r[1]] = attempt[r[1]] /\ (r[2] = attempt[r[1]] => pc'[r[1]] = pc[r[1]])
          /\ Past(r)' <=> Past(r)
          /\ Preparing(r)' <=> Preparing(r)
      BY <1>0, <1>a, <1>u, <2>2, OtherSession
    <3>2. Same(r)
      BY <1>q, <1>a, <1>u, <2>2, <3>1 DEF Same, Queued
    <3>3. timer'[r] = timer[r]
      BY <1>0, <1>q, <1>a, <1>u, <2>2 DEF TypeOK
    <3> QED BY <2>0, <2>1, <3>1, <3>2, <3>3, SameAccount, SameCalled DEF Account
  <2>3. CASE r = Mine(c)
    <3>0. r[1] = c /\ pc[r[1]] = "timer_task_id" /\ pc'[r[1]] = "write" /\ attempt'[r[1]] = attempt[r[1]]
      BY <1>0, <1>q, <1>a, <1>u, <2>3 DEF TypeOK
    <3>1. ~Past(r) /\ ~Past(r)' /\ ~Preparing(r) /\ ~Preparing(r)'
      BY <1>q, <1>u, <2>3, <3>0 DEF Past, Preparing
    <3>2. Same(r)
      BY <1>a, <1>u, <3>1 DEF Same, Queued
    <3>3. Shares(r)' /\ Wins(r)' /\ Gone(r)' /\ Places(r)' /\ Timed(r)' /\ (Aside(r)' <=> Aside(r))
      BY <2>0, <3>2, SameAccount
    <3>4. Called(r)'
      BY <1>q, <1>u, <2>0, <2>3, <3>0, <3>1, <3>3 DEF Account, Called
    <3> QED BY <2>1, <3>3, <3>4 DEF Account
  <2> QED BY <2>2, <2>3
<1>3. \A d \in Callers : Invoked(d)'
  BY <1>0, <1>a, <1>u DEF IInv, Invoked, TypeOK
<1>4. ThreadsPlaced'
  BY <1>u DEF IInv, ThreadsPlaced
<1>5. Order'
  BY <1>u DEF IInv, Order, Queued
<1>6. DanglesOnlyLate'
  BY <1>a, <1>u, CallerUse
<1> QED BY <1>1, <1>2, <1>3, <1>4, <1>5, <1>6 DEF IInv

\* The promise is there: the caller alone moves.
LEMMA Send_wait ==
  ASSUME IInv, NEW c \in Callers, sendInternal_wait(c)
  PROVE  IInv'
<1>0. TypeOK
  BY DEF IInv
<1>q. Mine(c) \in Sessions /\ Mine(c)[1] = c /\ Mine(c)[2] = attempt[c] /\ Account(Mine(c))
  BY <1>0, MineSession DEF IInv
<1>a. /\ pc[c] = "wait" /\ pc' = [pc EXCEPT ![c] = "releaseShared"]
      /\ result[Mine(c)] # "unset"
      /\ \E e \in Errors : _error_code' = [_error_code EXCEPT ![c] = e]
      /\ Use(c, Mine(c))
  BY <1>0, <1>q DEF sendInternal_wait, Step, TypeOK, Errors
<1>u. UNCHANGED <<attempt, has_callback, mem, owners, callback, result, timer, _session_info,
        _session_map, older, todo, wire, socket, published, overlap, at, cur, delivered, invoked,
        expired, unsent>>
  BY <1>0, <1>q DEF sendInternal_wait, call, heap, reader, commit, thread, history
<1>1. TypeOK'
  <2>1. pc' \in [Callers -> CallAt]
    BY <1>0, <1>a DEF TypeOK, CallAt
  <2>2. _error_code' \in [Callers -> Errors]
    BY <1>0, <1>a DEF TypeOK, Errors
  <2>3. dangling' \subseteq (Callers \cup Notifiers) \X Sessions
    BY <1>a, <1>u, CallerUse
  <2> QED BY <1>0, <1>u, <2>1, <2>2, <2>3 DEF TypeOK
<1>2. ASSUME NEW r \in Sessions PROVE Account(r)'
  <2>0. Account(r)
    BY DEF IInv
  <2>1. Callback(r)'
    BY <1>u, <2>0 DEF Account, Callback
  <2>2. CASE r # Mine(c)
    <3>1. /\ attempt'[r[1]] = attempt[r[1]] /\ (r[2] = attempt[r[1]] => pc'[r[1]] = pc[r[1]])
          /\ Past(r)' <=> Past(r)
          /\ Preparing(r)' <=> Preparing(r)
      BY ZenonT(40), <1>0, <1>a, <1>u, <2>2, OtherSession
    <3>2. Same(r)
      BY <1>q, <1>a, <1>u, <2>2, <3>1 DEF Same, Queued
    <3>3. timer'[r] = timer[r]
      BY <1>0, <1>q, <1>a, <1>u, <2>2 DEF TypeOK
    <3> QED BY <2>0, <2>1, <3>1, <3>2, <3>3, SameAccount, SameCalled DEF Account
  <2>3. CASE r = Mine(c)
    <3>0. r[1] = c /\ pc[r[1]] = "wait" /\ pc'[r[1]] = "releaseShared" /\ attempt'[r[1]] = attempt[r[1]]
      BY <1>0, <1>q, <1>a, <1>u, <2>3 DEF TypeOK
    <3>1. ~Past(r) /\ ~Past(r)' /\ ~Preparing(r) /\ ~Preparing(r)'
      BY <1>q, <1>u, <2>3, <3>0 DEF Past, Preparing
    <3>2. Same(r)
      BY <1>a, <1>u, <3>1 DEF Same, Queued
    <3>3. Shares(r)' /\ Wins(r)' /\ Gone(r)' /\ Places(r)' /\ Timed(r)' /\ (Aside(r)' <=> Aside(r))
      BY <2>0, <3>2, SameAccount
    <3>4. Called(r)'
      BY <1>a, <1>q, <1>u, <2>0, <2>3, <3>0, <3>1, <3>3 DEF Account, Called
    <3> QED BY <2>1, <3>3, <3>4 DEF Account
  <2> QED BY <2>2, <2>3
<1>3. \A d \in Callers : Invoked(d)'
  BY <1>0, <1>a, <1>u DEF IInv, Invoked, TypeOK
<1>4. ThreadsPlaced'
  BY <1>u DEF IInv, ThreadsPlaced
<1>5. Order'
  BY <1>u DEF IInv, Order, Queued
<1>6. DanglesOnlyLate'
  BY <1>a, <1>u, CallerUse
<1> QED BY <1>1, <1>2, <1>3, <1>4, <1>5, <1>6 DEF IInv

\* NOT_SENT: no session is made in this attempt.
LEMMA Send_early ==
  ASSUME IInv, NEW c \in Callers, sendInternal_early(c)
  PROVE  IInv'
<1>0. TypeOK
  BY DEF IInv
<1>q. Mine(c) \in Sessions /\ Mine(c)[1] = c /\ Mine(c)[2] = attempt[c] /\ Account(Mine(c))
  BY <1>0, MineSession DEF IInv
<1>a. /\ pc[c] = "begin" /\ pc' = [pc EXCEPT ![c] = "attempted"]
      /\ _error_code' = [_error_code EXCEPT ![c] = "NOT_SENT"]
  BY DEF sendInternal_early, Step
<1>u. UNCHANGED <<attempt, has_callback, mem, owners, callback, result, timer, _session_info,
        _session_map, older, todo, wire, socket, published, overlap, at, cur, delivered, invoked,
        expired, unsent, dangling>>
  BY DEF sendInternal_early, call, heap, reader, commit, thread, history
<1>1. TypeOK'
  <2>1. pc' \in [Callers -> CallAt]
    BY <1>0, <1>a DEF TypeOK, CallAt
  <2>2. _error_code' \in [Callers -> Errors]
    BY <1>0, <1>a DEF TypeOK, Errors
  <2> QED BY <1>0, <1>u, <2>1, <2>2 DEF TypeOK
<1>2. ASSUME NEW r \in Sessions PROVE Account(r)'
  <2>0. Account(r)
    BY DEF IInv
  <2>1. Callback(r)'
    BY <1>u, <2>0 DEF Account, Callback
  <2>2. CASE r # Mine(c)
    <3>1. /\ attempt'[r[1]] = attempt[r[1]] /\ (r[2] = attempt[r[1]] => pc'[r[1]] = pc[r[1]])
          /\ Past(r)' <=> Past(r)
          /\ Preparing(r)' <=> Preparing(r)
      BY ZenonT(40), <1>0, <1>a, <1>u, <2>2, OtherSession
    <3>2. Same(r)
      BY <1>q, <1>a, <1>u, <2>2, <3>1 DEF Same, Queued
    <3>3. timer'[r] = timer[r]
      BY <1>0, <1>q, <1>a, <1>u, <2>2 DEF TypeOK
    <3> QED BY <2>0, <2>1, <3>1, <3>2, <3>3, SameAccount, SameCalled DEF Account
  <2>3. CASE r = Mine(c)
    <3>1. mem[r] = "unborn" /\ Aside(r) /\ r \notin unsent /\ ~callback[r] /\ delivered[r] = 0
      BY <1>q, <1>a, <2>0, <2>3 DEF Account, Called, Places, Aside
    <3>2. Aside(r)' /\ ~Preparing(r)' /\ Past(r)' /\ ~Preparing(r)
      BY SMT, <1>0, Domains, <1>q, <1>a, <1>u, <2>3, <3>1 DEF Aside, Preparing, Past
    <3>3. Called(r)'
      <4>1. attempt'[r[1]] = r[2] /\ pc'[r[1]] = "attempted" /\ r[2] \in Nat
        BY <1>0, <1>q, <1>a, <1>u, <2>3, Domains, SessionParts
      <4> QED BY SMT, <1>u, <3>1, <3>2, <4>1 DEF Called
    <3>4. Places(r)'
      BY <1>u, <2>0, <3>1, <3>2 DEF Account, Places, Queued
    <3>5. Shares(r)' /\ Gone(r)' /\ Wins(r)' /\ Timed(r)'
      BY <1>u, <2>0, <3>1 DEF Account, Shares, Gone, Wins, Delivering, Timed
    <3> QED BY <2>1, <3>3, <3>4, <3>5 DEF Account
  <2> QED BY <2>2, <2>3
<1>3. \A d \in Callers : Invoked(d)'
  BY <1>0, <1>a, <1>u DEF IInv, Invoked, TypeOK
<1>4. ThreadsPlaced'
  BY <1>u DEF IInv, ThreadsPlaced
<1>5. Order'
  BY <1>u DEF IInv, Order, Queued
<1>6. DanglesOnlyLate'
  BY <1>u DEF IInv, DanglesOnlyLate
<1> QED BY <1>1, <1>2, <1>3, <1>4, <1>5, <1>6 DEF IInv

\* The request is sent: its answer may arrive from now on.
LEMMA Send_write ==
  ASSUME IInv, NEW c \in Callers, sendInternal_write(c)
  PROVE  IInv'
<1>0. TypeOK
  BY DEF IInv
<1>q. Mine(c) \in Sessions /\ Mine(c)[1] = c /\ Mine(c)[2] = attempt[c] /\ Account(Mine(c))
  BY <1>0, MineSession DEF IInv
<1>a. /\ pc[c] = "write" /\ pc' = [pc EXCEPT ![c] = "written"]
      /\ wire' = wire \cup {Mine(c)}
  BY DEF sendInternal_write, Step
<1>u. UNCHANGED <<attempt, _error_code, has_callback, mem, owners, callback, result, timer,
        _session_info, _session_map, older, todo, socket, published, overlap, at, cur, delivered,
        invoked, expired, unsent, dangling>>
  BY DEF sendInternal_write, call, heap, reader, commit, thread, history
<1>1. TypeOK'
  <2>1. pc' \in [Callers -> CallAt]
    BY <1>0, <1>a DEF TypeOK, CallAt
  <2>2. wire' \subseteq Sessions
    BY <1>0, <1>q, <1>a DEF TypeOK
  <2> QED BY <1>0, <1>u, <2>1, <2>2 DEF TypeOK
<1>2. ASSUME NEW r \in Sessions PROVE Account(r)'
  <2>0. Account(r)
    BY DEF IInv
  <2>1. Callback(r)'
    BY <1>u, <2>0 DEF Account, Callback
  <2>2. CASE r # Mine(c)
    <3>1. /\ attempt'[r[1]] = attempt[r[1]] /\ (r[2] = attempt[r[1]] => pc'[r[1]] = pc[r[1]])
          /\ Past(r)' <=> Past(r)
          /\ Preparing(r)' <=> Preparing(r)
      BY <1>0, <1>a, <1>u, <2>2, OtherSession
    <3>2. Same(r)
      BY <1>q, <1>a, <1>u, <2>2, <3>1 DEF Same, Queued
    <3>3. timer'[r] = timer[r]
      BY <1>0, <1>q, <1>a, <1>u, <2>2 DEF TypeOK
    <3> QED BY <2>0, <2>1, <3>1, <3>2, <3>3, SameAccount, SameCalled DEF Account
  <2>3. CASE r = Mine(c)
    <3>0. r[1] = c /\ pc[r[1]] = "write" /\ pc'[r[1]] = "written" /\ attempt'[r[1]] = attempt[r[1]]
      BY <1>0, <1>q, <1>a, <1>u, <2>3 DEF TypeOK
    <3>1. ~Past(r) /\ ~Past(r)' /\ ~Preparing(r) /\ ~Preparing(r)'
      BY <1>q, <1>u, <2>3, <3>0 DEF Past, Preparing
    <3>2. Same(r)
      BY <1>q, <1>a, <1>u, <2>0, <2>3, <3>1 DEF Account, Called, Same, Queued
    <3>3. Shares(r)' /\ Wins(r)' /\ Gone(r)' /\ Places(r)' /\ Timed(r)' /\ (Aside(r)' <=> Aside(r))
      BY <2>0, <3>2, SameAccount
    <3>4. Called(r)'
      BY <1>q, <1>u, <2>0, <2>3, <3>0, <3>1, <3>3 DEF Account, Called
    <3> QED BY <2>1, <3>3, <3>4 DEF Account
  <2> QED BY <2>2, <2>3
<1>3. \A d \in Callers : Invoked(d)'
  BY <1>0, <1>a, <1>u DEF IInv, Invoked, TypeOK
<1>4. ThreadsPlaced'
  BY <1>u DEF IInv, ThreadsPlaced
<1>5. Order'
  BY <1>u DEF IInv, Order, Queued
<1>6. DanglesOnlyLate'
  BY <1>u DEF IInv, DanglesOnlyLate
<1> QED BY <1>1, <1>2, <1>3, <1>4, <1>5, <1>6 DEF IInv

\* The request cannot be sent: the task of its timer is abandoned.
LEMMA Send_write_fail ==
  ASSUME IInv, NEW c \in Callers, sendInternal_write_fail(c)
  PROVE  IInv'
<1>0. TypeOK
  BY DEF IInv
<1>q. Mine(c) \in Sessions /\ Mine(c)[1] = c /\ Mine(c)[2] = attempt[c] /\ Account(Mine(c))
  BY <1>0, MineSession DEF IInv
<1>a. /\ pc[c] = "write" /\ pc' = [pc EXCEPT ![c] = "giveUp"]
      /\ _error_code' = [_error_code EXCEPT ![c] = "WRITE_FAIL"]
      /\ timer' = [timer EXCEPT ![Mine(c)] = IF @ = "pending" THEN "abandoned" ELSE @]
      /\ Use(c, Mine(c))
  BY DEF sendInternal_write_fail, Step
<1>u. UNCHANGED <<attempt, has_callback, mem, owners, callback, result, _session_info,
        _session_map, older, todo, wire, socket, published, overlap, at, cur, delivered, invoked,
        expired, unsent>>
  BY DEF sendInternal_write_fail, call, heap, reader, commit, thread, history
<1>1. TypeOK'
  <2>1. pc' \in [Callers -> CallAt]
    BY <1>0, <1>a DEF TypeOK, CallAt
  <2>2. _error_code' \in [Callers -> Errors]
    BY <1>0, <1>a DEF TypeOK, Errors
  <2>3. dangling' \subseteq (Callers \cup Notifiers) \X Sessions
    BY <1>a, <1>u, CallerUse
  <2>4. timer' \in [Sessions -> {"none", "pending", "abandoned", "running", "over"}]
    BY <1>0, <1>q, <1>a DEF TypeOK
  <2> QED BY <1>0, <1>u, <2>1, <2>2, <2>3, <2>4 DEF TypeOK
<1>2. ASSUME NEW r \in Sessions PROVE Account(r)'
  <2>0. Account(r)
    BY DEF IInv
  <2>1. Callback(r)'
    BY <1>u, <2>0 DEF Account, Callback
  <2>2. CASE r # Mine(c)
    <3>1. /\ attempt'[r[1]] = attempt[r[1]] /\ (r[2] = attempt[r[1]] => pc'[r[1]] = pc[r[1]])
          /\ Past(r)' <=> Past(r)
          /\ Preparing(r)' <=> Preparing(r)
      BY <1>0, <1>a, <1>u, <2>2, OtherSession
    <3>2. Same(r)
      BY SMT, <1>0, Domains, <1>q, <1>a, <1>u, <2>2, <3>1 DEF Same, Queued
    <3>3. timer'[r] = timer[r]
      BY <1>0, <1>q, <1>a, <1>u, <2>2 DEF TypeOK
    <3> QED BY <2>0, <2>1, <3>1, <3>2, <3>3, SameAccount, SameCalled DEF Account
  <2>3. CASE r = Mine(c)
    <3>0. r[1] = c /\ pc[r[1]] = "write" /\ pc'[r[1]] = "giveUp" /\ attempt'[r[1]] = attempt[r[1]]
      BY <1>0, <1>q, <1>a, <1>u, <2>3 DEF TypeOK
    <3>1. ~Past(r) /\ ~Past(r)' /\ ~Preparing(r) /\ ~Preparing(r)'
      BY <1>q, <1>u, <2>3, <3>0 DEF Past, Preparing
    <3>2. Same(r)
      <4>1. ~Aside(r)
        BY <1>q, <1>a, <2>0, <2>3, <3>0 DEF Account, Called
      <4>2. timer[r] = "over" => timer'[r] = "over"
        BY SMT, <1>0, Domains, <1>q, <1>a, <2>3
      <4>3. timer'[r] = "running" <=> timer[r] = "running"
        BY SMT, <1>0, Domains, <1>q, <1>a, <2>3
      <4> QED BY <1>u, <3>1, <4>1, <4>2, <4>3 DEF Same, Queued
    <3>3. Shares(r)' /\ Wins(r)' /\ Gone(r)' /\ Places(r)' /\ Timed(r)' /\ (Aside(r)' <=> Aside(r))
      BY <2>0, <3>2, SameAccount
    <3>4. Called(r)'
      BY <1>q, <1>u, <2>0, <2>3, <3>0, <3>1, <3>3 DEF Account, Called
    <3> QED BY <2>1, <3>3, <3>4 DEF Account
  <2> QED BY <2>2, <2>3
<1>3. \A d \in Callers : Invoked(d)'
  BY <1>0, <1>a, <1>u DEF IInv, Invoked, TypeOK
<1>4. ThreadsPlaced'
  BY <1>u DEF IInv, ThreadsPlaced
<1>5. Order'
  BY <1>u DEF IInv, Order, Queued
<1>6. DanglesOnlyLate'
  BY <1>a, <1>u, CallerUse
<1> QED BY <1>1, <1>2, <1>3, <1>4, <1>5, <1>6 DEF IInv

\* The task of the timer is added, or its queue is full.
LEMMA Send_addTimeschdule ==
  ASSUME IInv, NEW c \in Callers, sendInternal_addTimeschdule(c)
  PROVE  IInv'
<1>0. TypeOK
  BY DEF IInv
<1>q. Mine(c) \in Sessions /\ Mine(c)[1] = c /\ Mine(c)[2] = attempt[c] /\ Account(Mine(c))
  BY <1>0, MineSession DEF IInv
<1>a. /\ pc[c] = "addTimeschdule"
      /\ \E x \in {"timer_task_id", "giveUp"} : pc' = [pc EXCEPT ![c] = x]
      /\ \/ timer' = [timer EXCEPT ![Mine(c)] = "pending"] /\ _error_code' = _error_code
         \/ timer' = timer /\ _error_code' = [_error_code EXCEPT ![c] = "TIMER_BUSY"]
  BY DEF sendInternal_addTimeschdule, Step
<1>u. UNCHANGED <<attempt, has_callback, mem, owners, callback, result, _session_info,
        _session_map, older, todo, wire, socket, published, overlap, at, cur, delivered, invoked,
        expired, unsent, dangling>>
  BY DEF sendInternal_addTimeschdule, call, heap, reader, commit, thread, history
<1>1. TypeOK'
  <2>1. pc' \in [Callers -> CallAt]
    BY SMT, <1>0, <1>a DEF TypeOK, CallAt
  <2>2. _error_code' \in [Callers -> Errors]
    BY ZenonT(40), <1>0, <1>a DEF TypeOK, Errors
  <2>4. timer' \in [Sessions -> {"none", "pending", "abandoned", "running", "over"}]
    BY <1>0, <1>q, <1>a DEF TypeOK
  <2> QED BY <1>0, <1>u, <2>1, <2>2, <2>4 DEF TypeOK
<1>2. ASSUME NEW r \in Sessions PROVE Account(r)'
  <2>0. Account(r)
    BY DEF IInv
  <2>1. Callback(r)'
    BY <1>u, <2>0 DEF Account, Callback
  <2>2. CASE r # Mine(c)
    <3>1. /\ attempt'[r[1]] = attempt[r[1]] /\ (r[2] = attempt[r[1]] => pc'[r[1]] = pc[r[1]])
          /\ Past(r)' <=> Past(r)
          /\ Preparing(r)' <=> Preparing(r)
      BY ZenonT(40), <1>0, <1>a, <1>u, <2>2, OtherSession
    <3>2. Same(r)
      BY SMT, <1>0, Domains, <1>q, <1>a, <1>u, <2>2, <3>1 DEF Same, Queued
    <3>3. timer'[r] = timer[r]
      BY <1>0, <1>q, <1>a, <1>u, <2>2 DEF TypeOK
    <3> QED BY <2>0, <2>1, <3>1, <3>2, <3>3, SameAccount, SameCalled DEF Account
  <2>3. CASE r = Mine(c)
    <3>0. r[1] = c /\ pc[r[1]] = "addTimeschdule" /\ attempt'[r[1]] = attempt[r[1]]
          /\ pc'[r[1]] \in {"timer_task_id", "giveUp"}
      BY SMT, <1>0, Domains, <1>q, <1>a, <1>u, <2>3
    <3>1. ~Past(r) /\ ~Past(r)' /\ ~Preparing(r) /\ ~Preparing(r)'
      BY <1>q, <1>u, <2>3, <3>0 DEF Past, Preparing
    <3>2. ~Aside(r) /\ timer[r] = "none"
      BY <1>q, <1>a, <2>0, <2>3 DEF Account, Called
    <3>3. Same(r)
      BY SMT, <1>0, Domains, <1>q, <1>a, <1>u, <2>3, <3>1, <3>2 DEF Same, Queued
    <3>4. Shares(r)' /\ Wins(r)' /\ Gone(r)' /\ Places(r)' /\ Timed(r)' /\ (Aside(r)' <=> Aside(r))
      BY <2>0, <3>3, SameAccount
    <3>5. Called(r)'
      BY <1>q, <1>u, <2>0, <2>3, <3>0, <3>1, <3>4 DEF Account, Called
    <3> QED BY <2>1, <3>4, <3>5 DEF Account
  <2> QED BY <2>2, <2>3
<1>3. \A d \in Callers : Invoked(d)'
  BY SMT, <1>0, Domains, <1>a, <1>u DEF IInv, Invoked
<1>4. ThreadsPlaced'
  BY <1>u DEF IInv, ThreadsPlaced
<1>5. Order'
  BY <1>u DEF IInv, Order, Queued
<1>6. DanglesOnlyLate'
  BY <1>u DEF IInv, DanglesOnlyLate
<1> QED BY <1>1, <1>2, <1>3, <1>4, <1>5, <1>6 DEF IInv

\* The caller gives up: it returns the share of the timer thread.
LEMMA Send_giveUp ==
  ASSUME IInv, NEW c \in Callers, sendInternal_giveUp(c)
  PROVE  IInv'
<1>0. TypeOK
  BY DEF IInv
<1>q. Mine(c) \in Sessions /\ Mine(c)[1] = c /\ Mine(c)[2] = attempt[c] /\ Account(Mine(c))
  BY <1>0, MineSession DEF IInv
<1>a. /\ pc[c] = "giveUp" /\ pc' = [pc EXCEPT ![c] = "attempted"]
      /\ SetOwners(Mine(c), SubShared(owners[Mine(c)]))
      /\ unsent' = unsent \cup {Mine(c)}
      /\ Use(c, Mine(c))
  BY DEF sendInternal_giveUp, Step
<1>u. UNCHANGED <<attempt, _error_code, has_callback, mem, callback, result, timer, _session_info,
        _session_map, older, todo, wire, socket, published, overlap, at, cur, delivered, invoked,
        expired>>
  BY DEF sendInternal_giveUp, call, heap, reader, commit, thread, history
<1>o. /\ owners' \in [Sessions -> Bits] /\ owners[Mine(c)].shared \in Int
      /\ owners'[Mine(c)].shared = owners[Mine(c)].shared - 1
      /\ owners'[Mine(c)].upgraded = owners[Mine(c)].upgraded
      /\ owners'[Mine(c)].exclusive = owners[Mine(c)].exclusive
      /\ \A r \in Sessions : r # Mine(c) => owners'[r] = owners[r]
  BY <1>0, <1>q, <1>a, WordSub DEF TypeOK
<1>1. TypeOK'
  <2>1. pc' \in [Callers -> CallAt]
    BY <1>0, <1>a DEF TypeOK, CallAt
  <2>4. owners' \in [Sessions -> Bits]
    BY <1>o
  <2>2. unsent' \subseteq Sessions
    BY <1>0, <1>q, <1>a DEF TypeOK
  <2>3. dangling' \subseteq (Callers \cup Notifiers) \X Sessions
    BY <1>a, <1>u, CallerUse
  <2> QED BY <1>0, <1>u, <2>1, <2>2, <2>3, <2>4 DEF TypeOK
<1>2. ASSUME NEW r \in Sessions PROVE Account(r)'
  <2>0. Account(r)
    BY DEF IInv
  <2>1. Callback(r)'
    BY <1>u, <2>0 DEF Account, Callback
  <2>2. CASE r # Mine(c)
    <3>1. /\ attempt'[r[1]] = attempt[r[1]] /\ (r[2] = attempt[r[1]] => pc'[r[1]] = pc[r[1]])
          /\ Past(r)' <=> Past(r)
          /\ Preparing(r)' <=> Preparing(r)
      BY ZenonT(40), <1>0, <1>a, <1>u, <2>2, OtherSession
    <3>2. Same(r)
      BY <1>a, <1>u, <1>o, <2>2, <3>1 DEF Same, Queued
    <3> QED BY <1>u, <2>0, <2>1, <3>1, <3>2, SameAccount, SameCalled DEF Account
  <2>3. CASE r = Mine(c)
    <3>0. r[1] = c /\ pc[r[1]] = "giveUp" /\ pc'[r[1]] = "attempted" /\ attempt'[r[1]] = attempt[r[1]]
      BY <1>0, <1>q, <1>a, <1>u, <2>3 DEF TypeOK
    <3>1. ~Past(r) /\ Past(r)' /\ ~Preparing(r) /\ ~Preparing(r)'
      BY <1>q, <1>u, <2>3, <3>0 DEF Past, Preparing
    <3>2. ~Aside(r) /\ r \notin unsent
      BY <1>q, <1>a, <2>0, <2>3, <3>1 DEF Account, Called
    <3>3. Left(r)' <=> Left(r)
      BY <1>a, <1>u, <2>3, <3>1 DEF Left
    <3>4. Returned(r)' = Returned(r) + 1
      BY SMT, <1>a, <1>u, <2>3, <3>2 DEF Returned, One
    <3>5. One(Left(r)') = One(Left(r)) /\ One(Left(r)) \in Int
      BY SMT, <3>3 DEF One
    <3>6. Inside(r)' = Inside(r) /\ (Delivering(r)' <=> Delivering(r))
      BY <1>u DEF Inside, Holds, One, Delivering
    <3>7. Returned(r) \in Int /\ Inside(r) \in Int
      BY SMT DEF Returned, Inside, One
    <3>8. ~Aside(r)'
      BY <1>u, <1>o, <2>3, <3>1, <3>2 DEF Aside
    <3>9. Shares(r)'
      <4>1. mem' = mem /\ delivered' = delivered
        BY <1>u
      <4>2. Shares(r)
        BY <2>0 DEF Account
      <4> QED BY SMT, <1>o, <2>3, <3>4, <3>5, <3>6, <3>7, <4>1, <4>2 DEF Shares
    <3>10. Wins(r)' /\ Timed(r)'
      BY <1>u, <2>0, <3>6 DEF Account, Wins, Timed
    <3>11. Gone(r)'
      BY <1>a, <1>u, <1>o, <2>0, <2>3, <3>1 DEF Account, Gone
    <3>12. Places(r)'
      BY <1>u, <2>0, <2>3, <3>1, <3>2, <3>8 DEF Account, Places, Queued
    <3>13. Called(r)'
      BY <1>q, <1>a, <1>u, <2>0, <2>3, <3>0, <3>1, <3>8 DEF Account, Called
    <3> QED BY <2>1, <3>9, <3>10, <3>11, <3>12, <3>13 DEF Account
  <2> QED BY <2>2, <2>3
<1>3. \A d \in Callers : Invoked(d)'
  BY <1>0, <1>a, <1>u DEF IInv, Invoked, TypeOK
<1>4. ThreadsPlaced'
  BY <1>u DEF IInv, ThreadsPlaced
<1>5. Order'
  BY <1>u DEF IInv, Order, Queued
<1>6. DanglesOnlyLate'
  BY <1>a, <1>u, CallerUse
<1> QED BY <1>1, <1>2, <1>3, <1>4, <1>5, <1>6 DEF IInv

\* The waiting caller returns the share that notify left to it.
LEMMA Send_releaseShared ==
  ASSUME IInv, NEW c \in Callers, sendInternal_releaseShared(c)
  PROVE  IInv'
<1>0. TypeOK
  BY DEF IInv
<1>q. Mine(c) \in Sessions /\ Mine(c)[1] = c /\ Mine(c)[2] = attempt[c] /\ Account(Mine(c))
  BY <1>0, MineSession DEF IInv
<1>a. /\ pc[c] = "releaseShared" /\ pc' = [pc EXCEPT ![c] = "attempted"]
      /\ SetOwners(Mine(c), SubShared(owners[Mine(c)]))
      /\ Use(c, Mine(c))
  BY DEF sendInternal_releaseShared, Step
<1>u. UNCHANGED <<attempt, _error_code, has_callback, mem, callback, result, timer, _session_info,
        _session_map, older, todo, wire, socket, published, overlap, at, cur, delivered, invoked,
        expired, unsent>>
  BY DEF sendInternal_releaseShared, call, heap, reader, commit, thread, history
<1>o. /\ owners' \in [Sessions -> Bits] /\ owners[Mine(c)].shared \in Int
      /\ owners'[Mine(c)].shared = owners[Mine(c)].shared - 1
      /\ owners'[Mine(c)].upgraded = owners[Mine(c)].upgraded
      /\ owners'[Mine(c)].exclusive = owners[Mine(c)].exclusive
      /\ \A r \in Sessions : r # Mine(c) => owners'[r] = owners[r]
  BY <1>0, <1>q, <1>a, WordSub DEF TypeOK
<1>1. TypeOK'
  <2>1. pc' \in [Callers -> CallAt]
    BY <1>0, <1>a DEF TypeOK, CallAt
  <2>4. owners' \in [Sessions -> Bits]
    BY <1>o
  <2>3. dangling' \subseteq (Callers \cup Notifiers) \X Sessions
    BY <1>a, <1>u, CallerUse
  <2> QED BY <1>0, <1>u, <2>1, <2>3, <2>4 DEF TypeOK
<1>2. ASSUME NEW r \in Sessions PROVE Account(r)'
  <2>0. Account(r)
    BY DEF IInv
  <2>1. Callback(r)'
    BY <1>u, <2>0 DEF Account, Callback
  <2>2. CASE r # Mine(c)
    <3>1. /\ attempt'[r[1]] = attempt[r[1]] /\ (r[2] = attempt[r[1]] => pc'[r[1]] = pc[r[1]])
          /\ Past(r)' <=> Past(r)
          /\ Preparing(r)' <=> Preparing(r)
      BY <1>0, <1>a, <1>u, <2>2, OtherSession
    <3>2. Same(r)
      BY <1>a, <1>u, <1>o, <2>2, <3>1 DEF Same, Queued
    <3> QED BY <1>u, <2>0, <2>1, <3>1, <3>2, SameAccount, SameCalled DEF Account
  <2>3. CASE r = Mine(c)
    <3>0. r[1] = c /\ pc[r[1]] = "releaseShared" /\ pc'[r[1]] = "attempted" /\ attempt'[r[1]] = attempt[r[1]]
      BY <1>0, <1>q, <1>a, <1>u, <2>3 DEF TypeOK
    <3>1. ~Past(r) /\ Past(r)' /\ ~Preparing(r) /\ ~Preparing(r)'
      BY <1>q, <1>u, <2>3, <3>0 DEF Past, Preparing
    <3>2. ~Aside(r) /\ r \notin unsent /\ result[r] # "unset" /\ ~callback[r]
      BY <1>q, <1>a, <2>0, <2>3, <3>1 DEF Account, Called
    <3>3. Left(r) /\ ~Left(r)'
      BY <1>u, <2>3, <3>1, <3>2 DEF Left
    <3>4. Returned(r)' = Returned(r)
      BY <1>u DEF Returned
    <3>5. One(Left(r))' = 0 /\ One(Left(r)) = 1
      BY <3>3 DEF One
    <3>6. Inside(r)' = Inside(r) /\ (Delivering(r)' <=> Delivering(r))
      BY <1>u DEF Inside, Holds, One, Delivering
    <3>7. Returned(r) \in Int /\ Inside(r) \in Int
      BY SMT DEF Returned, Inside, One
    <3>8. ~Aside(r)'
      BY <1>u, <1>o, <2>3, <3>1, <3>2 DEF Aside
    <3>9. Shares(r)'
      <4>1. mem' = mem /\ delivered' = delivered
        BY <1>u
      <4>2. Shares(r)
        BY <2>0 DEF Account
      <4> QED BY SMT, <1>o, <2>3, <3>4, <3>5, <3>6, <3>7, <4>1, <4>2 DEF Shares
    <3>10. Wins(r)' /\ Timed(r)'
      BY <1>u, <2>0, <3>6 DEF Account, Wins, Timed
    <3>11. Gone(r)'
      BY <1>u, <1>o, <2>0, <2>3, <3>1 DEF Account, Gone
    <3>12. Places(r)'
      BY <1>u, <2>0, <2>3, <3>1, <3>2, <3>8 DEF Account, Places, Queued
    <3>13. Called(r)'
      BY <1>q, <1>u, <2>0, <2>3, <3>0, <3>1, <3>2, <3>8 DEF Account, Called
    <3> QED BY <2>1, <3>9, <3>10, <3>11, <3>12, <3>13 DEF Account
  <2> QED BY <2>2, <2>3
<1>3. \A d \in Callers : Invoked(d)'
  BY <1>0, <1>a, <1>u DEF IInv, Invoked, TypeOK
<1>4. ThreadsPlaced'
  BY <1>u DEF IInv, ThreadsPlaced
<1>5. Order'
  BY <1>u DEF IInv, Order, Queued
<1>6. DanglesOnlyLate'
  BY <1>a, <1>u, CallerUse
<1> QED BY <1>1, <1>2, <1>3, <1>4, <1>5, <1>6 DEF IInv

\* After a successful write an asynchronous call is over and another waits.
LEMMA Send_written ==
  ASSUME IInv, NEW c \in Callers, sendInternal_written(c)
  PROVE  IInv'
<1>0. TypeOK
  BY DEF IInv
<1>q. Mine(c) \in Sessions /\ Mine(c)[1] = c /\ Mine(c)[2] = attempt[c] /\ Account(Mine(c))
  BY <1>0, MineSession DEF IInv
<1>a. /\ pc[c] = "written" /\ pc' = [pc EXCEPT ![c] = IF callback[Mine(c)] THEN "attempted" ELSE "wait"]
      /\ Use(c, Mine(c))
  BY DEF sendInternal_written, Step
<1>u. UNCHANGED <<attempt, _error_code, has_callback, mem, owners, callback, result, timer,
        _session_info, _session_map, older, todo, wire, socket, published, overlap, at, cur,
        delivered, invoked, expired, unsent>>
  BY DEF sendInternal_written, call, heap, reader, commit, thread, history
<1>1. TypeOK'
  <2>1. pc' \in [Callers -> CallAt]
    BY <1>0, <1>a DEF TypeOK, CallAt
  <2>3. dangling' \subseteq (Callers \cup Notifiers) \X Sessions
    BY <1>a, <1>u, CallerUse
  <2> QED BY <1>0, <1>u, <2>1, <2>3 DEF TypeOK
<1>2. ASSUME NEW r \in Sessions PROVE Account(r)'
  <2>0. Account(r)
    BY DEF IInv
  <2>1. Callback(r)'
    BY <1>u, <2>0 DEF Account, Callback
  <2>2. CASE r # Mine(c)
    <3>1. /\ attempt'[r[1]] = attempt[r[1]] /\ (r[2] = attempt[r[1]] => pc'[r[1]] = pc[r[1]])
          /\ Past(r)' <=> Past(r)
          /\ Preparing(r)' <=> Preparing(r)
      BY <1>0, <1>a, <1>u, <2>2, OtherSession
    <3>2. Same(r)
      BY <1>q, <1>a, <1>u, <2>2, <3>1 DEF Same, Queued
    <3>3. timer'[r] = timer[r]
      BY <1>0, <1>q, <1>a, <1>u, <2>2 DEF TypeOK
    <3> QED BY <2>0, <2>1, <3>1, <3>2, <3>3, SameAccount, SameCalled DEF Account
  <2>3. CASE r = Mine(c)
    <3>0. r[1] = c /\ pc[r[1]] = "written" /\ attempt'[r[1]] = attempt[r[1]]
          /\ pc'[r[1]] = IF callback[r] THEN "attempted" ELSE "wait"
      BY <1>0, <1>q, <1>a, <1>u, <2>3 DEF TypeOK
    <3>1. ~Past(r) /\ (Past(r)' <=> callback[r]) /\ ~Preparing(r) /\ ~Preparing(r)'
      BY <1>q, <1>u, <2>3, <3>0 DEF Past, Preparing
    <3>2. ~Aside(r) /\ ~Aside(r)'
      BY <1>q, <1>a, <1>u, <2>0, <2>3, <3>1 DEF Account, Called, Aside
    <3>3. Left(r)' <=> Left(r)
      BY <1>u, <2>0, <3>1 DEF Account, Wins, Left
    <3>4. /\ Returned(r)' = Returned(r) /\ Inside(r)' = Inside(r) /\ One(Left(r))' = One(Left(r))
          /\ Delivering(r)' <=> Delivering(r)
      BY <1>u, <3>3 DEF Returned, Inside, Holds, One, Delivering
    <3>5. Shares(r)'
      BY <1>u, <2>0, <3>4 DEF Account, Shares
    <3>6. Wins(r)' /\ Timed(r)'
      BY <1>u, <2>0, <3>4 DEF Account, Wins, Timed
    <3>7. Gone(r)'
      BY <1>u, <2>0, <3>1 DEF Account, Gone
    <3>8. Places(r)'
      BY <1>u, <2>0, <3>1, <3>2 DEF Account, Places, Queued
    <3>9. Called(r)'
      BY <1>q, <1>u, <2>0, <2>3, <3>0, <3>1, <3>2 DEF Account, Called
    <3> QED BY <2>1, <3>5, <3>6, <3>7, <3>8, <3>9 DEF Account
  <2> QED BY <2>2, <2>3
<1>3. \A d \in Callers : Invoked(d)'
  BY <1>0, <1>a, <1>u DEF IInv, Invoked, TypeOK
<1>4. ThreadsPlaced'
  BY <1>u DEF IInv, ThreadsPlaced
<1>5. Order'
  BY <1>u DEF IInv, Order, Queued
<1>6. DanglesOnlyLate'
  BY <1>a, <1>u, CallerUse
<1> QED BY <1>1, <1>2, <1>3, <1>4, <1>5, <1>6 DEF IInv

\* A session is made: the callback moves into it, a share is the timer thread's.
LEMMA Send_new ==
  ASSUME IInv, NEW c \in Callers, sendInternal_new(c)
  PROVE  IInv'
<1>0. TypeOK
  BY DEF IInv
<1>q. Mine(c) \in Sessions /\ Mine(c)[1] = c /\ Mine(c)[2] = attempt[c] /\ Account(Mine(c))
  BY <1>0, MineSession DEF IInv
<1>a. /\ pc[c] = "begin" /\ pc' = [pc EXCEPT ![c] = "prepareRead"]
      /\ mem' = [mem EXCEPT ![Mine(c)] = "live"]
      /\ callback' = [callback EXCEPT ![Mine(c)] = has_callback[c]]
      /\ has_callback' = [has_callback EXCEPT ![c] = FALSE]
      /\ owners' = [owners EXCEPT ![Mine(c)] = AddShared(NoBits)]
  BY DEF sendInternal_new, Step, SetOwners
<1>u. UNCHANGED <<attempt, _error_code, result, timer, _session_info, _session_map, older, todo,
        wire, socket, published, overlap, at, cur, delivered, invoked, expired, unsent, dangling>>
  BY DEF sendInternal_new, call, heap, reader, commit, thread, history
<1>b. /\ AddShared(NoBits) \in Bits /\ AddShared(NoBits).shared = 1
      /\ AddShared(NoBits).upgraded = 0 /\ AddShared(NoBits).exclusive = 0
  BY SMT DEF AddShared, NoBits, Bits
<1>1. TypeOK'
  <2>1. pc' \in [Callers -> CallAt]
    BY <1>0, <1>a DEF TypeOK, CallAt
  <2>2. mem' \in [Sessions -> {"unborn", "live", "freed"}] /\ callback' \in [Sessions -> BOOLEAN]
    BY <1>0, <1>a DEF TypeOK
  <2>3. has_callback' \in [Callers -> BOOLEAN] /\ owners' \in [Sessions -> Bits]
    BY <1>0, <1>a, <1>b DEF TypeOK
  <2> QED BY <1>0, <1>u, <2>1, <2>2, <2>3 DEF TypeOK
<1>2. ASSUME NEW r \in Sessions PROVE Account(r)'
  <2>0. Account(r)
    BY DEF IInv
  <2>1. Callback(r)'
    <3>1. mem[Mine(c)] = "unborn" /\ ~callback[Mine(c)] /\ delivered[Mine(c)] = 0
      BY <1>q, <1>a DEF Account, Called, Places, Aside
    <3>2. Invoked(c) /\ Callback(r) /\ r[1] \in Callers /\ \A s \in Sessions : Callback(s)
      BY <2>0, SessionParts DEF IInv, Account
    <3>3. has_callback[c] => invoked[c] = 0
      BY <1>a, <3>2 DEF Invoked
    <3>4. \A s \in Sessions : callback'[s] <=> IF s = Mine(c) THEN has_callback[c] ELSE callback[s]
      BY <1>0, <1>a DEF TypeOK
    <3>5. \A s \in Sessions : callback[s] /\ s[1] = c => ~has_callback[c]
      BY <3>2 DEF Callback
    <3>6. callback'[r] => ~has_callback'[r[1]] /\ invoked'[r[1]] = delivered'[r]
      <4>1. r # Mine(c) => (callback'[r] <=> callback[r])
        BY <3>4
      <4>2. r = Mine(c) => r[1] = c /\ (callback'[r] => has_callback[c]) /\ ~has_callback'[c]
        BY <1>0, <1>q, <1>a, <3>4, Domains
      <4>3. has_callback'[r[1]] => has_callback[r[1]]
        BY <1>0, <1>a, <3>2, Domains
      <4> QED BY <1>u, <3>1, <3>2, <3>3, <4>1, <4>2, <4>3 DEF Callback
    <3>7. \A s \in Sessions : callback'[r] /\ callback'[s] /\ r[1] = s[1] => r = s
      BY SMT, <1>q, <3>2, <3>4, <3>5 DEF Callback
    <3> QED BY <3>6, <3>7 DEF Callback
  <2>2. CASE r # Mine(c)
    <3>1. /\ attempt'[r[1]] = attempt[r[1]] /\ (r[2] = attempt[r[1]] => pc'[r[1]] = pc[r[1]])
          /\ Past(r)' <=> Past(r)
          /\ Preparing(r)' <=> Preparing(r)
      BY ZenonT(40), <1>0, <1>a, <1>u, <2>2, OtherSession
    <3>2. Same(r)
      BY SMT, <1>0, Domains, <1>q, <1>a, <1>u, <2>2, <3>1 DEF Same, Queued
    <3>3. timer'[r] = timer[r]
      BY <1>0, <1>q, <1>a, <1>u, <2>2 DEF TypeOK
    <3> QED BY <2>0, <2>1, <3>1, <3>2, <3>3, SameAccount, SameCalled DEF Account
  <2>3. CASE r = Mine(c)
    <3>0. r[1] = c /\ pc[r[1]] = "begin" /\ pc'[r[1]] = "prepareRead" /\ attempt'[r[1]] = attempt[r[1]]
      BY <1>0, <1>q, <1>a, <1>u, <2>3 DEF TypeOK
    <3>1. ~Past(r)' /\ Preparing(r)' /\ mem'[r] = "live" /\ owners'[r] = AddShared(NoBits)
      BY ZenonT(40), <1>0, <1>q, <1>a, <1>u, <2>3, <3>0 DEF Past, Preparing, TypeOK
    <3>2. /\ mem[r] = "unborn" /\ timer[r] = "none" /\ delivered[r] = 0
          /\ r \notin wire \cup _session_map \cup Queued \cup expired \cup unsent
          /\ cur["OnRead"] # r /\ cur["Timeout"] # r
      BY <1>q, <1>a, <2>0, <2>3 DEF Account, Called, Places, Aside
    <3>d. ~Delivering(r) /\ ~Delivering(r)'
      BY <1>u, <3>2 DEF Delivering, Notifiers
    <3>3. result[r] = "unset" /\ ~Left(r)'
      BY SMT, <1>u, <2>0, <3>2, <3>d DEF Account, Wins, Left
    <3>4. Returned(r)' = 0 /\ Inside(r)' = 0 /\ One(Left(r))' = 0
      BY SMT, <1>u, <3>2, <3>3 DEF Returned, Inside, Holds, One
    <3>5. Shares(r)'
      <4>1. delivered'[r] = 0
        BY <1>u, <3>2
      <4> QED BY SMT, <1>b, <3>1, <3>4, <3>d, <4>1 DEF Shares
    <3>6. Wins(r)' /\ Timed(r)' /\ Gone(r)'
      BY SMT, <1>u, <2>0, <3>1, <3>2, <3>3 DEF Account, Wins, Timed, Gone, Delivering, Notifiers
    <3>7. Aside(r)'
      BY <3>1 DEF Aside
    <3>8. Places(r)'
      BY <1>u, <3>1, <3>2, <3>7 DEF Places, Queued
    <3>9. Called(r)'
      BY SMT, <1>q, <1>u, <2>3, <3>0, <3>1, <3>2, <3>7, SessionParts DEF Called
    <3> QED BY <2>1, <3>5, <3>6, <3>8, <3>9 DEF Account
  <2> QED BY <2>2, <2>3
<1>3. \A d \in Callers : Invoked(d)'
  <2> SUFFICES ASSUME NEW d \in Callers PROVE Invoked(d)'
    OBVIOUS
  <2>1. Invoked(d) /\ ~callback[Mine(c)]
    BY <1>q, <1>a DEF IInv, Account, Called, Places
  <2>2. (\A r \in Sessions : r[1] = d => ~callback'[r]) => (\A r \in Sessions : r[1] = d => ~callback[r])
    BY <1>0, <1>a, <2>1 DEF TypeOK
  <2> QED BY <1>0, <1>a, <1>u, <2>1, <2>2 DEF Invoked, TypeOK
<1>4. ThreadsPlaced'
  BY <1>u DEF IInv, ThreadsPlaced
<1>5. Order'
  BY <1>u DEF IInv, Order, Queued
<1>6. DanglesOnlyLate'
  <2>1. ~callback[Mine(c)]
    BY <1>q, <1>a DEF Account, Called, Places
  <2>2. \A use \in dangling : use[2] \in Sessions
    BY SMT, <1>0 DEF TypeOK
  <2>3. \A use \in dangling : callback'[use[2]]
    BY SMT, <1>0, Domains, <1>a, <2>1, <2>2 DEF IInv, DanglesOnlyLate
  <2> QED BY <1>u, <2>3 DEF IInv, DanglesOnlyLate
<1> QED BY <1>1, <1>2, <1>3, <1>4, <1>5, <1>6 DEF IInv

\* prepareRead claims a slot of the queue for the session.
LEMMA Send_prepareRead ==
  ASSUME IInv, NEW c \in Callers, sendInternal_prepareRead(c), Len(_session_info) < QueueCapacity
  PROVE  IInv'
<1>0. TypeOK
  BY DEF IInv
<1>q. Mine(c) \in Sessions /\ Mine(c)[1] = c /\ Mine(c)[2] = attempt[c] /\ Account(Mine(c))
  BY <1>0, MineSession DEF IInv
<1>a. /\ pc[c] = "prepareRead" /\ pc' = [pc EXCEPT ![c] = "fill"]
      /\ Len(_session_info) < QueueCapacity
      /\ _session_info' = Append(_session_info, Mine(c))
      /\ overlap' = (overlap \/ Pushing # {})
  BY SMT DEF sendInternal_prepareRead, Step
<1>u. UNCHANGED <<attempt, _error_code, has_callback, mem, owners, callback, result, timer,
        _session_map, older, todo, wire, socket, published, at, cur, delivered, invoked,
        expired, unsent, dangling>>
  BY SMT DEF sendInternal_prepareRead, call, heap, reader, commit, thread, history
<1>b. /\ _session_info' \in Seq(Sessions) /\ Len(_session_info) \in Nat
      /\ Len(_session_info') = Len(_session_info) + 1
      /\ Len(_session_info') <= QueueCapacity
      /\ _session_info'[Len(_session_info) + 1] = Mine(c)
      /\ \A n \in 1..Len(_session_info) : _session_info'[n] = _session_info[n]
      /\ Queued' = Queued \cup {Mine(c)}
  <2>1. _session_info \in Seq(Sessions) /\ Len(_session_info) \in Nat
    BY SMT, <1>0 DEF TypeOK
  <2>2. /\ _session_info' \in Seq(Sessions)
        /\ Len(_session_info') = Len(_session_info) + 1
        /\ _session_info'[Len(_session_info) + 1] = Mine(c)
        /\ \A n \in 1..Len(_session_info) : _session_info'[n] = _session_info[n]
    BY SMT, <1>q, <1>a, <2>1
  <2>3. Queued' = Queued \cup {Mine(c)}
    BY SMT, <2>1, <2>2 DEF Queued
  <2> QED BY SMT, <1>a, <2>1, <2>2, <2>3, QueueAssumption
<1>1. TypeOK'
  <2>1. pc' \in [Callers -> CallAt]
    BY <1>0, <1>a DEF TypeOK, CallAt
  <2>2. _session_info' \in Seq(Sessions) /\ Len(_session_info') <= QueueCapacity
    BY <1>b, QueueAssumption
  <2>3. overlap' \in BOOLEAN
    BY <1>a
  <2> QED BY <1>0, <1>u, <2>1, <2>2, <2>3 DEF TypeOK
<1>2. ASSUME NEW r \in Sessions PROVE Account(r)'
  <2>0. Account(r)
    BY DEF IInv
  <2>1. Callback(r)'
    BY <1>u, <2>0 DEF Account, Callback
  <2>2. CASE r # Mine(c)
    <3>1. /\ attempt'[r[1]] = attempt[r[1]] /\ (r[2] = attempt[r[1]] => pc'[r[1]] = pc[r[1]])
          /\ Past(r)' <=> Past(r)
          /\ Preparing(r)' <=> Preparing(r)
      BY <1>0, <1>a, <1>u, <2>2, OtherSession
    <3>2. Same(r)
      BY <1>b, <1>u, <2>2, <3>1 DEF Same
    <3> QED BY <1>u, <2>0, <2>1, <3>1, <3>2, SameAccount, SameCalled DEF Account
  <2>3. CASE r = Mine(c)
    <3>1. /\ mem[r] = "live" /\ Preparing(r) /\ Aside(r) /\ owners[r] = AddShared(NoBits)
          /\ timer[r] = "none" /\ delivered[r] = 0
          /\ r \notin wire \cup _session_map \cup Queued \cup expired \cup unsent
          /\ cur["OnRead"] # r /\ cur["Timeout"] # r
      BY <1>q, <1>a, <2>0, <2>3 DEF Account, Called, Places, Aside, Preparing
    <3>2. owners[r].exclusive = 0 /\ result[r] = "unset" /\ ~Preparing(r)' /\ r[1] = c /\ r[2] \in Int
      <4>1. owners[r].exclusive = 0
        BY SMT, <3>1 DEF AddShared, NoBits
      <4>2. result[r] = "unset"
        <5>1. Wins(r)
          BY <2>0 DEF Account
        <5>2. delivered[r] # 1
          BY SMT, <3>1
        <5> QED BY <5>1, <5>2 DEF Wins
      <4>3. pc'[r[1]] # "prepareRead" /\ r[1] = c /\ r[2] \in Int
        BY SMT, <1>0, Domains, <1>q, <1>a, <2>3, SessionParts
      <4> QED BY <4>1, <4>2, <4>3 DEF Preparing
    <3>3. Wins(r)' /\ Timed(r)'
      BY <1>u, <2>0 DEF Account, Wins, Timed, Delivering
    <3>4. ~Left(r)' /\ ~Left(r) /\ Returned(r)' = Returned(r) /\ Inside(r)' = Inside(r)
      BY <1>u, <3>2 DEF Left, Returned, Inside, Holds, One
    <3>5. Shares(r)'
      BY <1>0, <1>a, <1>u, <2>0, <2>3, <3>1, <3>4 DEF TypeOK, Account, Shares, Delivering, One
    <3>6. Gone(r)'
      <4>1. owners'[r].exclusive # 1
        BY SMT, <1>u, <3>2
      <4> QED BY <4>1 DEF Gone
    <3>7. attempt'[r[1]] = r[2] /\ pc'[r[1]] = "fill"
      BY <1>0, <1>q, <1>a, <1>u, <2>3, <3>2 DEF TypeOK
    <3>8. ~Aside(r)' /\ ~Past(r)' /\ r \in Queued'
      BY <1>b, <1>u, <2>3, <3>1, <3>2, <3>7 DEF Aside, Past
    <3>9. Places(r)'
      BY <1>u, <3>1, <3>2, <3>8 DEF Places
    <3>10. Called(r)'
      BY <1>u, <2>0, <3>1, <3>2, <3>7, <3>8 DEF Account, Called
    <3> QED BY <2>1, <3>3, <3>5, <3>6, <3>9, <3>10 DEF Account
  <2> QED BY <2>2, <2>3
<1>3. \A d \in Callers : Invoked(d)'
  BY <1>0, <1>a, <1>u DEF IInv, Invoked, TypeOK
<1>4. ThreadsPlaced'
  BY <1>u DEF IInv, ThreadsPlaced
<1>5. Order'
  <2>1. Mine(c) \notin Queued
    BY <1>q, <1>a DEF Account, Places, Aside, Preparing
  <2>2. \A n \in 1..Len(_session_info) : _session_info[n] # Mine(c)
    BY <2>1 DEF Queued
  <2>3. at["OnRead"] = "pop" => cur["OnRead"] # Mine(c)
    BY <1>q, <1>a DEF Account, Places, Aside, Preparing
  <2>4. \A m \in 1..Len(_session_info') : m \in 1..Len(_session_info) \/ m = Len(_session_info) + 1
    BY SMT, <1>b
  <2>5. \A m, n \in 1..Len(_session_info') : _session_info'[m] = _session_info'[n] => m = n
    BY <1>b, <2>2, <2>4 DEF IInv, Order
  <2>6. at["OnRead"] = "pop" => \A m, n \in 1..Len(_session_info') :
            m < n /\ _session_info'[n] = cur["OnRead"] => _session_info'[m] \in older
    BY SMT, <1>b, <2>3, <2>4 DEF IInv, Order
  <2> QED BY <1>b, <1>u, <2>3, <2>5, <2>6 DEF IInv, Order
<1>6. DanglesOnlyLate'
  BY <1>u DEF IInv, DanglesOnlyLate
<1> QED BY <1>1, <1>2, <1>3, <1>4, <1>5, <1>6 DEF IInv

\* The slot is filled, or one more slot is published: the caller alone moves.
LEMMA Send_push ==
  ASSUME IInv, NEW c \in Callers, sendInternal_fill(c) \/ sendInternal_publish(c)
  PROVE  IInv'
<1>0. TypeOK
  BY DEF IInv
<1>q. Mine(c) \in Sessions /\ Mine(c)[1] = c /\ Mine(c)[2] = attempt[c] /\ Account(Mine(c))
  BY <1>0, MineSession DEF IInv
<1>a. /\ pc[c] \in {"fill", "publish"}
      /\ \E x \in {"publish", "addTimeschdule"} : pc' = [pc EXCEPT ![c] = x]
  BY DEF sendInternal_fill, sendInternal_publish, Step
<1>b. published' \in Nat
  BY SMT, <1>0 DEF sendInternal_fill, sendInternal_publish, reader, commit, TypeOK
<1>u. UNCHANGED <<attempt, _error_code, has_callback, mem, owners, callback, result, timer,
        _session_info, _session_map, older, todo, wire, socket, overlap, at, cur,
        delivered, invoked, expired, unsent, dangling>>
  BY DEF sendInternal_fill, sendInternal_publish, call, heap, reader, commit, thread, history
<1>1. TypeOK'
  <2>1. pc' \in [Callers -> CallAt]
    BY <1>0, <1>a DEF TypeOK, CallAt
  <2> QED BY <1>0, <1>b, <1>u, <2>1 DEF TypeOK
<1>2. ASSUME NEW r \in Sessions PROVE Account(r)'
  <2>0. Account(r)
    BY DEF IInv
  <2>1. Callback(r)'
    BY <1>u, <2>0 DEF Account, Callback
  <2>2. CASE r # Mine(c)
    <3>1. /\ attempt'[r[1]] = attempt[r[1]] /\ (r[2] = attempt[r[1]] => pc'[r[1]] = pc[r[1]])
          /\ Past(r)' <=> Past(r)
          /\ Preparing(r)' <=> Preparing(r)
      BY <1>0, <1>a, <1>u, <2>2, OtherSession
    <3>2. Same(r)
      BY <1>q, <1>a, <1>u, <2>2, <3>1 DEF Same, Queued
    <3>3. timer'[r] = timer[r]
      BY <1>0, <1>q, <1>a, <1>u, <2>2 DEF TypeOK
    <3> QED BY <2>0, <2>1, <3>1, <3>2, <3>3, SameAccount, SameCalled DEF Account
  <2>3. CASE r = Mine(c)
    <3>0. /\ r[1] = c /\ attempt'[r[1]] = attempt[r[1]]
          /\ pc[r[1]] \in {"fill", "publish"} /\ pc'[r[1]] \in {"publish", "addTimeschdule"}
      BY <1>0, <1>q, <1>a, <1>u, <2>3 DEF TypeOK
    <3>1. ~Past(r) /\ ~Past(r)' /\ ~Preparing(r) /\ ~Preparing(r)'
      BY <1>q, <1>u, <2>3, <3>0 DEF Past, Preparing
    <3>2. Same(r)
      BY <1>a, <1>u, <3>1 DEF Same, Queued
    <3>3. Shares(r)' /\ Wins(r)' /\ Gone(r)' /\ Places(r)' /\ Timed(r)' /\ (Aside(r)' <=> Aside(r))
      BY <2>0, <3>2, SameAccount
    <3>4. Called(r)'
      BY <1>q, <1>u, <2>0, <2>3, <3>0, <3>1, <3>3 DEF Account, Called
    <3> QED BY <2>1, <3>3, <3>4 DEF Account
  <2> QED BY <2>2, <2>3
<1>3. \A d \in Callers : Invoked(d)'
  BY <1>0, <1>a, <1>u DEF IInv, Invoked, TypeOK
<1>4. ThreadsPlaced'
  BY <1>u DEF IInv, ThreadsPlaced
<1>5. Order'
  BY <1>u DEF IInv, Order, Queued
<1>6. DanglesOnlyLate'
  BY <1>u DEF IInv, DanglesOnlyLate
<1> QED BY <1>1, <1>2, <1>3, <1>4, <1>5, <1>6 DEF IInv

\* prepareRead fails because the queue is full, and the session is freed.
LEMMA Send_busy ==
  ASSUME IInv, NEW c \in Callers, sendInternal_prepareRead(c), ~(Len(_session_info) < QueueCapacity)
  PROVE  IInv'
<1>0. TypeOK
  BY DEF IInv
<1>q. Mine(c) \in Sessions /\ Mine(c)[1] = c /\ Mine(c)[2] = attempt[c] /\ Account(Mine(c))
  BY <1>0, MineSession DEF IInv
<1>a. /\ pc[c] = "prepareRead" /\ pc' = [pc EXCEPT ![c] = "attempted"]
      /\ mem' = [mem EXCEPT ![Mine(c)] = "freed"]
      /\ _error_code' = [_error_code EXCEPT ![c] = "SOCKET_BUSY"]
  BY DEF sendInternal_prepareRead, Step
<1>u. UNCHANGED <<attempt, has_callback, owners, callback, result, timer, _session_info,
        _session_map, older, todo, wire, socket, published, overlap, at, cur, delivered, invoked,
        expired, unsent, dangling>>
  BY DEF sendInternal_prepareRead, call, heap, reader, commit, thread, history
<1>1. TypeOK'
  <2>1. pc' \in [Callers -> CallAt]
    BY <1>0, <1>a DEF TypeOK, CallAt
  <2>2. _error_code' \in [Callers -> Errors]
    BY <1>0, <1>a DEF TypeOK, Errors
  <2>3. mem' \in [Sessions -> {"unborn", "live", "freed"}]
    BY <1>0, <1>a DEF TypeOK
  <2> QED BY <1>0, <1>u, <2>1, <2>2, <2>3 DEF TypeOK
<1>2. ASSUME NEW r \in Sessions PROVE Account(r)'
  <2>0. Account(r)
    BY DEF IInv
  <2>1. Callback(r)'
    BY <1>u, <2>0 DEF Account, Callback
  <2>2. CASE r # Mine(c)
    <3>1. /\ attempt'[r[1]] = attempt[r[1]] /\ (r[2] = attempt[r[1]] => pc'[r[1]] = pc[r[1]])
          /\ Past(r)' <=> Past(r)
          /\ Preparing(r)' <=> Preparing(r)
      BY <1>0, <1>a, <1>u, <2>2, OtherSession
    <3>2. Same(r)
      BY SMT, <1>0, Domains, <1>q, <1>a, <1>u, <2>2, <3>1 DEF Same, Queued
    <3>3. timer'[r] = timer[r]
      BY <1>0, <1>q, <1>a, <1>u, <2>2 DEF TypeOK
    <3> QED BY <2>0, <2>1, <3>1, <3>2, <3>3, SameAccount, SameCalled DEF Account
  <2>3. CASE r = Mine(c)
    <3>1. /\ mem[r] = "live" /\ Preparing(r) /\ Aside(r) /\ owners[r] = AddShared(NoBits)
          /\ timer[r] = "none" /\ delivered[r] = 0
          /\ r \notin wire \cup _session_map \cup Queued \cup expired \cup unsent
          /\ cur["OnRead"] # r /\ cur["Timeout"] # r
      BY <1>q, <1>a, <2>0, <2>3 DEF Account, Called, Places, Aside, Preparing
    <3>2. owners[r].exclusive = 0 /\ result[r] = "unset" /\ ~Preparing(r)' /\ r[1] = c /\ r[2] \in Int
      <4>1. owners[r].exclusive = 0
        BY SMT, <3>1 DEF AddShared, NoBits
      <4>2. result[r] = "unset"
        <5>1. Wins(r)
          BY <2>0 DEF Account
        <5>2. delivered[r] # 1
          BY SMT, <3>1
        <5> QED BY <5>1, <5>2 DEF Wins
      <4>3. pc'[r[1]] # "prepareRead" /\ r[1] = c /\ r[2] \in Int
        BY SMT, <1>0, Domains, <1>q, <1>a, <2>3, SessionParts
      <4> QED BY <4>1, <4>2, <4>3 DEF Preparing
    <3>3. Wins(r)' /\ Timed(r)'
      BY <1>u, <2>0 DEF Account, Wins, Timed, Delivering
    <3>4. ~Left(r)' /\ ~Left(r) /\ Returned(r)' = Returned(r) /\ Inside(r)' = Inside(r)
      BY <1>u, <3>2 DEF Left, Returned, Inside, Holds, One
    <3>5. Shares(r)'
      BY <1>0, <1>a, <1>u, <2>0, <2>3, <3>1, <3>4 DEF TypeOK, Account, Shares, Delivering, One
    <3>6. Gone(r)'
      <4>1. owners'[r].exclusive # 1
        BY SMT, <1>u, <3>2
      <4> QED BY <4>1 DEF Gone
    <3>7. attempt'[r[1]] = r[2] /\ pc'[r[1]] = "attempted"
      BY <1>0, <1>q, <1>a, <1>u, <2>3, <3>2 DEF TypeOK
    <3>8. Aside(r)' /\ mem'[r] = "freed" /\ r \in Sessions
      BY <1>0, <1>a, <1>u, <2>3, <3>2 DEF Aside, TypeOK
    <3>9. Places(r)'
      BY <1>u, <3>1, <3>2, <3>8 DEF Places, Queued
    <3>10. Called(r)'
      BY <1>u, <2>0, <3>1, <3>2, <3>7, <3>8 DEF Account, Called
    <3> QED BY <2>1, <3>3, <3>5, <3>6, <3>9, <3>10 DEF Account
  <2> QED BY <2>2, <2>3
<1>3. \A d \in Callers : Invoked(d)'
  BY <1>0, <1>a, <1>u DEF IInv, Invoked, TypeOK
<1>4. ThreadsPlaced'
  BY <1>u DEF IInv, ThreadsPlaced
<1>5. Order'
  BY <1>u DEF IInv, Order, Queued
<1>6. DanglesOnlyLate'
  BY <1>u DEF IInv, DanglesOnlyLate
<1> QED BY <1>1, <1>2, <1>3, <1>4, <1>5, <1>6 DEF IInv

\* The winner of the race runs the callback.
LEMMA Notify_callback ==
  ASSUME IInv, NEW t \in Notifiers, notify_deliver(t), callback[cur[t]]
  PROVE  IInv'
<1>0. TypeOK
  BY DEF IInv
<1>q. /\ cur[t] \in Sessions /\ cur[t] # NoSession /\ ~Aside(cur[t])
      /\ mem[cur[t]] # "freed" /\ cur[t][1] \in Callers
  BY OnSession, SessionParts DEF notify_deliver
<1>a. /\ at[t] = "deliver" /\ at' = [at EXCEPT ![t] = "release"]
      /\ delivered' = [delivered EXCEPT ![cur[t]] = @ + 1]
      /\ invoked' = [invoked EXCEPT ![cur[t][1]] = @ + 1]
      /\ Use(t, cur[t])
  BY DEF notify_deliver, Move
<1>u. UNCHANGED <<pc, attempt, _error_code, has_callback, mem, owners, callback, result, timer,
        _session_info, _session_map, older, todo, wire, socket, published, overlap, cur, expired,
        unsent>>
  BY DEF notify_deliver, call, reader, commit
<1>b. Account(cur[t]) /\ Delivering(cur[t])
  BY <1>q, <1>a DEF IInv, Delivering
<1>c. delivered[cur[t]] = 0 /\ result[cur[t]] = "unset"
  BY <1>b DEF Account, Wins
<1>d. /\ delivered'[cur[t]] = 1
      /\ \A r \in Sessions : r # cur[t] => delivered'[r] = delivered[r]
      /\ \A c \in Callers : invoked'[c] = IF c = cur[t][1] THEN invoked[c] + 1 ELSE invoked[c]
  BY SMT, <1>0, Domains, <1>q, <1>a, <1>c
<1>1. TypeOK'
  <2>1. at' \in [Notifiers -> ThreadAt]
    BY <1>0, <1>a DEF TypeOK, ThreadAt, AfterNotify
  <2>2. dangling' \subseteq (Callers \cup Notifiers) \X Sessions
    BY <1>0, <1>q, <1>a DEF TypeOK, Use
  <2>3. delivered' \in [Sessions -> Nat]
    BY SMT, <1>0, <1>q, <1>a DEF TypeOK
  <2>4. invoked' \in [Callers -> Nat]
    BY SMT, <1>0, <1>q, <1>a DEF TypeOK
  <2> QED BY <1>0, <1>u, <2>1, <2>2, <2>3, <2>4 DEF TypeOK
<1>2. ASSUME NEW r \in Sessions PROVE Account(r)'
  <2>0. Account(r) /\ Account(cur[t])
    BY <1>q DEF IInv
  <2>a. /\ Returned(r)' = Returned(r) /\ (Preparing(r)' <=> Preparing(r)) /\ (Aside(r)' <=> Aside(r))
        /\ Past(r)' <=> Past(r)
    BY <1>u DEF Returned, Aside, Preparing, Past
  <2>b. Inside(r)' = Inside(r)
    BY <1>0, <1>q, <1>a, <1>u DEF TypeOK, Inside, Holds, One, Notifiers, AfterNotify
  <2>c. /\ ~Delivering(cur[t])'
        /\ r # cur[t] => (Delivering(r)' <=> Delivering(r))
    <3>1. \A s \in Notifiers : s # t => ~(cur[s] = cur[t] /\ at[s] = "deliver")
      BY <1>a, <1>b DEF Account, Wins, Notifiers
    <3> QED BY <1>0, <1>q, <1>a, <1>u, <3>1 DEF TypeOK, Delivering, AfterNotify
  <2>d. One(Left(r))' = One(Left(r))
    BY <1>u, <2>a DEF Left, One
  <2>e. Returned(r) \in Int /\ Inside(r) \in Int /\ One(Left(r)) \in Int
    BY CountsInt
  <2>1. Shares(r)'
    <3>1. CASE r = cur[t]
      BY <1>b, <1>d, <1>u, <2>0, <2>a, <2>b, <2>c, <2>d, <2>e, <3>1 DEF Account, Shares
    <3>2. CASE r # cur[t]
      BY <1>d, <1>u, <2>0, <2>a, <2>b, <2>c, <2>d, <2>e, <3>2 DEF Account, Shares
    <3> QED BY <3>1, <3>2
  <2>2. Wins(r)'
    BY ZenonT(40), <1>d, <1>u, <2>0, <2>c DEF Account, Wins, Delivering
  <2>3. Gone(r)'
    <3>1. \A s \in Notifiers : s # t => at'[s] = at[s]
      BY <1>0, <1>a, Domains
    <3>2. Gone(r)
      BY <2>0 DEF Account
    <3> QED BY <1>q, <1>d, <1>u, <2>a, <3>1, <3>2 DEF Gone
  <2>4. Places(r)'
    <3>1. Queued' = Queued
      BY <1>u DEF Queued
    <3>2. Aside(r) => delivered'[r] = delivered[r]
      BY SMT, <1>q, <1>d
    <3> QED BY <1>u, <2>0, <2>a, <3>1, <3>2 DEF Account, Places
  <2>5. Called(r)'
    BY <1>q, <1>d, <1>u, <2>0, <2>a DEF Account, Called
  <2>6. Timed(r)'
    BY <1>u, <2>0 DEF Account, Timed
  <2>7. Callback(r)'
    <3>1. Callback(cur[t]) /\ Callback(r) /\ r[1] \in Callers
      BY <1>b, <2>0, SessionParts DEF Account
    <3>2. callback[r] /\ r[1] = cur[t][1] => r = cur[t]
      BY <1>q, <3>1 DEF Callback
    <3>3. callback[r] => invoked'[r[1]] = delivered'[r]
      BY SMT, <1>c, <1>d, <3>1, <3>2 DEF Callback
    <3> QED BY <1>u, <3>1, <3>3 DEF Callback
  <2> QED BY <2>1, <2>2, <2>3, <2>4, <2>5, <2>6, <2>7 DEF Account
<1>3. \A c \in Callers : Invoked(c)'
  <2> SUFFICES ASSUME NEW c \in Callers PROVE Invoked(c)'
    OBVIOUS
  <2>1. Invoked(c) /\ Callback(cur[t])
    BY <1>b DEF IInv, Account
  <2>2. c = cur[t][1] => invoked'[c] = 1 /\ ~has_callback[c]
    BY SMT, <1>c, <1>d, <2>1 DEF Callback
  <2>3. c # cur[t][1] => invoked'[c] = invoked[c]
    BY <1>d
  <2> QED BY <1>q, <1>u, <2>1, <2>2, <2>3 DEF Invoked
<1>4. ThreadsPlaced'
  BY <1>0, <1>q, <1>a, <1>u DEF IInv, ThreadsPlaced, TypeOK, Notifiers, AfterNotify
<1>5. Order'
  <2>1. at'["OnRead"] \in {"pop", "find"} => at["OnRead"] = at'["OnRead"]
    BY <1>0, <1>a DEF TypeOK, Notifiers, AfterNotify
  <2> QED BY <1>u, <2>1 DEF IInv, Order, Queued
<1>6. DanglesOnlyLate'
  BY <1>q, <1>a, <1>u DEF IInv, DanglesOnlyLate, Use
<1> QED BY <1>1, <1>2, <1>3, <1>4, <1>5, <1>6 DEF IInv

\* The winner of the race sets the promise and leaves its share to the caller.
LEMMA Notify_promise ==
  ASSUME IInv, NEW t \in Notifiers, notify_deliver(t), ~callback[cur[t]]
  PROVE  IInv'
<1>0. TypeOK
  BY DEF IInv
<1>q. /\ cur[t] \in Sessions /\ cur[t] # NoSession /\ ~Aside(cur[t])
      /\ mem[cur[t]] # "freed" /\ cur[t][1] \in Callers
  BY OnSession, SessionParts DEF notify_deliver
<1>a. /\ at[t] = "deliver" /\ at' = [at EXCEPT ![t] = AfterNotify(t)]
      /\ delivered' = [delivered EXCEPT ![cur[t]] = @ + 1]
      /\ result' = [result EXCEPT ![cur[t]] = IF t = "OnRead" THEN "SESSION_OK" ELSE "READ_TIMEOUT"]
      /\ Use(t, cur[t])
  BY DEF notify_deliver, Move
<1>u. UNCHANGED <<pc, attempt, _error_code, has_callback, mem, owners, callback, timer,
        _session_info, _session_map, older, todo, wire, socket, published, overlap, cur, invoked,
        expired, unsent>>
  BY DEF notify_deliver, call, reader, commit
<1>b. Account(cur[t]) /\ Delivering(cur[t])
  BY <1>q, <1>a DEF IInv, Delivering
<1>c. delivered[cur[t]] = 0 /\ result[cur[t]] = "unset"
  BY <1>b DEF Account, Wins
<1>d. /\ delivered'[cur[t]] = 1
      /\ \A r \in Sessions : r # cur[t] => delivered'[r] = delivered[r]
      /\ result'[cur[t]] # "unset"
      /\ \A r \in Sessions : r # cur[t] => result'[r] = result[r]
  BY SMT, <1>0, Domains, <1>q, <1>a, <1>c
<1>1. TypeOK'
  <2>1. at' \in [Notifiers -> ThreadAt]
    BY <1>0, <1>a DEF TypeOK, ThreadAt, AfterNotify
  <2>2. dangling' \subseteq (Callers \cup Notifiers) \X Sessions
    BY <1>0, <1>q, <1>a DEF TypeOK, Use
  <2>3. delivered' \in [Sessions -> Nat]
    BY SMT, <1>0, <1>q, <1>a DEF TypeOK
  <2>4. result' \in [Sessions -> {"unset", "SESSION_OK", "READ_TIMEOUT"}]
    BY <1>0, <1>q, <1>a DEF TypeOK
  <2> QED BY <1>0, <1>u, <2>1, <2>2, <2>3, <2>4 DEF TypeOK
<1>2. ASSUME NEW r \in Sessions PROVE Account(r)'
  <2>0. Account(r) /\ Account(cur[t])
    BY <1>q DEF IInv
  <2>a. /\ Returned(r)' = Returned(r) /\ (Preparing(r)' <=> Preparing(r)) /\ (Aside(r)' <=> Aside(r))
        /\ Past(r)' <=> Past(r)
    BY <1>u DEF Returned, Aside, Preparing, Past
  <2>b. Inside(r)' = IF r = cur[t] THEN Inside(r) - 1 ELSE Inside(r)
    BY SMT, <1>0, Domains, <1>q, <1>a, <1>u DEF Inside, Holds, One, Notifiers, AfterNotify
  <2>c. /\ ~Delivering(cur[t])'
        /\ r # cur[t] => (Delivering(r)' <=> Delivering(r))
    <3>1. \A s \in Notifiers : s # t => ~(cur[s] = cur[t] /\ at[s] = "deliver")
      BY <1>a, <1>b DEF Account, Wins, Notifiers
    <3> QED BY <1>0, <1>q, <1>a, <1>u, <3>1 DEF TypeOK, Delivering, AfterNotify
  <2>d. /\ r = cur[t] => One(Left(r))' = 1 /\ One(Left(r)) = 0
        /\ r # cur[t] => One(Left(r))' = One(Left(r))
    <3>1. ~Left(cur[t]) /\ (cur[t] \in unsent \/ ~Past(cur[t]))
      BY <1>q, <1>b, <1>c DEF Left, Account, Called
    <3>2. r = cur[t] => Left(r)'
      BY <1>d, <1>u, <2>a, <3>1 DEF Left
    <3>3. r # cur[t] => (Left(r)' <=> Left(r))
      BY <1>d, <1>u, <2>a DEF Left
    <3> QED BY <3>1, <3>2, <3>3 DEF One
  <2>e. Returned(r) \in Int /\ Inside(r) \in Int /\ One(Left(r)) \in Int
    BY CountsInt
  <2>1. Shares(r)'
    <3>1. CASE r = cur[t]
      <4>1. mem' = mem /\ owners' = owners /\ Shares(r)
        BY <1>u, <2>0 DEF Account
      <4>2. 1 - Returned(r)' + Inside(r)' + One(Left(r))' = 1 - Returned(r) + Inside(r) + One(Left(r))
        BY SMT, <2>a, <2>b, <2>d, <2>e, <3>1
      <4> QED BY <1>b, <1>d, <2>c, <3>1, <4>1, <4>2 DEF Shares
    <3>2. CASE r # cur[t]
      BY <1>d, <1>u, <2>0, <2>a, <2>b, <2>c, <2>d, <2>e, <3>2 DEF Account, Shares
    <3> QED BY <3>1, <3>2
  <2>2. Wins(r)'
    BY <1>d, <1>u, <2>0, <2>c DEF Account, Wins, Delivering
  <2>3. Gone(r)'
    <3>1. \A s \in Notifiers : s # t => at'[s] = at[s]
      BY <1>0, <1>a, Domains
    <3>2. Gone(r)
      BY <2>0 DEF Account
    <3> QED BY <1>q, <1>d, <1>u, <2>a, <3>1, <3>2 DEF Gone
  <2>4. Places(r)'
    <3>1. Queued' = Queued
      BY <1>u DEF Queued
    <3>2. Aside(r) => delivered'[r] = delivered[r]
      BY SMT, <1>q, <1>d
    <3> QED BY <1>u, <2>0, <2>a, <3>1, <3>2 DEF Account, Places
  <2>5. Called(r)'
    BY <1>q, <1>d, <1>u, <2>0, <2>a DEF Account, Called
  <2>6. Timed(r)'
    BY <1>u, <2>0 DEF Account, Timed
  <2>7. Callback(r)'
    BY <1>d, <1>u, <2>0 DEF Account, Callback
  <2> QED BY <2>1, <2>2, <2>3, <2>4, <2>5, <2>6, <2>7 DEF Account
<1>3. \A c \in Callers : Invoked(c)'
  BY <1>u DEF IInv, Invoked
<1>4. ThreadsPlaced'
  BY <1>0, <1>q, <1>a, <1>u DEF IInv, ThreadsPlaced, TypeOK, Notifiers, AfterNotify
<1>5. Order'
  <2>1. at'["OnRead"] \in {"pop", "find"} => at["OnRead"] = at'["OnRead"]
    BY <1>0, <1>a DEF TypeOK, Notifiers, AfterNotify
  <2> QED BY <1>u, <2>1 DEF IInv, Order, Queued
<1>6. DanglesOnlyLate'
  BY <1>q, <1>a, <1>u DEF IInv, DanglesOnlyLate, Use
<1> QED BY <1>1, <1>2, <1>3, <1>4, <1>5, <1>6 DEF IInv

\* A call ends, or reports its error.
LEMMA Async_return ==
  ASSUME IInv, NEW c \in Callers, async_return(c)
  PROVE  IInv'
<1>0. TypeOK
  BY DEF IInv
<1>q. Mine(c) \in Sessions /\ Mine(c)[1] = c /\ Mine(c)[2] = attempt[c] /\ Account(Mine(c))
  BY <1>0, MineSession DEF IInv
<1>a. /\ pc[c] = "return" /\ \E x \in {"done", "threw"} : pc' = [pc EXCEPT ![c] = x]
      /\ \/ invoked' = [invoked EXCEPT ![c] = @]
         \/ /\ has_callback[c] /\ invoked' = [invoked EXCEPT ![c] = @ + 1]
            /\ pc' = [pc EXCEPT ![c] = "done"]
  BY DEF async_return, Step
<1>u. UNCHANGED <<attempt, _error_code, has_callback, mem, owners, callback, result, timer,
        _session_info, _session_map, older, todo, wire, socket, published, overlap, at, cur,
        delivered, expired, unsent, dangling>>
  BY DEF async_return, call, heap, reader, commit, thread, history
<1>1. TypeOK'
  <2>1. pc' \in [Callers -> CallAt]
    BY SMT, <1>0, <1>a DEF TypeOK, CallAt
  <2>2. invoked' \in [Callers -> Nat]
    BY SMT, <1>0, <1>a DEF TypeOK
  <2> QED BY <1>0, <1>u, <2>1, <2>2 DEF TypeOK
<1>2. ASSUME NEW r \in Sessions PROVE Account(r)'
  <2>0. Account(r)
    BY DEF IInv
  <2>1. Callback(r)'
    <3>1. r[1] \in Callers /\ Callback(r)
      BY <2>0, SessionParts DEF Account
    <3>2. callback[r] => invoked'[r[1]] = invoked[r[1]]
      BY SMT, <1>0, Domains, <1>a, <3>1 DEF Callback
    <3> QED BY <1>u, <3>1, <3>2 DEF Callback
  <2>2. CASE r # Mine(c)
    <3>1. /\ attempt'[r[1]] = attempt[r[1]] /\ (r[2] = attempt[r[1]] => pc'[r[1]] = pc[r[1]])
          /\ Past(r)' <=> Past(r)
          /\ Preparing(r)' <=> Preparing(r)
      BY ZenonT(40), <1>0, <1>a, <1>u, <2>2, OtherSession
    <3>2. Same(r)
      BY <1>u, <3>1 DEF Same, Queued
    <3> QED BY <1>u, <2>0, <2>1, <3>1, <3>2, SameAccount, SameCalled DEF Account
  <2>3. CASE r = Mine(c)
    <3>0. /\ r[1] = c /\ pc[r[1]] = "return" /\ pc'[r[1]] \in {"done", "threw"}
          /\ attempt'[r[1]] = attempt[r[1]]
      BY SMT, <1>0, Domains, <1>q, <1>a, <1>u, <2>3
    <3>1. Past(r) /\ Past(r)' /\ ~Preparing(r) /\ ~Preparing(r)'
      BY <1>q, <1>u, <2>3, <3>0 DEF Past, Preparing
    <3>2. Same(r)
      BY <1>u, <3>1 DEF Same, Queued
    <3>3. Shares(r)' /\ Wins(r)' /\ Gone(r)' /\ Places(r)' /\ Timed(r)' /\ (Aside(r)' <=> Aside(r))
      BY <2>0, <3>2, SameAccount
    <3>4. Called(r)'
      BY <1>q, <1>u, <2>0, <2>3, <3>0, <3>1, <3>3 DEF Account, Called
    <3> QED BY <2>1, <3>3, <3>4 DEF Account
  <2> QED BY <2>2, <2>3
<1>3. \A d \in Callers : Invoked(d)'
  <2> SUFFICES ASSUME NEW d \in Callers PROVE Invoked(d)'
    OBVIOUS
  <2>1. Invoked(d)
    BY DEF IInv
  <2>2. CASE d # c
    <3>1. invoked'[d] = invoked[d] /\ pc'[d] = pc[d]
      BY <1>0, <1>a, <2>2 DEF TypeOK
    <3> QED BY <1>u, <2>1, <3>1 DEF Invoked
  <2>3. CASE d = c
    <3>1. has_callback[c] => invoked[c] = 0
      BY <1>a, <2>1, <2>3 DEF Invoked
    <3>2. invoked'[c] = invoked[c] \/ (invoked'[c] = 1 /\ pc'[c] = "done")
      BY SMT, <1>0, Domains, <1>a, <3>1
    <3> QED BY <1>a, <1>u, <2>1, <2>3, <3>2 DEF Invoked
  <2> QED BY <2>2, <2>3
<1>4. ThreadsPlaced'
  BY <1>u DEF IInv, ThreadsPlaced
<1>5. Order'
  BY <1>u DEF IInv, Order, Queued
<1>6. DanglesOnlyLate'
  BY <1>u DEF IInv, DanglesOnlyLate
<1> QED BY <1>1, <1>2, <1>3, <1>4, <1>5, <1>6 DEF IInv

\* A call that needs no retry, or has none left, returns.
LEMMA Retry_none ==
  ASSUME IInv, NEW c \in Callers, sendInternalWithRetry(c), pc'[c] # "begin"
  PROVE  IInv'
<1>0. TypeOK
  BY DEF IInv
<1>q. Mine(c) \in Sessions /\ Mine(c)[1] = c /\ Mine(c)[2] = attempt[c] /\ Account(Mine(c))
  BY <1>0, MineSession DEF IInv
<1>a. /\ pc[c] = "attempted" /\ pc' = [pc EXCEPT ![c] = "return"]
  BY <1>0 DEF sendInternalWithRetry, Step, TypeOK
<1>u. UNCHANGED <<attempt, _error_code, has_callback, mem, owners, callback, result, timer,
        _session_info, _session_map, older, todo, wire, socket, published, overlap, at, cur,
        delivered, invoked, expired, unsent, dangling>>
  BY <1>0 DEF TypeOK, Step, sendInternalWithRetry, call, heap, reader, commit, thread, history
<1>1. TypeOK'
  <2>1. pc' \in [Callers -> CallAt]
    BY <1>0, <1>a DEF TypeOK, CallAt
  <2> QED BY <1>0, <1>u, <2>1 DEF TypeOK
<1>2. ASSUME NEW r \in Sessions PROVE Account(r)'
  <2>0. Account(r)
    BY DEF IInv
  <2>1. Callback(r)'
    BY <1>u, <2>0 DEF Account, Callback
  <2>2. CASE r # Mine(c)
    <3>1. /\ attempt'[r[1]] = attempt[r[1]] /\ (r[2] = attempt[r[1]] => pc'[r[1]] = pc[r[1]])
          /\ Past(r)' <=> Past(r)
          /\ Preparing(r)' <=> Preparing(r)
      BY ZenonT(40), <1>0, <1>a, <1>u, <2>2, OtherSession
    <3>2. Same(r)
      BY <1>u, <3>1 DEF Same, Queued
    <3> QED BY <1>u, <2>0, <2>1, <3>1, <3>2, SameAccount, SameCalled DEF Account
  <2>3. CASE r = Mine(c)
    <3>0. /\ r[1] = c /\ pc[r[1]] = "attempted" /\ pc'[r[1]] = "return"
          /\ attempt'[r[1]] = attempt[r[1]]
      BY <1>0, <1>q, <1>a, <1>u, <2>3 DEF TypeOK
    <3>1. Past(r) /\ Past(r)' /\ ~Preparing(r) /\ ~Preparing(r)'
      BY <1>q, <1>u, <2>3, <3>0 DEF Past, Preparing
    <3>2. Same(r)
      BY <1>u, <3>1 DEF Same, Queued
    <3>3. Shares(r)' /\ Wins(r)' /\ Gone(r)' /\ Places(r)' /\ Timed(r)' /\ (Aside(r)' <=> Aside(r))
      BY <2>0, <3>2, SameAccount
    <3>4. Called(r)'
      BY <1>q, <1>u, <2>0, <2>3, <3>0, <3>1, <3>3 DEF Account, Called
    <3> QED BY <2>1, <3>3, <3>4 DEF Account
  <2> QED BY <2>2, <2>3
<1>3. \A d \in Callers : Invoked(d)'
  BY <1>0, <1>a, <1>u DEF IInv, Invoked, TypeOK
<1>4. ThreadsPlaced'
  BY <1>u DEF IInv, ThreadsPlaced
<1>5. Order'
  BY <1>u DEF IInv, Order, Queued
<1>6. DanglesOnlyLate'
  BY <1>u DEF IInv, DanglesOnlyLate
<1> QED BY <1>1, <1>2, <1>3, <1>4, <1>5, <1>6 DEF IInv

\* A further attempt begins: the next session of the caller is not made yet.
LEMMA Retry_again ==
  ASSUME IInv, NEW c \in Callers, sendInternalWithRetry(c), pc'[c] = "begin"
  PROVE  IInv'
<1>0. TypeOK
  BY DEF IInv
<1>a. /\ pc[c] = "attempted" /\ pc' = [pc EXCEPT ![c] = "begin"]
      /\ attempt[c] < Retry[c] /\ attempt' = [attempt EXCEPT ![c] = @ + 1]
      /\ _error_code' = [_error_code EXCEPT ![c] = "SESSION_OK"]
  BY <1>0 DEF sendInternalWithRetry, Step, TypeOK
<1>u. UNCHANGED <<has_callback, mem, owners, callback, result, timer, _session_info, _session_map,
        older, todo, wire, socket, published, overlap, at, cur, delivered, invoked, expired,
        unsent, dangling>>
  BY DEF sendInternalWithRetry, call, heap, reader, commit, thread, history
<1>1. TypeOK'
  <2>1. pc' \in [Callers -> CallAt]
    BY <1>0, <1>a DEF TypeOK, CallAt
  <2>2. _error_code' \in [Callers -> Errors]
    BY <1>0, <1>a DEF TypeOK, Errors
  <2>3. /\ attempt' \in [Callers -> Nat] /\ \A d \in Callers : attempt'[d] \in 1..Retry[d]
    <3>1. attempt \in [Callers -> Nat] /\ attempt' \in [Callers -> Nat]
      BY SMT, <1>0, <1>a DEF TypeOK
    <3>2. \A d \in Callers : Retry[d] \in Nat
      BY RetryAssumption
    <3>3. \A d \in Callers : attempt'[d] = IF d = c THEN attempt[d] + 1 ELSE attempt[d]
      BY <1>a, <3>1
    <3>4. \A d \in Callers : attempt[d] >= 1 /\ attempt[d] <= Retry[d]
      BY SMT, <1>0, <3>2 DEF TypeOK
    <3> QED BY SMT, <1>a, <3>1, <3>2, <3>3, <3>4
  <2> QED BY <1>0, <1>u, <2>1, <2>2, <2>3 DEF TypeOK
<1>2. ASSUME NEW r \in Sessions PROVE Account(r)'
  <2>0. Account(r) /\ r[1] \in Callers /\ r[2] \in Nat
    BY SessionParts DEF IInv
  <2>1. Callback(r)'
    BY <1>u, <2>0 DEF Account, Callback
  <2>2. CASE r[1] # c
    <3>1. attempt'[r[1]] = attempt[r[1]] /\ pc'[r[1]] = pc[r[1]]
      BY <1>0, <1>a, <2>0, <2>2 DEF TypeOK
    <3>2. (Past(r)' <=> Past(r)) /\ (Preparing(r)' <=> Preparing(r))
      BY <3>1 DEF Past, Preparing
    <3>3. Same(r)
      BY <1>u, <3>2 DEF Same, Queued
    <3> QED BY <1>u, <2>0, <2>1, <3>1, <3>3, SameAccount, SameCalled DEF Account
  <2>3. CASE r[1] = c
    <3>1. /\ attempt[c] \in Nat /\ attempt'[c] = attempt[c] + 1 /\ pc'[c] = "begin"
      BY <1>0, <1>a DEF TypeOK
    <3>2. Past(r) /\ ~Preparing(r) /\ ~Preparing(r)'
      BY <1>a, <2>3, <3>1 DEF Past, Preparing
    <3>3. CASE r[2] # attempt[c] + 1
      <4>1. Past(r)'
        BY <2>3, <3>1, <3>3 DEF Past
      <4>2. Same(r)
        BY <1>u, <3>2, <4>1 DEF Same, Queued
      <4>3. Shares(r)' /\ Wins(r)' /\ Gone(r)' /\ Places(r)' /\ Timed(r)' /\ (Aside(r)' <=> Aside(r))
        BY <2>0, <4>2, SameAccount
      <4>4. r[2] # attempt'[r[1]] /\ (r[2] > attempt'[r[1]] => r[2] > attempt[r[1]])
        BY SMT, <2>0, <2>3, <3>1, <3>3
      <4>5. Called(r)'
        BY <1>u, <2>0, <3>2, <4>1, <4>3, <4>4 DEF Account, Called
      <4> QED BY <2>1, <4>3, <4>5 DEF Account
    <3>4. CASE r[2] = attempt[c] + 1
      <4>1. mem[r] = "unborn" /\ Aside(r) /\ Aside(r)'
        <5>1. r[2] > attempt[r[1]]
          BY SMT, <2>3, <3>1, <3>4
        <5> QED BY <1>u, <2>0, <5>1 DEF Account, Called, Aside
      <4>2. Shares(r)' /\ Wins(r)' /\ Gone(r)' /\ Timed(r)'
        BY <1>u, <2>0, <4>1 DEF Account, Shares, Wins, Gone, Timed, Delivering
      <4>3. Places(r)' /\ r \notin unsent
        BY <1>u, <2>0, <3>2, <4>1 DEF Account, Places, Queued
      <4>4. Called(r)'
        BY <1>u, <2>0, <2>3, <3>1, <3>4, <4>1, <4>3 DEF Called
      <4> QED BY <2>1, <4>2, <4>3, <4>4 DEF Account
    <3> QED BY <3>3, <3>4
  <2> QED BY <2>2, <2>3
<1>3. \A d \in Callers : Invoked(d)'
  BY SMT, <1>0, Domains, <1>a, <1>u DEF IInv, Invoked
<1>4. ThreadsPlaced'
  BY <1>u DEF IInv, ThreadsPlaced
<1>5. Order'
  BY <1>u DEF IInv, Order, Queued
<1>6. DanglesOnlyLate'
  BY <1>u DEF IInv, DanglesOnlyLate
<1> QED BY <1>1, <1>2, <1>3, <1>4, <1>5, <1>6 DEF IInv

-----------------------------------------------------------------------------
\* A step of the reader outside notify moves sessions from the queue to the map
\* and leaves the sessions themselves alone.
LEMMA ReaderMoves ==
  ASSUME IInv,
         UNCHANGED <<pc, attempt, has_callback, mem, owners, callback, result, timer, delivered,
                     invoked, expired, unsent>>,
         at'["Timeout"] = at["Timeout"], cur'["Timeout"] = cur["Timeout"],
         at["OnRead"] \notin {"undo", "upgrade", "deliver", "release"},
         at'["OnRead"] \notin {"undo", "upgrade", "deliver", "release"},
         \A r \in Sessions : Aside(r) => cur'["OnRead"] # r,
         wire' \subseteq wire, Queued' \cup _session_map' = Queued \cup _session_map,
         Queued' \cap _session_map' = {}
  PROVE  (\A r \in Sessions : Account(r)') /\ (\A c \in Callers : Invoked(c)')
<1>1. ASSUME NEW r \in Sessions PROVE Account(r)'
  <2>0. Account(r)
    BY DEF IInv
  <2>1. /\ Past(r)' <=> Past(r)
        /\ Preparing(r)' <=> Preparing(r)
        /\ Aside(r)' <=> Aside(r)
        /\ Left(r)' <=> Left(r)
    BY DEF Past, Preparing, Aside, Left
  <2>2. Returned(r)' = Returned(r) /\ Inside(r)' = Inside(r) /\ One(Left(r))' = One(Left(r))
    BY <2>1 DEF Returned, Inside, Holds, One
  <2>3. Delivering(r)' <=> Delivering(r)
    BY DEF Delivering, Notifiers
  <2>4. Shares(r)'
    BY <2>0, <2>2, <2>3 DEF Account, Shares
  <2>5. Wins(r)'
    BY <2>0, <2>3 DEF Account, Wins, Notifiers
  <2>6. Gone(r)'
    BY <2>0, <2>1 DEF Account, Gone, Notifiers
  <2>7. Places(r)'
    BY <2>0, <2>1 DEF Account, Places
  <2>8. Called(r)'
    BY <2>0, <2>1 DEF Account, Called
  <2>9. Timed(r)' /\ Callback(r)'
    BY <2>0 DEF Account, Timed, Callback
  <2> QED BY <2>4, <2>5, <2>6, <2>7, <2>8, <2>9 DEF Account
<1>2. \A c \in Callers : Invoked(c)'
  BY DEF IInv, Invoked
<1> QED BY <1>1, <1>2

\* An answer is taken from the buffer.
LEMMA OnRead_message ==
  ASSUME IInv, NEW q \in Sessions, onRead_message(q)
  PROVE  IInv'
<1>0. TypeOK /\ "OnRead" \in Notifiers /\ "Timeout" \in Notifiers
  BY DEF IInv, Notifiers
<1>a. /\ socket = "open" /\ q \in wire /\ at["OnRead"] \in {"idle", "message"}
      /\ at' = [at EXCEPT !["OnRead"] = "pop"] /\ cur' = [cur EXCEPT !["OnRead"] = q]
      /\ wire' = wire \ {q} /\ older' = {s \in Sessions : mem[s] # "unborn"}
  BY DEF onRead_message
<1>u. UNCHANGED <<pc, attempt, _error_code, has_callback, mem, owners, callback, result, timer,
        _session_info, _session_map, todo, socket, published, overlap, delivered, invoked, expired,
        unsent, dangling>>
  BY DEF onRead_message, call, heap, reader, commit, thread, history
<1>q. mem[q] # "unborn"
  BY <1>a DEF IInv, Account, Places, Aside
<1>b. /\ at'["Timeout"] = at["Timeout"] /\ cur'["Timeout"] = cur["Timeout"]
      /\ at["OnRead"] \notin {"undo", "upgrade", "deliver", "release"}
      /\ at'["OnRead"] \notin {"undo", "upgrade", "deliver", "release"}
  BY ZenonT(40), <1>0, <1>a, <1>u DEF TypeOK, IInv, ThreadsPlaced
<1>c. \A r \in Sessions : Aside(r) => cur'["OnRead"] # r
  BY SMT, <1>0, Domains, <1>a DEF IInv, Account, Places
<1>d. /\ wire' \subseteq wire /\ Queued' \cup _session_map' = Queued \cup _session_map
      /\ Queued' \cap _session_map' = {}
  <2>1. Queued \cap _session_map = {}
    BY <1>0 DEF TypeOK, IInv, Account, Places, Queued
  <2> QED BY <1>a, <1>u, <2>1 DEF Queued
<1>1. TypeOK'
  <2>1. at' \in [Notifiers -> ThreadAt]
    BY <1>0, <1>a DEF TypeOK, ThreadAt
  <2>2. cur' \in [Notifiers -> Sessions \cup {NoSession}]
    BY <1>0, <1>a DEF TypeOK
  <2>3. wire' \subseteq Sessions /\ older' \subseteq Sessions
    BY <1>0, <1>a DEF TypeOK
  <2> QED BY <1>0, <1>u, <2>1, <2>2, <2>3 DEF TypeOK
<1>2. (\A r \in Sessions : Account(r)') /\ (\A c \in Callers : Invoked(c)')
  BY <1>u, <1>b, <1>c, <1>d, ReaderMoves
<1>4. ThreadsPlaced'
  BY ZenonT(40), <1>0, <1>a, <1>u DEF IInv, ThreadsPlaced, TypeOK
<1>5. Order'
  <2>1. \A n \in 1..Len(_session_info) : _session_info[n] \in older'
    <3>1. \A r \in Sessions : r \in Queued => mem[r] = "live"
      BY DEF IInv, Account, Places
    <3>2. \A n \in 1..Len(_session_info) : _session_info[n] \in Sessions /\ _session_info[n] \in Queued
      BY SMT, <1>0 DEF TypeOK, Queued
    <3> QED BY <1>a, <3>1, <3>2
  <2>2. at'["OnRead"] = "pop" /\ cur'["OnRead"] = q
    BY <1>0, <1>a DEF TypeOK
  <2> QED BY SMT, <1>a, <1>u, <1>q, <2>1, <2>2 DEF IInv, Order
<1>6. DanglesOnlyLate'
  BY <1>u DEF IInv, DanglesOnlyLate
<1> QED BY <1>1, <1>2, <1>4, <1>5, <1>6 DEF IInv

\* The session of the answer is looked up.
LEMMA OnRead_find ==
  ASSUME IInv, onRead_find
  PROVE  IInv'
<1>0. TypeOK /\ "OnRead" \in Notifiers /\ "Timeout" \in Notifiers
  BY DEF IInv, Notifiers
<1>a. /\ at["OnRead"] = "find"
      /\ at' = [at EXCEPT !["OnRead"] = IF cur["OnRead"] \in _session_map THEN "notify" ELSE "message"]
      /\ older' = {}
      /\ IF cur["OnRead"] \in _session_map THEN Use("OnRead", cur["OnRead"]) ELSE dangling' = dangling
  BY DEF onRead_find, Move
<1>u. UNCHANGED <<pc, attempt, _error_code, has_callback, mem, owners, callback, result, timer,
        _session_info, _session_map, todo, wire, socket, published, overlap, cur, delivered,
        invoked, expired, unsent>>
  BY DEF onRead_find, call, heap, reader, commit, thread, history
<1>q. dangling' = dangling
  <2>1. cur["OnRead"] \in _session_map => mem[cur["OnRead"]] # "freed"
    BY <1>0 DEF TypeOK, IInv, Account, Places
  <2> QED BY <1>a, <2>1 DEF Use
<1>b. /\ at'["Timeout"] = at["Timeout"] /\ cur'["Timeout"] = cur["Timeout"]
      /\ at["OnRead"] \notin {"undo", "upgrade", "deliver", "release"}
      /\ at'["OnRead"] \notin {"undo", "upgrade", "deliver", "release"}
  BY <1>0, <1>a, <1>u DEF TypeOK, IInv, ThreadsPlaced
<1>c. \A r \in Sessions : Aside(r) => cur'["OnRead"] # r
  BY <1>0, <1>a, <1>u DEF IInv, Account, Places
<1>d. /\ wire' \subseteq wire /\ Queued' \cup _session_map' = Queued \cup _session_map
      /\ Queued' \cap _session_map' = {}
  <2>1. Queued \cap _session_map = {}
    BY <1>0 DEF TypeOK, IInv, Account, Places, Queued
  <2> QED BY <1>a, <1>u, <2>1 DEF Queued
<1>1. TypeOK'
  <2>1. at' \in [Notifiers -> ThreadAt]
    BY <1>0, <1>a DEF TypeOK, ThreadAt
  <2> QED BY <1>0, <1>a, <1>u, <1>q, <2>1 DEF TypeOK
<1>2. (\A r \in Sessions : Account(r)') /\ (\A c \in Callers : Invoked(c)')
  BY <1>u, <1>b, <1>c, <1>d, ReaderMoves
<1>4. ThreadsPlaced'
  BY <1>0, <1>a, <1>u DEF IInv, ThreadsPlaced, TypeOK
<1>5. Order'
  BY <1>0, <1>a, <1>u DEF IInv, Order, Queued, TypeOK
<1>6. DanglesOnlyLate'
  BY <1>u, <1>q DEF IInv, DanglesOnlyLate
<1> QED BY <1>1, <1>2, <1>4, <1>5, <1>6 DEF IInv

\* The reader begins to reclaim.
LEMMA OnRead_reclaim ==
  ASSUME IInv, onRead_reclaim
  PROVE  IInv'
<1>0. TypeOK /\ "OnRead" \in Notifiers /\ "Timeout" \in Notifiers
  BY DEF IInv, Notifiers
<1>a. /\ socket = "open" /\ at["OnRead"] \in {"idle", "message"}
      /\ at' = [at EXCEPT !["OnRead"] = "reclaim"] /\ cur' = [cur EXCEPT !["OnRead"] = NoSession]
      /\ todo' = _session_map
  BY DEF onRead_reclaim
<1>u. UNCHANGED <<pc, attempt, _error_code, has_callback, mem, owners, callback, result, timer,
        _session_info, _session_map, older, wire, socket, published, overlap, delivered, invoked,
        expired, unsent, dangling>>
  BY DEF onRead_reclaim, call, heap, reader, commit, thread, history
<1>b. /\ at'["Timeout"] = at["Timeout"] /\ cur'["Timeout"] = cur["Timeout"]
      /\ at["OnRead"] \notin {"undo", "upgrade", "deliver", "release"}
      /\ at'["OnRead"] \notin {"undo", "upgrade", "deliver", "release"}
  BY <1>0, <1>a, <1>u DEF TypeOK, IInv, ThreadsPlaced
<1>c. \A r \in Sessions : Aside(r) => cur'["OnRead"] # r
  BY <1>0, <1>a, SessionParts DEF TypeOK
<1>d. /\ wire' \subseteq wire /\ Queued' \cup _session_map' = Queued \cup _session_map
      /\ Queued' \cap _session_map' = {}
  <2>1. Queued \cap _session_map = {}
    BY <1>0 DEF TypeOK, IInv, Account, Places, Queued
  <2> QED BY <1>a, <1>u, <2>1 DEF Queued
<1>1. TypeOK'
  <2>1. at' \in [Notifiers -> ThreadAt]
    BY <1>0, <1>a DEF TypeOK, ThreadAt
  <2>2. cur' \in [Notifiers -> Sessions \cup {NoSession}]
    BY <1>0, <1>a DEF TypeOK
  <2> QED BY <1>0, <1>a, <1>u, <2>1, <2>2 DEF TypeOK
<1>2. (\A r \in Sessions : Account(r)') /\ (\A c \in Callers : Invoked(c)')
  BY <1>u, <1>b, <1>c, <1>d, ReaderMoves
<1>4. ThreadsPlaced'
  BY <1>0, <1>a, <1>u DEF IInv, ThreadsPlaced, TypeOK
<1>5. Order'
  BY <1>0, <1>a, <1>u DEF IInv, Order, Queued, TypeOK
<1>6. DanglesOnlyLate'
  BY <1>u DEF IInv, DanglesOnlyLate
<1> QED BY <1>1, <1>2, <1>4, <1>5, <1>6 DEF IInv

\* The reader is done.
LEMMA OnRead_return ==
  ASSUME IInv, onRead_return
  PROVE  IInv'
<1>0. TypeOK /\ "OnRead" \in Notifiers /\ "Timeout" \in Notifiers
  BY DEF IInv, Notifiers
<1>a. at["OnRead"] = "reclaim" /\ at' = [at EXCEPT !["OnRead"] = "idle"]
  BY DEF onRead_return, Move
<1>u. UNCHANGED <<pc, attempt, _error_code, has_callback, mem, owners, callback, result, timer,
        _session_info, _session_map, older, todo, wire, socket, published, overlap, cur, delivered,
        invoked, expired, unsent, dangling>>
  BY DEF onRead_return, call, heap, reader, commit, thread, history
<1>b. /\ at'["Timeout"] = at["Timeout"] /\ cur'["Timeout"] = cur["Timeout"]
      /\ at["OnRead"] \notin {"undo", "upgrade", "deliver", "release"}
      /\ at'["OnRead"] \notin {"undo", "upgrade", "deliver", "release"}
  BY <1>0, <1>a, <1>u DEF TypeOK, IInv, ThreadsPlaced
<1>c. \A r \in Sessions : Aside(r) => cur'["OnRead"] # r
  BY <1>0, <1>a, <1>u DEF IInv, Account, Places
<1>d. /\ wire' \subseteq wire /\ Queued' \cup _session_map' = Queued \cup _session_map
      /\ Queued' \cap _session_map' = {}
  <2>1. Queued \cap _session_map = {}
    BY <1>0 DEF TypeOK, IInv, Account, Places, Queued
  <2> QED BY <1>a, <1>u, <2>1 DEF Queued
<1>1. TypeOK'
  <2>1. at' \in [Notifiers -> ThreadAt]
    BY <1>0, <1>a DEF TypeOK, ThreadAt
  <2> QED BY <1>0, <1>u, <2>1 DEF TypeOK
<1>2. (\A r \in Sessions : Account(r)') /\ (\A c \in Callers : Invoked(c)')
  BY <1>u, <1>b, <1>c, <1>d, ReaderMoves
<1>4. ThreadsPlaced'
  BY <1>0, <1>a, <1>u DEF IInv, ThreadsPlaced, TypeOK
<1>5. Order'
  BY ZenonT(40), <1>0, <1>a, <1>u DEF IInv, Order, Queued, TypeOK
<1>6. DanglesOnlyLate'
  BY <1>u DEF IInv, DanglesOnlyLate
<1> QED BY <1>1, <1>2, <1>4, <1>5, <1>6 DEF IInv

\* ~Socket takes all that is in the queue.
LEMMA Destruct ==
  ASSUME IInv, destruct
  PROVE  IInv'
<1>0. TypeOK /\ "OnRead" \in Notifiers /\ "Timeout" \in Notifiers
  BY DEF IInv, Notifiers
<1>a. /\ socket = "open" /\ at["OnRead"] = "idle" /\ socket' = "closing" /\ wire' = {}
      /\ _session_map' = _session_map \cup {_session_info[n] : n \in DOMAIN _session_info}
      /\ _session_info' = << >> /\ published' = 0 /\ todo' = _session_map'
  BY DEF destruct
<1>u. UNCHANGED <<pc, attempt, _error_code, has_callback, mem, owners, callback, result, timer,
        older, overlap, at, cur, delivered, invoked, expired, unsent, dangling>>
  BY DEF destruct, call, heap, reader, commit, thread, history
<1>q. _session_map' = _session_map \cup Queued /\ Queued' = {}
  BY SMT, <1>0, Domains, <1>a DEF Queued
<1>b. /\ at'["Timeout"] = at["Timeout"] /\ cur'["Timeout"] = cur["Timeout"]
      /\ at["OnRead"] \notin {"undo", "upgrade", "deliver", "release"}
      /\ at'["OnRead"] \notin {"undo", "upgrade", "deliver", "release"}
  BY <1>0, <1>a, <1>u DEF TypeOK, IInv, ThreadsPlaced
<1>c. \A r \in Sessions : Aside(r) => cur'["OnRead"] # r
  BY <1>0, <1>a, <1>u DEF IInv, Account, Places
<1>d. /\ wire' \subseteq wire /\ Queued' \cup _session_map' = Queued \cup _session_map
      /\ Queued' \cap _session_map' = {}
  BY <1>a, <1>q
<1>1. TypeOK'
  <2>1. _session_info' \in Seq(Sessions) /\ Len(_session_info') <= QueueCapacity /\ published' \in Nat
    BY SMT, <1>a, QueueAssumption
  <2>2. _session_map' \subseteq Sessions
    BY SMT, <1>0, <1>a, <1>q DEF TypeOK, Queued
  <2> QED BY <1>0, <1>a, <1>u, <2>1, <2>2 DEF TypeOK
<1>2. (\A r \in Sessions : Account(r)') /\ (\A c \in Callers : Invoked(c)')
  BY <1>u, <1>b, <1>c, <1>d, ReaderMoves
<1>4. ThreadsPlaced'
  BY ZenonT(40), <1>0, <1>a, <1>u DEF IInv, ThreadsPlaced, TypeOK
<1>5. Order'
  <2>1. 1..Len(_session_info') = {}
    BY SMT, <1>a
  <2>2. at'["OnRead"] = "idle"
    BY <1>a, <1>u
  <2> QED BY <2>1, <2>2 DEF Order
<1>6. DanglesOnlyLate'
  BY <1>u DEF IInv, DanglesOnlyLate
<1> QED BY <1>1, <1>2, <1>4, <1>5, <1>6 DEF IInv

\* ~Socket goes round once more.
LEMMA Destruct_again ==
  ASSUME IInv, destruct_again
  PROVE  IInv'
<1>0. TypeOK /\ "OnRead" \in Notifiers /\ "Timeout" \in Notifiers
  BY DEF IInv, Notifiers
<1>a. /\ socket = "closing" /\ todo' = _session_map
      /\ socket' = IF _session_map = {} THEN "closed" ELSE "closing"
  BY DEF destruct_again
<1>u. UNCHANGED <<pc, attempt, _error_code, has_callback, mem, owners, callback, result, timer,
        _session_info, _session_map, older, wire, published, overlap, at, cur, delivered, invoked,
        expired, unsent, dangling>>
  BY DEF destruct_again, call, heap, reader, commit, thread, history
<1>b. /\ at'["Timeout"] = at["Timeout"] /\ cur'["Timeout"] = cur["Timeout"]
      /\ at["OnRead"] \notin {"undo", "upgrade", "deliver", "release"}
      /\ at'["OnRead"] \notin {"undo", "upgrade", "deliver", "release"}
  BY <1>0, <1>a, <1>u DEF TypeOK, IInv, ThreadsPlaced
<1>c. \A r \in Sessions : Aside(r) => cur'["OnRead"] # r
  BY <1>0, <1>a, <1>u DEF IInv, Account, Places
<1>d. /\ wire' \subseteq wire /\ Queued' \cup _session_map' = Queued \cup _session_map
      /\ Queued' \cap _session_map' = {}
  <2>1. Queued \cap _session_map = {}
    BY <1>0 DEF TypeOK, IInv, Account, Places, Queued
  <2> QED BY <1>a, <1>u, <2>1 DEF Queued
<1>1. TypeOK'
  <2> QED BY <1>0, <1>a, <1>u DEF TypeOK
<1>2. (\A r \in Sessions : Account(r)') /\ (\A c \in Callers : Invoked(c)')
  BY <1>u, <1>b, <1>c, <1>d, ReaderMoves
<1>4. ThreadsPlaced'
  BY <1>0, <1>a, <1>u DEF IInv, ThreadsPlaced, TypeOK
<1>5. Order'
  BY <1>a, <1>u DEF IInv, Order, Queued
<1>6. DanglesOnlyLate'
  BY <1>u DEF IInv, DanglesOnlyLate
<1> QED BY <1>1, <1>2, <1>4, <1>5, <1>6 DEF IInv

\* The oldest session of the queue goes to the map.
LEMMA OnRead_pop ==
  ASSUME IInv, onRead_pop, published > 0, published <= Len(_session_info)
  PROVE  IInv'
<1>0. TypeOK /\ "OnRead" \in Notifiers /\ "Timeout" \in Notifiers
  BY DEF IInv, Notifiers
<1>a. /\ at["OnRead"] = "pop"
      /\ _session_map' = _session_map \cup {Head(_session_info)}
      /\ _session_info' = Tail(_session_info) /\ published' = published - 1
      /\ at' = [at EXCEPT !["OnRead"] = IF Head(_session_info) \in older THEN "pop" ELSE "find"]
  BY SMT DEF onRead_pop
<1>u. UNCHANGED <<pc, attempt, _error_code, has_callback, mem, owners, callback, result, timer,
        older, todo, wire, socket, overlap, cur, delivered, invoked, expired, unsent,
        dangling>>
  BY SMT DEF onRead_pop, call, heap, reader, commit, thread, history
<1>q. Queued \cap _session_map = {}
  BY <1>0 DEF TypeOK, IInv, Account, Places, Queued
<1>p. /\ _session_info' \in Seq(Sessions) /\ Head(_session_info) = _session_info[1]
      /\ Len(_session_info) \in Nat /\ Len(_session_info) >= 1 /\ _session_info[1] \in Sessions
      /\ Len(_session_info') = Len(_session_info) - 1
      /\ \A n \in 1..Len(_session_info') : _session_info'[n] = _session_info[n + 1]
  <2>1. _session_info \in Seq(Sessions) /\ published \in Nat
    BY <1>0 DEF TypeOK
  <2>2. _session_info # << >>
    BY SMT, <2>1
  <2> QED BY SMT, <1>a, <2>1, <2>2
<1>r. Queued = Queued' \cup {Head(_session_info)} /\ Head(_session_info) \notin Queued'
  <2>1. \A n \in 1..Len(_session_info) : n = 1 \/ n - 1 \in 1..Len(_session_info')
    BY SMT, <1>p
  <2>2. \A n \in 1..Len(_session_info') : n + 1 \in 1..Len(_session_info) /\ n + 1 # 1
    BY SMT, <1>p
  <2>3. \A n \in 1..Len(_session_info) : n # 1 => _session_info[n] = _session_info'[n - 1]
    BY SMT, <1>p, <2>1
  <2>4. Queued = Queued' \cup {Head(_session_info)}
    <3>1. Queued \subseteq Queued' \cup {Head(_session_info)}
      <4> SUFFICES ASSUME NEW n \in 1..Len(_session_info), n # 1
                   PROVE  _session_info[n] \in Queued'
        BY <1>p DEF Queued
      <4>1. n - 1 \in 1..Len(_session_info') /\ _session_info[n] = _session_info'[n - 1]
        BY <2>1, <2>3
      <4> QED BY <4>1 DEF Queued
    <3>2. Queued' \subseteq Queued
      BY SMT, <1>p, <2>2 DEF Queued
    <3>3. Head(_session_info) \in Queued
      BY SMT, <1>p DEF Queued
    <3> QED BY <3>1, <3>2, <3>3
  <2>5. Head(_session_info) \notin Queued'
    BY SMTT(30), <1>p, <2>2 DEF Queued, IInv, Order
  <2> QED BY <2>4, <2>5
<1>b. /\ at'["Timeout"] = at["Timeout"] /\ cur'["Timeout"] = cur["Timeout"]
      /\ at["OnRead"] \notin {"undo", "upgrade", "deliver", "release"}
      /\ at'["OnRead"] \notin {"undo", "upgrade", "deliver", "release"}
  BY <1>0, <1>a, <1>u DEF TypeOK, IInv, ThreadsPlaced
<1>c. \A r \in Sessions : Aside(r) => cur'["OnRead"] # r
  BY <1>0, <1>a, <1>u DEF IInv, Account, Places
<1>d. /\ wire' \subseteq wire /\ Queued' \cup _session_map' = Queued \cup _session_map
      /\ Queued' \cap _session_map' = {}
  BY <1>u, <1>a, <1>q, <1>r
<1>1. TypeOK'
  <2>1. at' \in [Notifiers -> ThreadAt]
    BY <1>0, <1>a DEF TypeOK, ThreadAt
  <2>2. Len(_session_info') <= QueueCapacity /\ published' \in Nat
    <3>0. published \in Nat
      BY <1>0 DEF TypeOK
    <3>1. Len(_session_info) <= QueueCapacity
      BY <1>0 DEF TypeOK
    <3> QED BY SMT, <1>a, <1>p, <3>0, <3>1, QueueAssumption
  <2>3. _session_map' \subseteq Sessions
    <3>1. _session_map \subseteq Sessions /\ Head(_session_info) \in Sessions
      BY <1>0, <1>p DEF TypeOK
    <3> QED BY <1>a, <3>1
  <2> QED BY <1>0, <1>a, <1>u, <1>p, <2>1, <2>2, <2>3 DEF TypeOK
<1>2. (\A r \in Sessions : Account(r)') /\ (\A c \in Callers : Invoked(c)')
  BY <1>u, <1>b, <1>c, <1>d, ReaderMoves
<1>4. ThreadsPlaced'
  BY <1>0, <1>a, <1>u DEF IInv, ThreadsPlaced, TypeOK
<1>5. Order'
  <2>1. \A n \in 1..Len(_session_info') : n + 1 \in 1..Len(_session_info)
    BY SMT, <1>p
  <2>2. at'["OnRead"] = IF Head(_session_info) \in older THEN "pop" ELSE "find"
    BY <1>0, <1>a DEF TypeOK
  <2>3. \A m, n \in 1..Len(_session_info') : _session_info'[m] = _session_info'[n] => m = n
    BY SMT, <1>p, <2>1 DEF IInv, Order
  <2>4. \A m, n \in 1..Len(_session_info') :
          m < n /\ _session_info'[n] = cur["OnRead"] => _session_info'[m] \in older
    BY SMT, <1>a, <1>p, <2>1 DEF IInv, Order
  <2> QED BY <1>a, <1>u, <2>2, <2>3, <2>4 DEF IInv, Order
<1>6. DanglesOnlyLate'
  BY <1>u DEF IInv, DanglesOnlyLate
<1> QED BY <1>1, <1>2, <1>4, <1>5, <1>6 DEF IInv

\* No slot is published: the reader stops popping.  Or it stops for good at a slot
\* that nobody has filled.
LEMMA OnRead_popped ==
  ASSUME IInv, (onRead_pop /\ published = 0) \/ onRead_pop_unfilled
  PROVE  IInv'
<1>0. TypeOK /\ "OnRead" \in Notifiers /\ "Timeout" \in Notifiers
  BY DEF IInv, Notifiers
<1>a. at["OnRead"] = "pop" /\ \E x \in {"find", "undefined"} : at' = [at EXCEPT !["OnRead"] = x]
  BY SMT DEF onRead_pop, onRead_pop_unfilled, Move
<1>u. UNCHANGED <<pc, attempt, _error_code, has_callback, mem, owners, callback, result, timer,
        _session_info, _session_map, older, todo, wire, socket, published, overlap, cur, delivered,
        invoked, expired, unsent, dangling>>
  BY SMT DEF onRead_pop, onRead_pop_unfilled, call, heap, reader, commit, thread, history
<1>b. /\ at'["Timeout"] = at["Timeout"] /\ cur'["Timeout"] = cur["Timeout"]
      /\ at["OnRead"] \notin {"undo", "upgrade", "deliver", "release"}
      /\ at'["OnRead"] \notin {"undo", "upgrade", "deliver", "release"}
  BY <1>0, <1>a, <1>u DEF TypeOK, IInv, ThreadsPlaced
<1>c. \A r \in Sessions : Aside(r) => cur'["OnRead"] # r
  BY <1>0, <1>a, <1>u DEF IInv, Account, Places
<1>d. /\ wire' \subseteq wire /\ Queued' \cup _session_map' = Queued \cup _session_map
      /\ Queued' \cap _session_map' = {}
  <2>1. Queued \cap _session_map = {}
    BY <1>0 DEF TypeOK, IInv, Account, Places, Queued
  <2> QED BY <1>a, <1>u, <2>1 DEF Queued
<1>1. TypeOK'
  <2>1. at' \in [Notifiers -> ThreadAt]
    BY SMT, <1>0, <1>a DEF TypeOK, ThreadAt
  <2> QED BY <1>0, <1>u, <2>1 DEF TypeOK
<1>2. (\A r \in Sessions : Account(r)') /\ (\A c \in Callers : Invoked(c)')
  BY <1>u, <1>b, <1>c, <1>d, ReaderMoves
<1>4. ThreadsPlaced'
  BY <1>0, <1>a, <1>u DEF IInv, ThreadsPlaced, TypeOK
<1>5. Order'
  <2>1. at'["OnRead"] # "pop"
    BY <1>0, <1>a DEF TypeOK
  <2> QED BY <1>u, <2>1 DEF IInv, Order
<1>6. DanglesOnlyLate'
  BY <1>u DEF IInv, DanglesOnlyLate
<1> QED BY <1>1, <1>2, <1>4, <1>5, <1>6 DEF IInv

\* One round of tryReclaimSessionMap.  What it frees has no share left: the timer's
\* has been given back, its outcome has been delivered, and nobody waits for it.
LEMMA Reclaim ==
  ASSUME IInv, NEW q \in Sessions, q \in todo, at["OnRead"] \in {"idle", "reclaim"}, tryReclaim(q),
         UNCHANGED <<pc, attempt, _error_code, has_callback, callback, result, timer,
                     _session_info, older, wire, socket, published, overlap, at, cur, delivered,
                     invoked, expired, unsent, dangling>>
  PROVE  IInv'
<1>0. TypeOK /\ "OnRead" \in Notifiers /\ "Timeout" \in Notifiers
  BY DEF IInv, Notifiers
<1>q. /\ Account(q) /\ q \in _session_map /\ mem[q] = "live" /\ ~Aside(q) /\ q \notin Queued
      /\ ~Preparing(q) /\ cur["OnRead"] = NoSession /\ q # NoSession
  BY SessionParts DEF IInv, ThreadsPlaced, Account, Places, Aside
<1>t. todo' = todo \ {q}
  BY DEF tryReclaim
<1>s. Queued' = Queued /\ Queued \cap _session_map = {}
  <2>1. \A r \in Sessions : r \notin Queued \cap _session_map
    BY DEF IInv, Account, Places
  <2>2. _session_map \subseteq Sessions
    BY <1>0 DEF TypeOK
  <2> QED BY <2>1, <2>2 DEF Queued
<1>1. CASE ~OnlyUpgraded(owners[q])
  <2>1. UNCHANGED <<owners, mem, _session_map>>
    BY <1>1 DEF tryReclaim
  <2>2. (\A r \in Sessions : Account(r)') /\ (\A c \in Callers : Invoked(c)')
    <3>1. \A r \in Sessions : Aside(r) => cur'["OnRead"] # r
      BY DEF IInv, Account, Places
    <3> QED BY <1>s, <2>1, <3>1, ReaderMoves
  <2>3. TypeOK' /\ ThreadsPlaced'
    BY <1>0, <1>t, <2>1 DEF TypeOK, IInv, ThreadsPlaced
  <2>4. Order' /\ DanglesOnlyLate'
    BY <1>s DEF IInv, Order, DanglesOnlyLate
  <2> QED BY <2>2, <2>3, <2>4 DEF IInv
<1>2. CASE OnlyUpgraded(owners[q])
  <2>1. /\ owners' = [owners EXCEPT ![q] = OnlyExclusive]
        /\ mem' = [mem EXCEPT ![q] = "freed"]
        /\ _session_map' = _session_map \ {q}
    BY <1>2 DEF tryReclaim, SetOwners
  <2>2. owners[q].shared = 0 /\ owners[q].upgraded = 1
    BY <1>2 DEF OnlyUpgraded
  <2>3. TypeOK'
    <3>1. owners' \in [Sessions -> Bits]
      BY SMT, <1>0, <2>1 DEF TypeOK, OnlyExclusive, Bits
    <3>2. mem' \in [Sessions -> {"unborn", "live", "freed"}]
      BY <1>0, <2>1 DEF TypeOK
    <3>3. _session_map' \subseteq Sessions /\ todo' \subseteq Sessions
      BY <1>0, <1>t, <2>1 DEF TypeOK
    <3> QED BY <1>0, <3>1, <3>2, <3>3 DEF TypeOK
  <2>4. ASSUME NEW r \in Sessions, r # q PROVE Account(r)'
    <3>0. Account(r)
      BY DEF IInv
    <3>1. (Past(r)' <=> Past(r)) /\ (Preparing(r)' <=> Preparing(r))
      BY DEF Past, Preparing
    <3>2. Same(r)
      BY <1>0, <1>s, <2>1, <2>4, <3>1 DEF Same, TypeOK
    <3>3. Callback(r)'
      BY <3>0 DEF Account, Callback
    <3> QED BY <3>0, <3>2, <3>3, SameAccount, SameCalled DEF Account
  <2>5. Account(q)'
    <3>1. mem'[q] = "freed" /\ owners'[q].exclusive = 1
      BY <1>0, <2>1 DEF TypeOK, OnlyExclusive
    <3>2. (Past(q)' <=> Past(q)) /\ ~Preparing(q)' /\ ~Aside(q)'
      <4>1. (Past(q)' <=> Past(q)) /\ (Preparing(q)' <=> Preparing(q))
        BY DEF Past, Preparing
      <4>2. ~Preparing(q)
        BY <1>q DEF Aside
      <4>3. mem'[q] # "unborn" /\ owners'[q].exclusive # 0
        <5>1. 1 # 0
          BY SMT
        <5> QED BY <3>1, <5>1
      <4> QED BY <4>1, <4>2, <4>3 DEF Aside
    <3>3. 1 - Returned(q) + Inside(q) + One(Left(q)) = 0
      BY <1>q, <2>2 DEF Account, Shares
    <3>4. ~Holds("OnRead", q) /\ (q \in expired => ~Holds("Timeout", q))
      BY <1>q DEF Holds, Account, Timed
    <3>5. q \in expired \/ q \in unsent
      BY SMT, <3>3, <3>4 DEF Returned, Inside, One
    <3>6. ~Holds("Timeout", q)
      BY SMT, <3>3, <3>4 DEF Returned, Inside, One
    <3>7. Left(q) <=> q \in expired /\ q \in unsent
      BY SMT, <3>3, <3>4, <3>5, <3>6 DEF Returned, Inside, One
    <3>8. ~Delivering(q)
      BY <3>4, <3>6 DEF Delivering, Holds, Notifiers
    <3>9. delivered[q] = 1
      BY <1>q, <2>2, <3>8 DEF Account, Shares
    <3>10. ~callback[q] => q \in expired /\ Past(q)
      BY <1>q, <3>5, <3>7, <3>9 DEF Account, Wins, Left, Called
    <3>11. Gone(q)'
      BY <3>2, <3>4, <3>5, <3>6, <3>9, <3>10 DEF Gone, Holds, Notifiers
    <3>12. Shares(q)' /\ Wins(q)' /\ Timed(q)' /\ Callback(q)'
      BY <1>q, <3>1 DEF Account, Shares, Wins, Delivering, Timed, Callback
    <3>13. Places(q)'
      BY <1>q, <1>s, <2>1, <3>1, <3>2 DEF Places
    <3>14. Called(q)'
      BY <1>q, <3>1, <3>2 DEF Account, Called, Preparing
    <3> QED BY <3>11, <3>12, <3>13, <3>14 DEF Account
  <2>6. \A c \in Callers : Invoked(c)'
    BY DEF IInv, Invoked
  <2>7. ThreadsPlaced'
    BY <1>t, <2>1 DEF IInv, ThreadsPlaced
  <2>8. Order' /\ DanglesOnlyLate'
    BY <1>s DEF IInv, Order, DanglesOnlyLate
  <2> QED BY <2>3, <2>4, <2>5, <2>6, <2>7, <2>8 DEF IInv
<1> QED BY <1>1, <1>2

\* The task of session q begins to run.
LEMMA Timeout_run ==
  ASSUME IInv, NEW q \in Sessions, timeout_run(q)
  PROVE  IInv'
<1>0. TypeOK /\ "OnRead" \in Notifiers /\ "Timeout" \in Notifiers
  BY DEF IInv, Notifiers
<1>a. /\ timer[q] \in {"pending", "abandoned"} /\ at["Timeout"] = "idle"
      /\ at' = [at EXCEPT !["Timeout"] = "notify"] /\ cur' = [cur EXCEPT !["Timeout"] = q]
      /\ timer' = [timer EXCEPT ![q] = "running"]
  BY DEF timeout_run, Move
<1>u. UNCHANGED <<pc, attempt, _error_code, has_callback, mem, owners, callback, result,
        _session_info, _session_map, older, todo, wire, socket, published, overlap, delivered,
        invoked, expired, unsent, dangling>>
  BY DEF timeout_run, call, heap, reader, commit, history
<1>q. /\ Account(q) /\ ~Aside(q) /\ q \notin expired /\ cur["Timeout"] = NoSession
      /\ \A r \in Sessions : r # NoSession
  BY <1>a, SessionParts DEF IInv, ThreadsPlaced, Account, Places, Timed
<1>b. /\ at'["OnRead"] = at["OnRead"] /\ cur'["OnRead"] = cur["OnRead"]
      /\ at'["Timeout"] = "notify" /\ cur'["Timeout"] = q
  BY <1>0, <1>a DEF TypeOK
<1>1. TypeOK'
  <2>1. at' \in [Notifiers -> ThreadAt]
    BY <1>0, <1>a DEF TypeOK, ThreadAt
  <2>2. cur' \in [Notifiers -> Sessions \cup {NoSession}]
    BY <1>0, <1>a DEF TypeOK
  <2>3. timer' \in [Sessions -> {"none", "pending", "abandoned", "running", "over"}]
    BY <1>0, <1>a DEF TypeOK
  <2> QED BY <1>0, <1>u, <2>1, <2>2, <2>3 DEF TypeOK
<1>2. ASSUME NEW r \in Sessions PROVE Account(r)'
  <2>0. Account(r)
    BY DEF IInv
  <2>1. Callback(r)'
    BY <1>u, <2>0 DEF Account, Callback
  <2>2. (Past(r)' <=> Past(r)) /\ (Preparing(r)' <=> Preparing(r)) /\ (Aside(r)' <=> Aside(r))
    BY <1>u DEF Past, Preparing, Aside
  <2>3. CASE r # q
    <3>1. timer'[r] = timer[r]
      BY <1>0, <1>a, <2>3 DEF TypeOK
    <3>2. \A t \in Notifiers : (cur'[t] = r <=> cur[t] = r) /\ (cur[t] = r => at'[t] = at[t])
      BY <1>q, <1>b, <2>3 DEF Notifiers
    <3>3. Same(r)
      BY <1>u, <2>2, <3>1, <3>2 DEF Same, Queued
    <3> QED BY <1>u, <2>0, <2>1, <3>1, <3>3, SameAccount, SameCalled DEF Account
  <2>4. CASE r = q
    <3>1. timer'[r] = "running"
      BY <1>0, <1>a, <2>4 DEF TypeOK
    <3>2. /\ Returned(r)' = Returned(r) /\ Inside(r)' = Inside(r) /\ One(Left(r))' = One(Left(r))
          /\ Delivering(r)' <=> Delivering(r)
      BY <1>q, <1>b, <1>u, <2>2, <2>4 DEF Returned, Inside, Holds, Left, One, Delivering, Notifiers
    <3>3. Shares(r)'
      BY <1>u, <2>0, <3>2 DEF Account, Shares
    <3>4. Wins(r)'
      BY <1>b, <1>u, <2>0, <3>2 DEF Account, Wins, Notifiers
    <3>5. Gone(r)'
      BY <1>b, <1>u, <2>0, <2>2 DEF Account, Gone, Notifiers
    <3>6. Places(r)'
      BY <1>q, <1>u, <2>0, <2>2, <2>4 DEF Account, Places, Queued
    <3>7. Called(r)'
      BY <1>a, <1>u, <2>0, <2>2, <2>4 DEF Account, Called
    <3>8. Timed(r)'
      BY <1>b, <1>q, <1>u, <2>4, <3>1 DEF Timed
    <3> QED BY <2>1, <3>3, <3>4, <3>5, <3>6, <3>7, <3>8 DEF Account
  <2> QED BY <2>3, <2>4
<1>3. \A c \in Callers : Invoked(c)'
  BY <1>u DEF IInv, Invoked
<1>4. ThreadsPlaced'
  BY ZenonT(40), <1>b, <1>q, <1>u DEF IInv, ThreadsPlaced
<1>5. Order' /\ DanglesOnlyLate'
  BY SMT, <1>b, <1>u DEF IInv, Order, Queued, DanglesOnlyLate
<1> QED BY <1>1, <1>2, <1>3, <1>4, <1>5 DEF IInv

\* An abandoned task is thrown away.
LEMMA Timeout_drop ==
  ASSUME IInv, NEW q \in Sessions, timeout_drop(q)
  PROVE  IInv'
<1>0. TypeOK
  BY DEF IInv
<1>a. timer[q] = "abandoned" /\ timer' = [timer EXCEPT ![q] = "over"]
  BY DEF timeout_drop
<1>u. UNCHANGED <<pc, attempt, _error_code, has_callback, mem, owners, callback, result,
        _session_info, _session_map, older, todo, wire, socket, published, overlap, at, cur,
        delivered, invoked, expired, unsent, dangling>>
  BY DEF timeout_drop, call, heap, reader, commit, thread, history
<1>1. TypeOK'
  BY <1>0, <1>a, <1>u DEF TypeOK
<1>2. ASSUME NEW r \in Sessions PROVE Account(r)'
  <2>0. Account(r)
    BY DEF IInv
  <2>1. Callback(r)'
    BY <1>u, <2>0 DEF Account, Callback
  <2>2. (Past(r)' <=> Past(r)) /\ (Preparing(r)' <=> Preparing(r))
    BY <1>u DEF Past, Preparing
  <2>3. \/ timer'[r] = timer[r]
        \/ ~Aside(r) /\ timer'[r] = "over" /\ timer[r] = "abandoned"
    BY <1>0, <1>a, <2>0 DEF TypeOK, Account, Places
  <2>4. Same(r)
    BY <1>u, <2>2, <2>3 DEF Same, Queued
  <2> QED BY <1>u, <2>0, <2>1, <2>3, <2>4, SameAccount, SameCalled DEF Account
<1>3. \A c \in Callers : Invoked(c)'
  BY <1>u DEF IInv, Invoked
<1>4. ThreadsPlaced'
  BY <1>u DEF IInv, ThreadsPlaced
<1>5. Order' /\ DanglesOnlyLate'
  BY <1>u DEF IInv, Order, Queued, DanglesOnlyLate
<1> QED BY <1>1, <1>2, <1>3, <1>4, <1>5 DEF IInv

\* The task ends and gives the timer's share back.
LEMMA Timeout_releaseShared ==
  ASSUME IInv, timeout_releaseShared
  PROVE  IInv'
<1> DEFINE q == cur["Timeout"]
<1>0. TypeOK /\ "OnRead" \in Notifiers /\ "Timeout" \in Notifiers
  BY DEF IInv, Notifiers
<1>a. /\ at["Timeout"] = "releaseTimer" /\ at' = [at EXCEPT !["Timeout"] = "idle"]
      /\ owners' = [owners EXCEPT ![q] = SubShared(owners[q])]
      /\ timer' = [timer EXCEPT ![q] = "over"] /\ expired' = expired \cup {q}
      /\ cur' = [cur EXCEPT !["Timeout"] = NoSession] /\ Use("Timeout", q)
  BY DEF timeout_releaseShared, Move, SetOwners
<1>u. UNCHANGED <<pc, attempt, _error_code, has_callback, mem, callback, result, _session_info,
        _session_map, older, todo, wire, socket, published, overlap, delivered, invoked, unsent>>
  BY DEF timeout_releaseShared, call, heap, reader, commit, history
<1>q. /\ q \in Sessions /\ ~Aside(q) /\ \A r \in Sessions : r # NoSession
      /\ mem[q] = "freed" => callback[q] /\ q \in unsent
  BY <1>0, <1>a, OnSession, SessionParts
<1>e. Account(q) /\ timer[q] = "running" /\ q \notin expired
  BY <1>q DEF IInv, Account, Timed
<1>b. /\ at'["OnRead"] = at["OnRead"] /\ cur'["OnRead"] = cur["OnRead"]
      /\ at'["Timeout"] = "idle" /\ cur'["Timeout"] = NoSession
  BY <1>0, <1>a DEF TypeOK
<1>o. /\ owners' \in [Sessions -> Bits] /\ owners[q].shared \in Int
      /\ owners'[q].shared = owners[q].shared - 1
      /\ owners'[q].upgraded = owners[q].upgraded /\ owners'[q].exclusive = owners[q].exclusive
      /\ \A r \in Sessions : r # q => owners'[r] = owners[r]
  BY ZenonT(40), <1>0, <1>q, <1>a, WordSub DEF TypeOK, SetOwners
<1> HIDE DEF q
<1>1. TypeOK'
  <2>1. at' \in [Notifiers -> ThreadAt]
    BY <1>0, <1>a DEF TypeOK, ThreadAt
  <2>2. cur' \in [Notifiers -> Sessions \cup {NoSession}]
    BY <1>0, <1>a DEF TypeOK
  <2>3. timer' \in [Sessions -> {"none", "pending", "abandoned", "running", "over"}]
    BY <1>0, <1>a DEF TypeOK
  <2>4. dangling' \subseteq (Callers \cup Notifiers) \X Sessions /\ expired' \subseteq Sessions
    BY SMT, <1>0, <1>q, <1>a DEF TypeOK, Use
  <2> QED BY <1>0, <1>u, <1>o, <2>1, <2>2, <2>3, <2>4 DEF TypeOK
<1>2. ASSUME NEW r \in Sessions PROVE Account(r)'
  <2>0. Account(r)
    BY DEF IInv
  <2>1. Callback(r)'
    BY <1>u, <2>0 DEF Account, Callback
  <2>2. (Past(r)' <=> Past(r)) /\ (Preparing(r)' <=> Preparing(r))
    BY <1>u DEF Past, Preparing
  <2>3. CASE r # q
    <3>1. timer'[r] = timer[r]
      BY <1>0, <1>a, <2>3 DEF TypeOK
    <3>2. \A t \in Notifiers : (cur'[t] = r <=> cur[t] = r) /\ (cur[t] = r => at'[t] = at[t])
      BY <1>q, <1>b, <2>3 DEF Notifiers, q
    <3>3. Same(r)
      <4>1. r \in expired' <=> r \in expired
        BY <1>a, <2>3
      <4>2. owners'[r] = owners[r]
        BY <1>o, <2>3
      <4> QED BY <1>u, <2>2, <3>1, <3>2, <4>1, <4>2 DEF Same, Queued
    <3> QED BY <1>u, <2>0, <2>1, <3>1, <3>3, SameAccount, SameCalled DEF Account
  <2>4. CASE r = q
    <3>1. timer'[r] = "over" /\ cur["Timeout"] = r /\ cur'["Timeout"] # r
      BY <1>0, <1>a, <1>b, <1>q, <2>4 DEF TypeOK, q
    <3>2. Aside(r)' <=> Aside(r)
      BY <1>u, <1>o, <2>2, <2>4 DEF Aside
    <3>3. Returned(r)' = Returned(r) + 1
      BY SMT, <1>a, <1>e, <1>u, <2>4 DEF Returned, One
    <3>4. /\ Inside(r)' = Inside(r) /\ One(Left(r))' = One(Left(r))
          /\ Delivering(r)' <=> Delivering(r)
      BY ZenonT(40), <1>a, <1>b, <1>u, <2>2, <3>1 DEF Inside, Holds, Left, One, Delivering, Notifiers
    <3>5. Returned(r) \in Int /\ Inside(r) \in Int /\ One(Left(r)) \in Int
      BY CountsInt
    <3>o. /\ owners[r].shared \in Int /\ owners'[r].shared = owners[r].shared - 1
          /\ owners'[r].upgraded = owners[r].upgraded /\ owners'[r].exclusive = owners[r].exclusive
      BY <1>o, <2>4
    <3>6. Shares(r)'
      <4>1. mem' = mem /\ delivered' = delivered
        BY <1>u
      <4>2. Shares(r)
        BY <2>0 DEF Account
      <4>3. ASSUME mem[r] = "live"
            PROVE  owners'[r].shared = 1 - Returned(r)' + Inside(r)' + One(Left(r))'
        <5>1. owners[r].shared = 1 - Returned(r) + Inside(r) + One(Left(r))
          BY <4>2, <4>3 DEF Shares
        <5> QED BY SMT, <3>o, <3>3, <3>4, <3>5, <5>1
      <4> QED BY <3>o, <3>4, <4>1, <4>2, <4>3 DEF Shares
    <3>7. Wins(r)'
      BY ZenonT(40), <1>b, <1>u, <2>0, <3>4 DEF Account, Wins, Notifiers
    <3>8. Gone(r)'
      <4>1. Gone(r) /\ mem' = mem /\ callback' = callback /\ delivered' = delivered /\ unsent' = unsent
        BY <1>u, <2>0 DEF Account
      <4>2. \A t \in Notifiers : cur'[t] = r => cur[t] = r /\ at'[t] = at[t]
        BY <1>b, <3>1 DEF Notifiers
      <4>3. r \in expired => r \in expired'
        BY <1>a
      <4> QED BY <2>2, <3>o, <4>1, <4>2, <4>3 DEF Gone
    <3>9. Places(r)'
      BY <1>q, <1>u, <2>0, <2>2, <2>4, <3>2 DEF Account, Places, Queued, Aside
    <3>10. Called(r)'
      BY <1>e, <1>u, <2>0, <2>2, <2>4, <3>2 DEF Account, Called
    <3>11. Timed(r)'
      BY <3>1 DEF Timed
    <3> QED BY <2>1, <3>6, <3>7, <3>8, <3>9, <3>10, <3>11 DEF Account
  <2> QED BY <2>3, <2>4
<1>3. \A c \in Callers : Invoked(c)'
  BY <1>u DEF IInv, Invoked
<1>4. ThreadsPlaced'
  BY <1>b, <1>u DEF IInv, ThreadsPlaced
<1>5. Order'
  BY <1>b, <1>u DEF IInv, Order, Queued
<1>6. DanglesOnlyLate'
  BY SMT, <1>a, <1>q, <1>u DEF IInv, DanglesOnlyLate, Use
<1> QED BY <1>1, <1>2, <1>3, <1>4, <1>5, <1>6 DEF IInv

-----------------------------------------------------------------------------
\* The initial state satisfies the inductive invariant.
LEMMA InitIInv == Init => IInv
<1> SUFFICES ASSUME Init PROVE IInv
  OBVIOUS
<1> USE DEF Init
<1>1. TypeOK
  <2>1. /\ pc \in [Callers -> CallAt] /\ _error_code \in [Callers -> Errors]
        /\ overlap \in BOOLEAN
        /\ at \in [Notifiers -> ThreadAt] /\ cur \in [Notifiers -> Sessions \cup {NoSession}]
    BY DEF CallAt, ThreadAt, Errors
  <2>2. /\ attempt \in [Callers -> Nat] /\ \A c \in Callers : attempt[c] \in 1..Retry[c]
        /\ mem \in [Sessions -> {"unborn", "live", "freed"}]
        /\ has_callback \in [Callers -> BOOLEAN] /\ owners \in [Sessions -> Bits]
        /\ callback \in [Sessions -> BOOLEAN]
        /\ result \in [Sessions -> {"unset", "SESSION_OK", "READ_TIMEOUT"}]
        /\ timer \in [Sessions -> {"none", "pending", "abandoned", "running", "over"}]
    BY SMT, RetryAssumption DEF NoBits, Bits
  <2>3. /\ _session_info \in Seq(Sessions) /\ Len(_session_info) <= QueueCapacity
        /\ published \in Nat /\ delivered \in [Sessions -> Nat] /\ invoked \in [Callers -> Nat]
    BY SMT, QueueAssumption
  <2> QED BY <2>1, <2>2, <2>3 DEF TypeOK
<1>2. ASSUME NEW r \in Sessions PROVE Account(r)
  <2>1. r[1] \in Callers /\ r[2] \in Nat /\ r[2] >= 1 /\ r # NoSession
    BY SMT, SessionParts, RetryAssumption
  <2>2. Shares(r) /\ Wins(r) /\ Gone(r) /\ Timed(r)
    BY SMT, <2>1 DEF Shares, Wins, Gone, Timed, Delivering, Notifiers
  <2>3. Aside(r) /\ Queued = {} /\ ~Preparing(r)
    BY SMT, <2>1 DEF Aside, Queued, Preparing
  <2>4. Places(r) /\ Callback(r)
    BY <2>1, <2>3 DEF Places, Callback, Notifiers
  <2>5. Called(r)
    BY <2>1, <2>3 DEF Called
  <2> QED BY <2>2, <2>4, <2>5 DEF Account
<1>3. \A c \in Callers : Invoked(c)
  BY SMT DEF Invoked
<1>4. ThreadsPlaced /\ Order /\ DanglesOnlyLate
  BY SMT DEF ThreadsPlaced, Order, DanglesOnlyLate, Notifiers
<1> QED BY <1>1, <1>2, <1>3, <1>4 DEF IInv

\* A step of a notifier keeps the inductive invariant.
LEMMA NotifyIInv ==
  ASSUME IInv, NEW t \in Notifiers, notify(t)
  PROVE  IInv'
  BY Notify_tryShared, Notify_undo, Notify_upgrade, Notify_callback, Notify_promise, Notify_release
  DEF notify

\* A step of a caller keeps the inductive invariant.
LEMMA CallerIInv ==
  ASSUME IInv, NEW c \in Callers, caller(c)
  PROVE  IInv'
<1>1. CASE sendInternal(c)
  BY <1>1, Send_early, Send_new, Send_prepareRead, Send_busy, Send_push, Send_addTimeschdule,
     Send_timer_task_id, Send_write, Send_write_fail, Send_giveUp, Send_written, Send_wait,
     Send_releaseShared DEF sendInternal
<1>2. CASE sendInternalWithRetry(c)
  BY <1>2, Retry_none, Retry_again
<1>3. CASE async_return(c)
  BY <1>3, Async_return
<1> QED BY <1>1, <1>2, <1>3 DEF caller

\* A step of reclaiming keeps the inductive invariant.
LEMMA ReclaimIInv ==
  ASSUME IInv, NEW r \in Sessions, tryReclaimSessionMap(r) \/ destruct_reclaim(r)
  PROVE  IInv'
<1>1. r \in todo /\ tryReclaim(r) /\ at["OnRead"] \in {"idle", "reclaim"}
  BY DEF tryReclaimSessionMap, destruct_reclaim, IInv, ThreadsPlaced
<1>2. UNCHANGED <<pc, attempt, _error_code, has_callback, callback, result, timer, _session_info,
                  older, wire, socket, published, overlap, at, cur, delivered, invoked, expired,
                  unsent, dangling>>
  BY DEF tryReclaimSessionMap, destruct_reclaim, call, commit, thread, history
<1> QED BY <1>1, <1>2, Reclaim

\* Facts about cardinalities.
FST == INSTANCE FiniteSetTheorems

\* The library's finite sets and cardinality are the ones the model uses.
LEMMA SameNotions ==
  ASSUME NEW S
  PROVE  (FST!IsFiniteSet(S) <=> IsFiniteSet(S)) /\ FST!Cardinality(S) = Cardinality(S)
  BY DEF IsFiniteSet, FST!IsFiniteSet, Cardinality, FST!Cardinality

\* A set onto which 1..n maps is finite, of at most n elements.
LEMMA FiniteImage ==
  ASSUME NEW n \in Nat, NEW S, NEW f \in [1..n -> S], \A x \in S : \E k \in 1..n : f[k] = x
  PROVE  IsFiniteSet(S) /\ Cardinality(S) <= n
<1>1. FST!ExistsSurjection(1..n, S)
  BY DEF FST!ExistsSurjection, FST!Surjection
<1>2. FST!IsFiniteSet(S) /\ FST!Cardinality(S) <= n
  BY <1>1, FST!FS_NatSurjection, FST!FS_SurjCardinalityBound
<1> QED BY <1>2, SameNotions

\* A subset of a finite set is finite and no larger, and as large only if equal.
LEMMA FiniteSubset ==
  ASSUME NEW S, IsFiniteSet(S), NEW T \in SUBSET S
  PROVE  /\ IsFiniteSet(T) /\ Cardinality(T) <= Cardinality(S)
         /\ Cardinality(S) = Cardinality(T) => S = T
<1>1. FST!IsFiniteSet(S)
  BY SameNotions
<1>2. /\ FST!IsFiniteSet(T) /\ FST!Cardinality(T) <= FST!Cardinality(S)
      /\ FST!Cardinality(S) = FST!Cardinality(T) => S = T
  BY <1>1, FST!FS_Subset
<1>3. /\ FST!Cardinality(S) = Cardinality(S) /\ FST!Cardinality(T) = Cardinality(T)
      /\ FST!IsFiniteSet(T) <=> IsFiniteSet(T)
  BY SameNotions
<1> QED BY <1>2, <1>3

\* The cardinality of a finite set is a natural number.
LEMMA FiniteCount ==
  ASSUME NEW S, IsFiniteSet(S)
  PROVE  Cardinality(S) \in Nat
<1>1. FST!IsFiniteSet(S)
  BY SameNotions
<1>2. FST!Cardinality(S) \in Nat
  BY <1>1, FST!FS_CardinalityType
<1> QED BY <1>2, SameNotions

\* Adding a new element adds one to the cardinality.
LEMMA FiniteAdd ==
  ASSUME NEW S, IsFiniteSet(S), NEW x, x \notin S
  PROVE  IsFiniteSet(S \cup {x}) /\ Cardinality(S \cup {x}) = Cardinality(S) + 1
<1>1. FST!IsFiniteSet(S)
  BY SameNotions
<1>2. FST!IsFiniteSet(S \cup {x}) /\ FST!Cardinality(S \cup {x}) = FST!Cardinality(S) + 1
  BY <1>1, FST!FS_AddElement
<1> QED BY <1>2, SameNotions

\* Removing an element takes one from the cardinality.
LEMMA FiniteRemove ==
  ASSUME NEW S, IsFiniteSet(S), NEW x, x \in S
  PROVE  IsFiniteSet(S \ {x}) /\ Cardinality(S \ {x}) = Cardinality(S) - 1
<1>1. FST!IsFiniteSet(S)
  BY SameNotions
<1>2. FST!IsFiniteSet(S \ {x}) /\ FST!Cardinality(S \ {x}) = FST!Cardinality(S) - 1
  BY <1>1, FST!FS_RemoveElement
<1> QED BY <1>2, SameNotions

\* The cardinality of the empty set and of a singleton.
LEMMA FiniteSmall ==
  IsFiniteSet({}) /\ Cardinality({}) = 0 /\ \A x : Cardinality({x}) = 1
<1>1. FST!IsFiniteSet({}) /\ FST!Cardinality({}) = 0 /\ \A x : FST!Cardinality({x}) = 1
  BY FST!FS_EmptySet, FST!FS_Singleton
<1> QED BY <1>1, SameNotions

-----------------------------------------------------------------------------
\* Every step of the callers, the timer thread, the reader and ~Socket preserves
\* the account of the shares.
LEMMA NextIInv ==
  ASSUME IInv, Pushes, [Next]_vars
  PROVE  IInv'
<1>1. CASE \E c \in Callers : caller(c)
  BY <1>1, CallerIInv
<1>2. CASE timeout
  <2>1. CASE notify("Timeout")
    BY <2>1, NotifyIInv DEF Notifiers
  <2> QED BY <1>2, <2>1, Timeout_run, Timeout_drop, Timeout_releaseShared DEF timeout
<1>3. CASE onRead_continue
  <2>1. CASE notify("OnRead")
    BY <2>1, NotifyIInv DEF Notifiers
  <2>2. CASE onRead_pop
    <3>1. published \in Nat /\ Len(_session_info) \in Nat
      BY SMT DEF IInv, TypeOK
    <3>2. published <= Len(_session_info)
      <4>1. Cardinality(Pushing) \in Nat /\ Len(_session_info) = published + Cardinality(Pushing)
        BY FiniteCount DEF Pushes, Balanced
      <4> QED BY SMT, <3>1, <4>1
    <3>3. published > 0 \/ published = 0
      BY SMT, <3>1
    <3> QED BY <2>2, <3>2, <3>3, OnRead_pop, OnRead_popped
  <2> QED BY <1>3, <2>1, <2>2, OnRead_popped, OnRead_find, OnRead_return, ReclaimIInv
          DEF onRead_continue
<1>4. CASE onRead_reclaim \/ \E r \in Sessions : onRead_message(r)
  BY <1>4, OnRead_message, OnRead_reclaim
<1>5. CASE destruct \/ destruct_loop
  BY <1>5, Destruct, Destruct_again, ReclaimIInv DEF destruct_loop
<1>6. CASE UNCHANGED vars
  <2>1. /\ \A r \in Sessions : Account(r)'
        /\ \A c \in Callers : Invoked(c)'
    <3>1. ASSUME NEW r \in Sessions PROVE Account(r)'
      <4>1. Account(r)
        BY DEF IInv
      <4>2. Same(r)
        BY <1>6 DEF vars, call, heap, reader, commit, thread, history, Same, Past, Preparing, Queued
      <4>3. Callback(r)'
        BY <1>6, <4>1 DEF vars, call, heap, reader, commit, thread, history, Account, Callback
      <4> QED BY <1>6, <4>1, <4>2, <4>3, SameAccount, SameCalled
              DEF vars, call, Account
    <3>2. \A c \in Callers : Invoked(c)'
      BY <1>6 DEF vars, call, heap, reader, commit, thread, history, IInv, Invoked
    <3> QED BY <3>1, <3>2
  <2>2. TypeOK'
    BY <1>6 DEF vars, call, heap, reader, commit, thread, history, IInv, TypeOK
  <2>3. ThreadsPlaced' /\ Order' /\ DanglesOnlyLate'
    BY <1>6 DEF vars, call, heap, reader, commit, thread, history, IInv, ThreadsPlaced, Order, Queued,
                DanglesOnlyLate
  <2> QED BY <2>1, <2>2, <2>3 DEF IInv
<1> QED BY <1>1, <1>2, <1>3, <1>4, <1>5, <1>6 DEF Next

-----------------------------------------------------------------------------
\* A step that neither claims nor publishes a slot and pops none.
LEMMA QuietPushes ==
  ASSUME Pushes, UNCHANGED <<_session_info, published, overlap>>, Pushing' = Pushing,
         \A c \in Pushing : Mine(c)' = Mine(c),
         \A c \in Pushing : Mine(c) \in wire' => Mine(c) \in wire,
         \A c \in Pushing : cur'["OnRead"] = Mine(c) => cur["OnRead"] = Mine(c) \/ Mine(c) \in wire,
         at'["OnRead"] = "find" => at["OnRead"] = "find" /\ cur'["OnRead"] = cur["OnRead"]
  PROVE  Pushes'
<1>1. Balanced'
  BY DEF Pushes, Balanced
<1>2. \A c \in Pushing' : Mine(c)' \notin wire' /\ cur'["OnRead"] # Mine(c)'
  BY DEF Pushes
<1>3. Alone => Alone'
  BY DEF Alone, Queued
<1> QED BY <1>1, <1>2, <1>3 DEF Pushes

\* What the steps of a caller outside push() leave alone.
LEMMA CallerPushes ==
  ASSUME IInv, Pushes, NEW c \in Callers, caller(c),
         ~sendInternal_publish(c), ~sendInternal_prepareRead(c) \/ ~(Len(_session_info) < QueueCapacity)
  PROVE  Pushes'
<1>0. TypeOK
  BY DEF IInv
<1>q. \A d \in Callers : Mine(d) = Mine(c) => d = c
  BY <1>0, MineSession
<1>1. UNCHANGED <<_session_info, published, overlap, at, cur>>
  BY DEF caller, sendInternal, sendInternal_early, sendInternal_new, sendInternal_prepareRead,
         sendInternal_fill, sendInternal_addTimeschdule, sendInternal_timer_task_id,
         sendInternal_write, sendInternal_write_fail, sendInternal_giveUp, sendInternal_written,
         sendInternal_wait, sendInternal_releaseShared, sendInternalWithRetry, async_return,
         reader, commit, thread
<1>2. \E x : /\ pc' = [pc EXCEPT ![c] = x]
             /\ x \in {"fill", "publish"} <=> pc[c] \in {"fill", "publish"}
  BY DEF caller, sendInternal, sendInternal_early, sendInternal_new, sendInternal_prepareRead,
         sendInternal_fill, sendInternal_addTimeschdule, sendInternal_timer_task_id,
         sendInternal_write, sendInternal_write_fail, sendInternal_giveUp, sendInternal_written,
         sendInternal_wait, sendInternal_releaseShared, sendInternalWithRetry, async_return, Step
<1>3. attempt' = attempt \/ (pc[c] = "attempted" /\ \E n : attempt' = [attempt EXCEPT ![c] = n])
  BY DEF caller, sendInternal, sendInternal_early, sendInternal_new, sendInternal_prepareRead,
         sendInternal_fill, sendInternal_addTimeschdule, sendInternal_timer_task_id,
         sendInternal_write, sendInternal_write_fail, sendInternal_giveUp, sendInternal_written,
         sendInternal_wait, sendInternal_releaseShared, sendInternalWithRetry, async_return, Step
<1>4. wire' = wire \/ (pc[c] = "write" /\ wire' = wire \cup {Mine(c)})
  BY DEF caller, sendInternal, sendInternal_early, sendInternal_new, sendInternal_prepareRead,
         sendInternal_fill, sendInternal_addTimeschdule, sendInternal_timer_task_id,
         sendInternal_write, sendInternal_write_fail, sendInternal_giveUp, sendInternal_written,
         sendInternal_wait, sendInternal_releaseShared, sendInternalWithRetry, async_return,
         Step, reader
<1>5. Pushing' = Pushing
  <2>1. \A d \in Callers : pc'[d] \in {"fill", "publish"} <=> pc[d] \in {"fill", "publish"}
    BY <1>0, <1>2 DEF TypeOK
  <2> QED BY <2>1 DEF Pushing
<1>6. \A d \in Pushing : Mine(d)' = Mine(d)
  <2>1. \A d \in Pushing : attempt'[d] = attempt[d]
    BY <1>0, <1>3 DEF TypeOK, Pushing
  <2> QED BY <2>1 DEF Mine
<1>7. \A d \in Pushing : Mine(d) \in wire' => Mine(d) \in wire
  BY <1>4, <1>q DEF Pushing
<1> QED BY <1>1, <1>5, <1>6, <1>7, QuietPushes

\* A slot is claimed.
LEMMA ClaimPushes ==
  ASSUME IInv, Pushes, NEW c \in Callers, sendInternal_prepareRead(c),
         Len(_session_info) < QueueCapacity
  PROVE  Pushes'
<1>0. TypeOK /\ _session_info \in Seq(Sessions) /\ published \in Nat
  BY DEF IInv, TypeOK
<1>q. Mine(c) \in Sessions /\ Account(Mine(c)) /\ Preparing(Mine(c))
  BY <1>0, MineSession DEF IInv, Preparing, sendInternal_prepareRead, Step
<1>a. /\ pc[c] = "prepareRead" /\ pc' = [pc EXCEPT ![c] = "fill"]
      /\ _session_info' = Append(_session_info, Mine(c))
      /\ overlap' = (overlap \/ Pushing # {})
  BY SMT DEF sendInternal_prepareRead, Step
<1>u. UNCHANGED <<attempt, wire, published, at, cur>>
  BY DEF sendInternal_prepareRead, thread
<1>b. Pushing' = Pushing \cup {c} /\ c \notin Pushing
  <2>1. pc \in [Callers -> CallAt]
    BY <1>0 DEF TypeOK
  <2> QED BY <1>a, <2>1 DEF Pushing
<1>p. Mine(c) \notin wire /\ cur["OnRead"] # Mine(c)
  BY <1>q DEF Account, Places, Aside
<1>m. \A d : Mine(d)' = Mine(d)
  BY <1>u DEF Mine
<1>1. Balanced'
  <2>1. /\ IsFiniteSet(Pushing') /\ Cardinality(Pushing') = Cardinality(Pushing) + 1
        /\ Cardinality(Pushing) \in Nat
    BY <1>b, FiniteAdd, FiniteCount DEF Pushes, Balanced
  <2>2. Len(_session_info') = Len(_session_info) + 1 /\ Len(_session_info) \in Nat
    BY SMT, <1>0, <1>q, <1>a
  <2>3. Len(_session_info) = published + Cardinality(Pushing)
    BY DEF Pushes, Balanced
  <2>4. Len(_session_info') = published' + Cardinality(Pushing')
    BY SMT, <1>0, <1>u, <2>1, <2>2, <2>3
  <2> QED BY <2>1, <2>4 DEF Balanced
<1>2. \A d \in Pushing' : Mine(d)' \notin wire' /\ cur'["OnRead"] # Mine(d)'
  BY <1>u, <1>b, <1>p, <1>m DEF Pushes
<1>3. ASSUME ~overlap' PROVE Alone'
  <2>1. Pushing = {} /\ Pushing' = {c} /\ Alone
    BY <1>a, <1>b, <1>3 DEF Pushes
  <2>2. _session_info'[Len(_session_info')] = Mine(c) /\ Queued' = Queued \cup {Mine(c)}
    BY SMT, <1>0, <1>q, <1>a DEF Queued
  <2>3. at'["OnRead"] = "find" => cur'["OnRead"] \notin Queued'
    BY <1>u, <1>p, <2>1, <2>2 DEF Alone
  <2> QED BY <1>m, <2>1, <2>2, <2>3 DEF Alone
<1> QED BY <1>1, <1>2, <1>3 DEF Pushes

\* A slot is published.
LEMMA PublishPushes ==
  ASSUME IInv, Pushes, NEW c \in Callers, sendInternal_publish(c)
  PROVE  Pushes'
<1>0. TypeOK /\ published \in Nat /\ pc \in [Callers -> CallAt]
  BY DEF IInv, TypeOK
<1>a. /\ pc[c] = "publish" /\ pc' = [pc EXCEPT ![c] = "addTimeschdule"]
      /\ published' = published + 1
  BY DEF sendInternal_publish, Step
<1>u. UNCHANGED <<attempt, wire, _session_info, overlap, at, cur>>
  BY DEF sendInternal_publish, thread
<1>b. Pushing' = Pushing \ {c} /\ c \in Pushing
  BY <1>0, <1>a DEF Pushing
<1>m. \A d : Mine(d)' = Mine(d)
  BY <1>u DEF Mine
<1>1. Balanced'
  <2>1. /\ IsFiniteSet(Pushing') /\ Cardinality(Pushing') = Cardinality(Pushing) - 1
        /\ Cardinality(Pushing) \in Nat
    BY <1>b, FiniteRemove, FiniteCount DEF Pushes, Balanced
  <2>2. Len(_session_info) = published + Cardinality(Pushing)
    BY DEF Pushes, Balanced
  <2>3. Len(_session_info') = published' + Cardinality(Pushing')
    BY SMTT(30), <1>0, <1>a, <1>u, <2>1, <2>2
  <2> QED BY <2>1, <2>3 DEF Balanced
<1>2. \A d \in Pushing' : Mine(d)' \notin wire' /\ cur'["OnRead"] # Mine(d)'
  BY <1>u, <1>b, <1>m DEF Pushes
<1>3. Alone => Alone'
  BY <1>u, <1>b, <1>m DEF Alone, Queued
<1> QED BY <1>u, <1>1, <1>2, <1>3 DEF Pushes

\* The reader pops a slot that is filled.
LEMMA PopPushes ==
  ASSUME IInv, Pushes, onRead_pop, published > 0
  PROVE  Pushes'
<1>0. /\ TypeOK /\ _session_info \in Seq(Sessions) /\ Len(_session_info) \in Nat
      /\ published \in Nat /\ at \in [Notifiers -> ThreadAt] /\ "OnRead" \in Notifiers
  BY SMT DEF IInv, TypeOK, Notifiers
<1>a. /\ at["OnRead"] = "pop" /\ published' = published - 1
      /\ _session_info' = Tail(_session_info)
      /\ at' = [at EXCEPT !["OnRead"] = IF Head(_session_info) \in older THEN "pop" ELSE "find"]
  BY SMT DEF onRead_pop
<1>u. UNCHANGED <<pc, attempt, wire, overlap, cur, older>>
  BY SMT DEF onRead_pop, call
<1>m. Pushing' = Pushing /\ \A d : Mine(d)' = Mine(d)
  BY <1>u DEF Mine, Pushing
<1>n. /\ IsFiniteSet(Pushing) /\ Cardinality(Pushing) \in Nat
      /\ Len(_session_info) = published + Cardinality(Pushing)
  BY FiniteCount DEF Pushes, Balanced
<1>l. /\ Len(_session_info) >= 1 /\ Head(_session_info) = _session_info[1]
      /\ Len(_session_info') = Len(_session_info) - 1
      /\ \A n \in 1..Len(_session_info') : _session_info'[n] = _session_info[n + 1]
  <2>1. _session_info # << >>
    BY SMT, <1>0, <1>n
  <2> QED BY SMT, <1>0, <1>a, <2>1
<1>1. Balanced'
  <2>1. Len(_session_info') = published' + Cardinality(Pushing)
    BY SMTT(30), <1>0, <1>a, <1>n, <1>l
  <2> QED BY <1>m, <1>n, <2>1 DEF Balanced
<1>2. \A d \in Pushing' : Mine(d)' \notin wire' /\ cur'["OnRead"] # Mine(d)'
  BY <1>u, <1>m DEF Pushes
<1>3. ASSUME Alone PROVE Alone'
  <2>1. ASSUME NEW c \in Pushing PROVE _session_info'[Len(_session_info')] = Mine(c)
    <3>1. Pushing = {c}
      BY <1>3, <2>1 DEF Alone
    <3>2. Cardinality(Pushing) = 1
      BY <3>1, FiniteSmall
    <3>3. Len(_session_info') >= 1 /\ Len(_session_info') + 1 = Len(_session_info)
      BY SMTT(30), <1>0, <1>n, <1>l, <3>2
    <3>4. _session_info'[Len(_session_info')] = _session_info[Len(_session_info)]
      BY SMT, <1>0, <1>l, <3>3
    <3> QED BY <1>3, <2>1, <3>4 DEF Alone
  <2>2. ASSUME at'["OnRead"] = "find" PROVE cur'["OnRead"] \notin Queued'
    <3>1. Head(_session_info) \notin older
      BY <1>0, <1>a, <2>2
    <3>2. \A n \in 1..Len(_session_info) :
            1 < n /\ _session_info[n] = cur["OnRead"] => _session_info[1] \in older
      BY SMTT(30), <1>a, <1>0, <1>l DEF IInv, Order
    <3>3. \A n \in 1..Len(_session_info') : n + 1 \in 1..Len(_session_info) /\ 1 < n + 1
      BY SMT, <1>0, <1>l
    <3> QED BY <1>u, <1>l, <3>1, <3>2, <3>3 DEF Queued
  <2> QED BY <1>3, <1>m, <2>1, <2>2 DEF Alone
<1> QED BY <1>u, <1>1, <1>2, <1>3 DEF Pushes

\* The reader stops popping because no slot is published.
LEMMA PoppedPushes ==
  ASSUME IInv, Pushes, onRead_pop, published = 0
  PROVE  Pushes'
<1>0. /\ TypeOK /\ _session_info \in Seq(Sessions) /\ Len(_session_info) \in Nat
  BY SMT DEF IInv, TypeOK
<1>u. UNCHANGED <<pc, attempt, wire, overlap, cur, _session_info, published>>
  BY SMT DEF onRead_pop, call
<1>m. Pushing' = Pushing /\ \A d : Mine(d)' = Mine(d)
  BY <1>u DEF Mine, Pushing
<1>1. Balanced' /\ \A d \in Pushing' : Mine(d)' \notin wire' /\ cur'["OnRead"] # Mine(d)'
  BY <1>u, <1>m DEF Pushes, Balanced
<1>2. ASSUME Alone PROVE cur["OnRead"] \notin Queued
  <2>1. Cardinality(Pushing) \in Nat /\ Len(_session_info) = Cardinality(Pushing)
    BY SMT, <1>0, FiniteCount DEF Pushes, Balanced
  <2>2. CASE Pushing = {}
    <3>1. Len(_session_info) = 0
      BY <2>1, <2>2, FiniteSmall
    <3> QED BY SMT, <3>1 DEF Queued
  <2>3. ASSUME NEW c \in Pushing PROVE cur["OnRead"] \notin Queued
    <3>1. Pushing = {c}
      BY <1>2, <2>3 DEF Alone
    <3>2. Len(_session_info) = 1
      BY <2>1, <3>1, FiniteSmall
    <3>3. Queued = {_session_info[1]}
      BY SMT, <3>2 DEF Queued
    <3>4. _session_info[1] = Mine(c) /\ cur["OnRead"] # Mine(c)
      BY <1>2, <2>3, <3>2 DEF Alone, Pushes
    <3> QED BY <3>3, <3>4
  <2> QED BY <2>2, <2>3
<1>3. Alone => Alone'
  BY <1>u, <1>m, <1>2 DEF Alone, Queued
<1> QED BY <1>u, <1>1, <1>3 DEF Pushes

\* The initial state has no push in it.
LEMMA InitPushes == Init => Pushes
<1> SUFFICES ASSUME Init PROVE Pushes
  OBVIOUS
<1>1. Pushing = {}
  BY DEF Init, Pushing
<1>2. IsFiniteSet(Pushing) /\ Cardinality(Pushing) = 0
  BY <1>1, FiniteSmall
<1>3. published = 0 /\ Len(_session_info) = 0 /\ at["OnRead"] = "idle"
  BY SMT DEF Init, Notifiers
<1>4. Balanced
  BY SMT, <1>2, <1>3 DEF Balanced
<1>5. Alone
  BY <1>1, <1>3 DEF Alone
<1> QED BY <1>1, <1>4, <1>5 DEF Pushes

\* Every step keeps the balance of the pushes.
LEMMA NextPushes ==
  ASSUME IInv, Pushes, [Next]_vars
  PROVE  Pushes'
<1>0. /\ TypeOK /\ published \in Nat /\ at \in [Notifiers -> ThreadAt]
      /\ cur \in [Notifiers -> Sessions \cup {NoSession}]
      /\ "OnRead" \in Notifiers /\ "Timeout" \in Notifiers
  BY DEF IInv, TypeOK, Notifiers
<1>s. ASSUME NEW c \in Callers PROVE Mine(c) # NoSession
  BY <1>0, MineSession, SessionParts
<1>1. ASSUME NEW c \in Callers, caller(c) PROVE Pushes'
  BY <1>1, CallerPushes, ClaimPushes, PublishPushes
<1>q. ASSUME UNCHANGED <<pc, attempt, _session_info, published, overlap>>, wire' \subseteq wire,
             \/ cur'["OnRead"] = cur["OnRead"]
             \/ cur'["OnRead"] \in wire \cup {NoSession},
             at'["OnRead"] = "find" => at["OnRead"] = "find" /\ cur'["OnRead"] = cur["OnRead"]
      PROVE  Pushes'
  <2>1. Pushing' = Pushing /\ \A c \in Pushing : Mine(c)' = Mine(c)
    BY <1>q DEF Pushing, Mine
  <2>2. \A c \in Pushing :
          /\ Mine(c) \in wire' => Mine(c) \in wire
          /\ cur'["OnRead"] = Mine(c) => cur["OnRead"] = Mine(c) \/ Mine(c) \in wire
    BY <1>q, <1>s DEF Pushing
  <2> QED BY <1>q, <2>1, <2>2, QuietPushes
<1>n. ASSUME NEW t \in Notifiers, notify(t) PROVE Pushes'
  <2>1. /\ UNCHANGED <<pc, attempt, _session_info, published, overlap, wire, cur>>
        /\ at[t] # "find" /\ \E x : x # "find" /\ at' = [at EXCEPT ![t] = x]
    BY <1>n DEF notify, notify_tryShared, notify_undo, notify_upgrade, notify_deliver,
                notify_release, AfterNotify, Move, call, reader, commit
  <2>2. at'["OnRead"] = "find" => at["OnRead"] = "find"
    BY <1>0, <2>1
  <2> QED BY <1>q, <2>1, <2>2
<1>2. CASE timeout
  <2>1. CASE timeout_releaseShared \/ \E r \in Sessions : timeout_run(r) \/ timeout_drop(r)
    <3>1. UNCHANGED <<pc, attempt, _session_info, published, overlap, wire>>
      BY <2>1 DEF timeout_releaseShared, timeout_run, timeout_drop, call, reader, commit
    <3>2. /\ cur' = cur \/ \E x : cur' = [cur EXCEPT !["Timeout"] = x]
          /\ at' = at \/ \E x : at' = [at EXCEPT !["Timeout"] = x]
      BY <2>1 DEF timeout_releaseShared, timeout_run, timeout_drop, Move, thread
    <3>3. cur'["OnRead"] = cur["OnRead"] /\ at'["OnRead"] = at["OnRead"]
      BY <1>0, <3>2
    <3> QED BY <1>q, <3>1, <3>3
  <2> QED BY <1>0, <1>2, <1>n, <2>1 DEF timeout
<1>3. CASE onRead_pop
  BY SMT, <1>0, <1>3, PopPushes, PoppedPushes
<1>4. CASE onRead_pop_unfilled \/ onRead_find \/ onRead_return
  <2>1. /\ UNCHANGED <<pc, attempt, _session_info, published, overlap, wire, cur>>
        /\ \E x : x # "find" /\ at' = [at EXCEPT !["OnRead"] = x]
    BY <1>4 DEF onRead_pop_unfilled, onRead_find, onRead_return, Move, call, reader, commit
  <2>2. at'["OnRead"] # "find"
    BY <1>0, <2>1
  <2> QED BY <1>q, <2>1, <2>2
<1>5. CASE \E r \in Sessions : onRead_message(r)
  <2>1. PICK r \in Sessions : onRead_message(r)
    BY <1>5
  <2>2. /\ UNCHANGED <<pc, attempt, _session_info, published, overlap>> /\ wire' \subseteq wire
        /\ at' = [at EXCEPT !["OnRead"] = "pop"] /\ cur' = [cur EXCEPT !["OnRead"] = r]
        /\ r \in wire
    BY <2>1 DEF onRead_message, call, commit
  <2>3. at'["OnRead"] = "pop" /\ cur'["OnRead"] = r
    BY <1>0, <2>2
  <2> QED BY <1>q, <2>2, <2>3
<1>6. CASE onRead_reclaim
  <2>1. /\ UNCHANGED <<pc, attempt, _session_info, published, overlap, wire>>
        /\ at' = [at EXCEPT !["OnRead"] = "reclaim"] /\ cur' = [cur EXCEPT !["OnRead"] = NoSession]
    BY <1>6 DEF onRead_reclaim, call, commit
  <2>2. at'["OnRead"] = "reclaim" /\ cur'["OnRead"] = NoSession
    BY <1>0, <2>1
  <2> QED BY <1>q, <2>1, <2>2
<1>7. CASE \E r \in Sessions : tryReclaimSessionMap(r) \/ destruct_reclaim(r)
  <2>1. UNCHANGED <<pc, attempt, _session_info, published, overlap, wire, at, cur>>
    BY <1>7 DEF tryReclaimSessionMap, destruct_reclaim, call, commit, thread
  <2> QED BY <1>q, <2>1
<1>8. CASE destruct
  <2>1. /\ _session_info' = << >> /\ published' = 0 /\ pc' = pc /\ at' = at /\ at["OnRead"] = "idle"
        /\ \A c \in Callers : pc[c] \in {"done", "threw"}
    BY <1>8 DEF destruct, call, thread
  <2>2. Pushing' = {}
    BY <2>1 DEF Pushing
  <2>3. Balanced'
    <3>1. IsFiniteSet(Pushing') /\ Cardinality(Pushing') = 0
      BY <2>2, FiniteSmall
    <3>2. Len(_session_info') = published' + Cardinality(Pushing')
      BY SMT, <2>1, <3>1
    <3> QED BY <3>1, <3>2 DEF Balanced
  <2>4. Alone'
    BY <2>1, <2>2 DEF Alone
  <2> QED BY <2>2, <2>3, <2>4 DEF Pushes
<1>9. CASE destruct_again \/ UNCHANGED vars
  <2>1. UNCHANGED <<pc, attempt, _session_info, published, overlap, wire, at, cur>>
    BY <1>9 DEF destruct_again, vars, call, reader, commit, thread
  <2> QED BY <1>q, <2>1
<1> QED BY <1>0, <1>1, <1>n, <1>2, <1>3, <1>4, <1>5, <1>6, <1>7, <1>8, <1>9
        DEF Next, onRead_continue, destruct_loop

\* The account implies what is promised of the outcome and of the memory.
LEMMA IInvDelivers == IInv => DeliveredOnce
<1> SUFFICES ASSUME IInv PROVE DeliveredOnce
  OBVIOUS
<1>1. TypeOK /\ (\A c \in Callers : invoked[c] <= 1)
  BY SMT DEF IInv, Invoked
<1>2. ASSUME NEW r \in Sessions
      PROVE  /\ delivered[r] <= 1
             /\ mem[r] = "freed" /\ timer[r] # "none" /\ ~(callback[r] /\ r \in unsent) =>
                  /\ delivered[r] = 1 /\ timer[r] = "over"
                  /\ ~callback[r] /\ attempt[r[1]] = r[2] =>
                       pc[r[1]] \in {"attempted", "return", "done", "threw"}
  <2>1. Account(r)
    BY DEF IInv
  <2>2. delivered[r] <= 1
    BY SMT, <2>1 DEF Account, Wins
  <2>3. ASSUME mem[r] = "freed", timer[r] # "none", ~(callback[r] /\ r \in unsent)
        PROVE  /\ delivered[r] = 1 /\ r \in expired /\ (~callback[r] => Past(r))
    <3>1. ~Aside(r)
      BY <2>1, <2>3 DEF Account, Places
    <3>2. owners[r].exclusive = 1
      BY <1>1, <2>3, <3>1 DEF Aside, TypeOK, Bits
    <3> QED BY <2>1, <2>3, <3>2 DEF Account, Gone
  <2> QED BY <2>1, <2>2, <2>3 DEF Account, Timed, Past
<1> QED BY <1>1, <1>2 DEF DeliveredOnce

\* The inductive invariant implies the property AnswerFindsSession.
LEMMA IInvFinds == IInv /\ Pushes => AnswerFindsSession
<1> SUFFICES ASSUME IInv, Pushes, ~overlap, at["OnRead"] = "find"
             PROVE  cur["OnRead"] \in _session_map \/ mem[cur["OnRead"]] = "freed"
  BY DEF AnswerFindsSession
<1>1. cur["OnRead"] \in Sessions /\ cur["OnRead"] \notin Queued
  BY DEF IInv, ThreadsPlaced, Pushes, Alone
<1>2. Account(cur["OnRead"])
  BY <1>1 DEF IInv
<1>3. ~Aside(cur["OnRead"])
  BY <1>2 DEF Account, Places
<1>4. mem[cur["OnRead"]] \in {"live", "freed"}
  BY <1>1, <1>3 DEF IInv, TypeOK, Aside
<1> QED BY <1>1, <1>2, <1>3, <1>4 DEF Account, Places

-----------------------------------------------------------------------------
\* The account of the shares holds in every state: sendInternal, notify, the
\* timer's task, tryReclaimSessionMap and ~Socket keep the LifeCycleLock of a
\* session equal to the number of those who still use it.
THEOREM SharesAccounted == Spec => [](IInv /\ Pushes)
  BY InitIInv, InitPushes, NextIInv, NextPushes, PTL DEF Spec

\* Answer and timeout race in notify, and exactly one of them delivers: no promise
\* is set twice, no callback runs twice for a call, and what tryReclaimSessionMap
\* or ~Socket frees has had its outcome, unless an asynchronous caller gave it up.
THEOREM OutcomeDeliveredOnce == Spec => []DeliveredOnce
  BY SharesAccounted, IInvDelivers, PTL

\* The share that notify leaves to a waiting thread protects every synchronous
\* call from the delete in tryReclaimSessionMap.  Only an asynchronous caller
\* overtaken by its timeout, or the timer thread on a session the caller gave up,
\* comes too late; the reader never does.
THEOREM UsesOnlyLate == Spec => []DanglesOnlyLate
<1>1. IInv => DanglesOnlyLate
  BY DEF IInv
<1> QED BY <1>1, SharesAccounted, PTL

\* Before cutIntoMessage looks an answer up, the loop over _session_info has moved
\* its session to _session_map, unless the session is gone altogether.
THEOREM AnswerFound == Spec => []AnswerFindsSession
  BY SharesAccounted, IInvFinds, PTL

-----------------------------------------------------------------------------
(***************************************************************************)
(* Pipelines.  The calls of a pipeline are those of SocketReadSession, and *)
(* the account of their shares holds there as well: a step of a pipeline   *)
(* is one of theirs, leaves them alone, or ends calls that were never      *)
(* made.  On top of it stands an account of the callbacks: what a thread   *)
(* has loaded from received_size is less than the number of callbacks that *)
(* have run, so whatever it stores is not more.                            *)
(***************************************************************************)

\* The calls whose callback has run, and the threads inside one.
Done == {c \in Callers : invoked[c] = 1}
Busy == {t \in Threads : loaded[t] # None}

PTypeOK ==
  /\ _requests \in Seq(Callers)
  /\ ppc \in {"begin", "sending", "waiting", "returned", "threw"}
  /\ i \in Nat /\ (ppc = "begin" => i = 1) /\ (ppc = "sending" => i \in 1..Len(_requests))
  /\ received_size \in Nat
  /\ loaded \in [Threads -> Nat \cup {None}]
  /\ status \in [Callers -> Errors]

\* A call that is not in the pipeline is never made.
OnlyPiped ==
  \A c \in Callers \ Piped :
    /\ invoked[c] = 0
    /\ \A r \in Sessions : r[1] = c => mem[r] = "unborn"

\* received_size never runs ahead of the callbacks.
NotAhead ==
  /\ received_size <= Cardinality(Done)
  /\ \A t \in Busy : loaded[t] < Cardinality(Done)

\* Without two callbacks at a time none is lost.
NoneLost ==
  ~overlapped =>
    /\ \A t, u \in Busy : t = u
    /\ \A t \in Busy : loaded[t] = received_size
    /\ received_size = Cardinality(Done) - Cardinality(Busy)

\* A callback that is told SESSION_OK is told so by the reader, with an answer.
ToldRight == \A c \in Done : status[c] = "SESSION_OK" => c \in answered

PInv ==
  /\ IInv /\ Pushes /\ PTypeOK
  /\ OnlyPiped /\ NotAhead /\ NoneLost /\ ToldRight
  /\ promise => Done = Piped
  /\ ppc = "returned" /\ error = "SESSION_OK" => Piped \subseteq answered

-----------------------------------------------------------------------------
\* Ending calls that were never made leaves the account of the shares as it is.
LEMMA UnmadeIInv ==
  ASSUME IInv, NEW cs, Unmade(cs)
  PROVE  IInv'
<1>0. TypeOK
  BY DEF IInv
<1>u. UNCHANGED <<attempt, _error_code, has_callback, mem, owners, callback, result, timer,
        _session_info, _session_map, older, todo, wire, socket, published, overlap, at, cur,
        delivered, invoked, expired, unsent, dangling>>
  BY DEF Unmade, heap, reader, commit, thread, history
<1>p. pc' = [c \in Callers |-> IF c \in cs /\ pc[c] = "begin" THEN "done" ELSE pc[c]]
  BY DEF Unmade
<1>c. \A c \in Callers : pc'[c] = pc[c] \/ (pc[c] = "begin" /\ pc'[c] = "done")
  BY <1>p
<1>1. TypeOK'
  <2>1. pc' \in [Callers -> CallAt]
    BY <1>0, <1>p DEF TypeOK, CallAt
  <2> QED BY <1>0, <1>u, <2>1 DEF TypeOK
<1>2. ASSUME NEW r \in Sessions PROVE Account(r)'
  <2>0. Account(r) /\ r[1] \in Callers
    BY SessionParts DEF IInv
  <2>1. Callback(r)'
    BY <1>u, <2>0 DEF Account, Callback
  <2>2. CASE pc'[r[1]] = pc[r[1]]
    <3>1. Same(r)
      BY <1>u, <2>2 DEF Same, Queued, Past, Preparing
    <3> QED BY <1>u, <2>0, <2>1, <2>2, <3>1, SameAccount, SameCalled DEF Account
  <2>3. CASE pc[r[1]] = "begin" /\ pc'[r[1]] = "done" /\ r[2] # attempt[r[1]]
    <3>1. Same(r)
      BY <1>u, <2>3 DEF Same, Queued, Past, Preparing
    <3> QED BY <1>u, <2>0, <2>1, <2>3, <3>1, SameAccount, SameCalled DEF Account
  <2>4. CASE pc[r[1]] = "begin" /\ pc'[r[1]] = "done" /\ r[2] = attempt[r[1]]
    <3>1. mem[r] = "unborn" /\ Aside(r) /\ r \notin unsent /\ ~callback[r] /\ delivered[r] = 0
      BY <2>0, <2>4 DEF Account, Called, Places, Aside
    <3>2. Aside(r)' /\ ~Preparing(r)' /\ Past(r)' /\ ~Preparing(r)
      BY <1>u, <2>4, <3>1 DEF Aside, Preparing, Past
    <3>3. Called(r)'
      BY <1>u, <2>4, <3>1, <3>2 DEF Called
    <3>4. Places(r)'
      BY <1>u, <2>0, <3>1, <3>2 DEF Account, Places, Queued
    <3>5. Shares(r)' /\ Gone(r)' /\ Wins(r)' /\ Timed(r)'
      BY <1>u, <2>0, <3>1 DEF Account, Shares, Gone, Wins, Delivering, Timed
    <3> QED BY <2>1, <3>3, <3>4, <3>5 DEF Account
  <2> QED BY <1>c, <2>0, <2>2, <2>3, <2>4
<1>3. \A d \in Callers : Invoked(d)'
  BY <1>c, <1>u DEF IInv, Invoked
<1>4. ThreadsPlaced' /\ Order' /\ DanglesOnlyLate'
  BY <1>u DEF IInv, ThreadsPlaced, Order, Queued, DanglesOnlyLate
<1> QED BY <1>1, <1>2, <1>3, <1>4 DEF IInv

\* Ending calls that were never made leaves the pushes as they are.
LEMMA UnmadePushes ==
  ASSUME Pushes, NEW cs, Unmade(cs)
  PROVE  Pushes'
<1>1. UNCHANGED <<attempt, _session_info, published, overlap, wire, at, cur>>
  BY DEF Unmade, reader, commit, thread
<1>2. Pushing' = Pushing
  BY DEF Unmade, Pushing
<1> QED BY <1>1, <1>2, QuietPushes DEF Mine

-----------------------------------------------------------------------------
\* The calls of a pipeline are finitely many, not more than its requests; and when
\* as many callbacks have run as there are requests, all of them have.
LEMMA PipedFinite ==
  ASSUME PInv
  PROVE  /\ IsFiniteSet(Piped) /\ Cardinality(Piped) <= Len(_requests)
         /\ Done \subseteq Piped /\ IsFiniteSet(Done) /\ Cardinality(Done) \in Nat
         /\ Cardinality(Done) >= Len(_requests) => Done = Piped
<1>1. _requests \in Seq(Callers) /\ Len(_requests) \in Nat /\ DOMAIN _requests = 1..Len(_requests)
  BY SMT DEF PInv, PTypeOK
<1>2. /\ _requests \in [1..Len(_requests) -> Piped]
      /\ \A c \in Piped : \E k \in 1..Len(_requests) : _requests[k] = c
  BY SMT, <1>1 DEF Piped
<1>3. IsFiniteSet(Piped) /\ Cardinality(Piped) <= Len(_requests)
  BY <1>1, <1>2, FiniteImage
<1>4. Done \subseteq Piped
  <2>1. ASSUME NEW c \in Callers, invoked[c] = 1, c \notin Piped PROVE FALSE
    <3>1. invoked[c] = 0
      BY <2>1 DEF PInv, OnlyPiped
    <3> QED BY SMTT(30), <2>1, <3>1
  <2> QED BY <2>1 DEF Done
<1>5. IsFiniteSet(Done) /\ Cardinality(Done) <= Cardinality(Piped)
  BY <1>3, <1>4, FiniteSubset
<1>6. Cardinality(Done) \in Nat /\ Cardinality(Piped) \in Nat
  BY <1>3, <1>5, FiniteCount
<1>7. ASSUME Cardinality(Done) >= Len(_requests) PROVE Done = Piped
  <2>1. Cardinality(Done) = Cardinality(Piped)
    BY SMTT(30), <1>1, <1>3, <1>5, <1>6, <1>7
  <2> QED BY <1>3, <1>4, <2>1, FiniteSubset
<1> QED BY <1>3, <1>4, <1>5, <1>6, <1>7

-----------------------------------------------------------------------------
\* What a step of SocketReadSession, taken by thread t, does to the callbacks and
\* to the sessions that are not made yet.
Effects(t) ==
  /\ \/ invoked' = invoked
     \/ \E c \in Callers :
          /\ invoked' = [invoked EXCEPT ![c] = @ + 1]
          /\ t = "sync" => _error_code[c] # "SESSION_OK" /\ c \in Piped
          /\ t # "sync" => \E r \in Sessions : r[1] = c /\ callback[r]
  /\ \A r \in Sessions : mem[r] = "unborn" /\ mem'[r] # "unborn" => r[1] \in Piped

\* What a caller's step does to the variables the pipeline reads.
LEMMA CallerEffects ==
  ASSUME TypeOK, NEW c \in Callers, c \in Piped, caller(c)
  PROVE  Effects("sync")
<1>q. Mine(c) \in Sessions /\ Mine(c)[1] = c
  BY MineSession
<1>2. mem' = mem \/ \E x : mem' = [mem EXCEPT ![Mine(c)] = x]
  BY DEF caller, sendInternal, sendInternal_early, sendInternal_new, sendInternal_prepareRead,
         sendInternal_fill, sendInternal_publish, sendInternal_addTimeschdule,
         sendInternal_timer_task_id, sendInternal_write, sendInternal_write_fail,
         sendInternal_giveUp, sendInternal_written, sendInternal_wait,
         sendInternal_releaseShared, sendInternalWithRetry, async_return, heap
<1>3. \A r \in Sessions : r # Mine(c) => mem'[r] = mem[r]
  BY <1>2 DEF TypeOK
<1>4. invoked' = invoked \/ async_return(c)
  BY DEF caller, sendInternal, sendInternal_early, sendInternal_new, sendInternal_prepareRead,
         sendInternal_fill, sendInternal_publish, sendInternal_addTimeschdule,
         sendInternal_timer_task_id, sendInternal_write, sendInternal_write_fail,
         sendInternal_giveUp, sendInternal_written, sendInternal_wait,
         sendInternal_releaseShared, sendInternalWithRetry, history
<1>5. ASSUME async_return(c), invoked' # invoked
      PROVE  invoked' = [invoked EXCEPT ![c] = @ + 1] /\ _error_code[c] # "SESSION_OK"
  BY <1>5 DEF async_return, TypeOK
<1> QED BY <1>q, <1>3, <1>4, <1>5 DEF Effects

\* A notification delivers the outcome of one session, and runs its callback if
\* it has one.
LEMMA NotifyEffects ==
  ASSUME TypeOK, NEW t \in Notifiers, cur[t] \in Sessions, notify(t)
  PROVE  Effects(t)
<1>1. CASE notify_deliver(t)
  <2>1. mem' = mem
    BY <1>1 DEF notify_deliver
  <2>4. invoked' = invoked \/ (callback[cur[t]] /\ invoked' = [invoked EXCEPT ![cur[t][1]] = @ + 1])
    BY <1>1 DEF notify_deliver
  <2>5. t # "sync" /\ cur[t][1] \in Callers
    BY SessionParts DEF Notifiers
  <2> QED BY <2>1, <2>4, <2>5 DEF Effects
<1>2. CASE ~notify_deliver(t)
  <2>1. mem' = mem /\ invoked' = invoked
    BY <1>2 DEF notify, notify_tryShared, notify_undo, notify_upgrade, notify_release
  <2> QED BY <2>1 DEF Effects
<1> QED BY <1>1, <1>2

\* What a timeout's step does to the variables the pipeline reads.
LEMMA TimeoutEffects ==
  ASSUME IInv, timeout
  PROVE  Effects("Timeout")
<1>1. CASE notify("Timeout")
  <2>1. cur["Timeout"] \in Sessions
    BY <1>1 DEF IInv, ThreadsPlaced, TypeOK, Notifiers, notify, notify_tryShared, notify_undo,
                notify_upgrade, notify_deliver, notify_release, Move
  <2> QED BY <1>1, <2>1, NotifyEffects DEF IInv, Notifiers
<1>2. CASE ~notify("Timeout")
  <2>1. mem' = mem /\ invoked' = invoked
    BY <1>2 DEF timeout, timeout_run, timeout_drop, timeout_releaseShared, heap, history
  <2> QED BY <2>1 DEF Effects
<1> QED BY <1>1, <1>2

\* tryReclaim frees what was live.
LEMMA ReclaimEffects ==
  ASSUME IInv, NEW t, NEW r \in Sessions, tryReclaimSessionMap(r) \/ destruct_reclaim(r)
  PROVE  Effects(t)
<1>1. invoked' = invoked
  BY DEF tryReclaimSessionMap, destruct_reclaim, history
<1>2. mem' = mem \/ mem' = [mem EXCEPT ![r] = "freed"]
  BY DEF tryReclaimSessionMap, destruct_reclaim, tryReclaim
<1>3. r \in _session_map /\ Account(r)
  BY DEF tryReclaimSessionMap, destruct_reclaim, IInv, ThreadsPlaced
<1>4. mem[r] = "live"
  BY <1>3 DEF Account, Places
<1>5. \A s \in Sessions : s # r => mem'[s] = mem[s]
  BY <1>2 DEF IInv, TypeOK
<1> QED BY <1>1, <1>4, <1>5 DEF Effects

\* What the reader's step does to the variables the pipeline reads.
LEMMA ReaderEffects ==
  ASSUME IInv, onRead_continue \/ onRead_reclaim \/ \E r \in Sessions : onRead_message(r)
  PROVE  Effects("OnRead")
<1>1. CASE notify("OnRead")
  <2>1. cur["OnRead"] \in Sessions
    BY <1>1 DEF IInv, ThreadsPlaced, TypeOK, Notifiers, notify, notify_tryShared, notify_undo,
                notify_upgrade, notify_deliver, notify_release, Move
  <2> QED BY <1>1, <2>1, NotifyEffects DEF IInv, Notifiers
<1>2. CASE \E r \in Sessions : tryReclaimSessionMap(r)
  BY <1>2, ReclaimEffects
<1>3. CASE onRead_pop \/ onRead_pop_unfilled \/ onRead_find \/ onRead_return \/ onRead_reclaim
           \/ \E r \in Sessions : onRead_message(r)
  <2>1. mem' = mem /\ invoked' = invoked
    BY <1>3 DEF onRead_pop, onRead_pop_unfilled, onRead_find, onRead_return, onRead_reclaim,
                onRead_message, heap, history
  <2> QED BY <2>1 DEF Effects
<1> QED BY <1>1, <1>2, <1>3 DEF onRead_continue

-----------------------------------------------------------------------------
\* One more callback has run.
LEMMA DoneGrows ==
  ASSUME PInv, IInv', NEW c \in Callers, invoked' = [invoked EXCEPT ![c] = @ + 1]
  PROVE  /\ Done' = Done \cup {c} /\ c \notin Done
         /\ Cardinality(Done') = Cardinality(Done) + 1
<1>1. invoked \in [Callers -> Nat] /\ invoked[c] \in {0, 1} /\ invoked'[c] \in {0, 1}
  BY DEF PInv, IInv, TypeOK, Invoked
<1>2. invoked[c] = 0 /\ invoked'[c] = 1 /\ \A d \in Callers : d # c => invoked'[d] = invoked[d]
  BY SMT, <1>1
<1>3. Done' = Done \cup {c} /\ c \notin Done
  BY <1>2, SMT DEF Done
<1> QED BY <1>3, PipedFinite, FiniteAdd

\* What thread t keeps of received_size while it runs a callback.
LEMMA BusyGrows ==
  ASSUME PInv, NEW t \in Threads, loaded[t] = None, loaded' = [loaded EXCEPT ![t] = received_size]
  PROVE  /\ Busy' = Busy \cup {t} /\ t \notin Busy
         /\ loaded'[t] = received_size /\ \A u \in Busy : loaded'[u] = loaded[u]
         /\ loaded' \in [Threads -> Nat \cup {None}]
<1>1. loaded \in [Threads -> Nat \cup {None}] /\ received_size \in Nat /\ received_size # None
  BY SMT DEF PInv, PTypeOK, None
<1> QED BY <1>1 DEF Busy

\* What is left of it when the callback returns.
LEMMA BusyShrinks ==
  ASSUME PInv, NEW t \in Threads, loaded[t] # None, loaded' = [loaded EXCEPT ![t] = None]
  PROVE  /\ Busy' = Busy \ {t} /\ t \in Busy /\ loaded[t] \in Nat
         /\ \A u \in Busy' : loaded'[u] = loaded[u]
         /\ loaded' \in [Threads -> Nat \cup {None}]
<1>1. loaded \in [Threads -> Nat \cup {None}]
  BY DEF PInv, PTypeOK
<1> QED BY <1>1 DEF Busy

\* A step that runs no callback.
LEMMA QuietPInv ==
  ASSUME PInv, IInv', Pushes', UNCHANGED <<_requests, info, invoked>>, NEW t, Effects(t),
         i' \in Nat, ppc' \in {"begin", "sending", "waiting", "returned", "threw"},
         ppc' = "begin" => i' = 1,
         ppc' = "sending" => i' \in 1..Len(_requests),
         ppc' = "returned" /\ error' = "SESSION_OK" => Piped \subseteq answered
  PROVE  PInv'
<1>0. /\ IInv /\ PTypeOK /\ OnlyPiped /\ NotAhead /\ NoneLost /\ ToldRight
      /\ promise => Done = Piped
  BY DEF PInv
<1>u. UNCHANGED <<status, received_size, promise, loaded, overlapped, answered>>
  BY DEF info
<1>d. Done' = Done /\ Busy' = Busy /\ Piped' = Piped
  BY <1>u DEF Done, Busy, Piped
<1>1. PTypeOK'
  BY <1>0, <1>u DEF PTypeOK
<1>2. OnlyPiped'
  BY <1>0, <1>d DEF OnlyPiped, Effects
<1>3. NotAhead' /\ NoneLost'
  BY <1>0, <1>u, <1>d DEF NotAhead, NoneLost
<1>4. ToldRight' /\ (ppc' = "returned" /\ error' = "SESSION_OK" => Piped' \subseteq answered')
  BY <1>0, <1>u, <1>d DEF ToldRight
<1> QED BY <1>0, <1>u, <1>d, <1>1, <1>2, <1>3, <1>4 DEF PInv

\* The bookkeeping around a step of SocketReadSession.
LEMMA RunsPInv ==
  ASSUME PInv, IInv', Pushes', NEW t \in Threads, Effects(t), Runs(t, TRUE)
  PROVE  PInv'
<1>0. /\ IInv /\ PTypeOK /\ OnlyPiped /\ NotAhead /\ NoneLost /\ ToldRight
      /\ promise => Done = Piped
      /\ ppc = "returned" /\ error = "SESSION_OK" => Piped \subseteq answered
  BY DEF PInv
<1>u. UNCHANGED <<_requests, ppc, i, error>> /\ Piped' = Piped /\ loaded[t] = None
  BY DEF Runs, Piped
<1>a. answered \subseteq answered'
  BY DEF Runs, info
<1>b. \A c \in Callers \ Piped : \A r \in Sessions : r[1] = c => mem'[r] = "unborn"
  BY <1>0 DEF Effects, OnlyPiped
<1>r. ppc' = "returned" /\ error' = "SESSION_OK" => Piped' \subseteq answered'
  BY <1>0, <1>u, <1>a
<1>1. CASE invoked' = invoked
  <2>1. UNCHANGED info
    BY <1>1 DEF Runs
  <2> QED BY <1>0, <1>u, <1>1, <2>1, QuietPInv DEF PTypeOK
<1>2. CASE invoked' # invoked
  <2>1. PICK c \in Callers :
          /\ invoked' = [invoked EXCEPT ![c] = @ + 1]
          /\ t = "sync" => _error_code[c] # "SESSION_OK" /\ c \in Piped
          /\ t # "sync" => \E r \in Sessions : r[1] = c /\ callback[r]
    BY <1>2 DEF Effects
  <2>i. \A d \in Callers : d # c => invoked'[d] = invoked[d]
    <3>1. invoked \in [Callers -> Nat]
      BY <1>0 DEF IInv, TypeOK
    <3> QED BY <2>1, <3>1
  <2>2. /\ Done' = Done \cup {c} /\ c \notin Done
        /\ Cardinality(Done') = Cardinality(Done) + 1
    BY <2>1, DoneGrows
  <2>3. /\ loaded' = [loaded EXCEPT ![t] = received_size]
        /\ overlapped' = (overlapped \/ \E u \in Threads : loaded[u] # None)
        /\ UNCHANGED <<received_size, promise>>
    BY <1>2 DEF Runs
  <2>4. PICK e \in Told(t, c) :
          /\ status' = [status EXCEPT ![c] = e]
          /\ t = "OnRead" /\ e = "SESSION_OK" => c \in answered'
    <3>1. PICK d \in Callers : \E e \in Told(t, d) :
            /\ invoked'[d] # invoked[d]
            /\ status' = [status EXCEPT ![d] = e]
            /\ t = "OnRead" /\ e = "SESSION_OK" => d \in answered'
      BY <1>2 DEF Runs
    <3>2. d = c
      BY <2>i, <3>1
    <3> QED BY <3>1, <3>2
  <2>5. /\ Busy' = Busy \cup {t} /\ t \notin Busy
        /\ loaded'[t] = received_size /\ \A u \in Busy : loaded'[u] = loaded[u]
        /\ loaded' \in [Threads -> Nat \cup {None}]
    BY <1>u, <2>3, BusyGrows
  <2>6. c \in Piped
    <3>1. CASE t = "sync"
      BY <2>1, <3>1
    <3>2. CASE t # "sync"
      <4>1. PICK r \in Sessions : r[1] = c /\ callback[r]
        BY <2>1, <3>2
      <4>2. mem[r] # "unborn"
        BY <1>0, <4>1 DEF IInv, Account, Places
      <4> QED BY <1>0, <4>1, <4>2 DEF OnlyPiped
    <3> QED BY <3>1, <3>2
  <2>7. OnlyPiped'
    <3>1. \A d \in Callers \ Piped : invoked'[d] = invoked[d]
      BY <2>i, <2>6
    <3> QED BY <1>0, <1>u, <1>b, <3>1 DEF OnlyPiped
  <2>8. PTypeOK'
    <3>1. \A d \in Callers : Told(t, d) \subseteq Errors
      <4>1. \A d \in Callers : _error_code[d] \in Errors
        BY <1>0 DEF IInv, TypeOK
      <4>2. CASE t = "sync"
        BY <4>1, <4>2 DEF Told
      <4>3. CASE t = "Timeout"
        BY <4>3 DEF Told, Errors
      <4>4. CASE t \notin {"sync", "Timeout"}
        BY <4>4 DEF Told, Errors
      <4> QED BY <4>2, <4>3, <4>4
    <3>2. status' \in [Callers -> Errors]
      BY <1>0, <2>4, <3>1 DEF PTypeOK
    <3> QED BY <1>0, <1>u, <2>3, <2>5, <3>2 DEF PTypeOK
  <2>n. received_size \in Nat /\ Cardinality(Done) \in Nat /\ \A u \in Busy : loaded[u] \in Nat
    BY <1>0, PipedFinite DEF PTypeOK, Busy
  <2>9. NotAhead'
    <3>1. received_size' <= Cardinality(Done')
      BY SMTT(30), <1>0, <2>2, <2>3, <2>n DEF NotAhead
    <3>2. ASSUME NEW u \in Busy' PROVE loaded'[u] < Cardinality(Done')
      <4>1. CASE u = t
        BY SMTT(30), <1>0, <2>2, <2>5, <2>n, <4>1 DEF NotAhead
      <4>2. CASE u # t
        <5>1. u \in Busy /\ loaded'[u] = loaded[u] /\ loaded[u] < Cardinality(Done) /\ loaded[u] \in Nat
          BY <1>0, <2>5, <2>n, <3>2, <4>2 DEF NotAhead
        <5> QED BY SMTT(30), <2>2, <2>n, <5>1
      <4> QED BY <4>1, <4>2
    <3> QED BY <3>1, <3>2 DEF NotAhead
  <2>10. NoneLost'
    <3>1. SUFFICES ASSUME ~overlapped'
                   PROVE  /\ \A u, v \in Busy' : u = v
                          /\ \A u \in Busy' : loaded'[u] = received_size'
                          /\ received_size' = Cardinality(Done') - Cardinality(Busy')
      BY DEF NoneLost
    <3>2. Busy = {} /\ ~overlapped
      BY <2>3, <3>1 DEF Busy
    <3>3. Busy' = {t}
      BY <2>5, <3>2
    <3>4. Cardinality(Busy) = 0 /\ Cardinality(Busy') = 1
      BY <3>2, <3>3, FiniteSmall
    <3>5. received_size = Cardinality(Done) - 0
      BY <1>0, <3>2, <3>4 DEF NoneLost
    <3>6. received_size' = Cardinality(Done') - Cardinality(Busy')
      BY SMTT(30), <2>2, <2>3, <2>n, <3>4, <3>5
    <3> QED BY <2>3, <2>5, <3>3, <3>6
  <2>11. ToldRight'
    <3>1. SUFFICES ASSUME NEW d \in Done', status'[d] = "SESSION_OK" PROVE d \in answered'
      BY DEF ToldRight
    <3>2. CASE d # c
      <4>1. d \in Done /\ status'[d] = status[d]
        BY <1>0, <2>2, <2>4, <3>1, <3>2 DEF PTypeOK, Done
      <4> QED BY <1>0, <1>a, <3>1, <4>1 DEF ToldRight
    <3>3. CASE d = c
      <4>1. e = "SESSION_OK"
        BY <1>0, <2>4, <3>1, <3>3 DEF PTypeOK
      <4>2. t # "sync"
        BY <2>1, <2>4, <4>1 DEF Told
      <4>3. t # "Timeout"
        BY <2>4, <4>1 DEF Told
      <4> QED BY <2>4, <3>3, <4>1, <4>2, <4>3 DEF Threads, Notifiers
    <3> QED BY <3>2, <3>3
  <2>12. promise' => Done' = Piped'
    BY <1>0, <1>u, <2>2, <2>3, <2>6
  <2> QED BY <1>r, <2>7, <2>8, <2>9, <2>10, <2>11, <2>12 DEF PInv
<1> QED BY <1>1, <1>2

\* The count of a callback, as far as it can go wrong.
LEMMA CountPInv ==
  ASSUME PInv, IInv', Pushes', NEW t \in Threads, count(t)
  PROVE  PInv'
<1>0. /\ IInv /\ PTypeOK /\ OnlyPiped /\ NotAhead /\ NoneLost /\ ToldRight
      /\ promise => Done = Piped
      /\ ppc = "returned" /\ error = "SESSION_OK" => Piped \subseteq answered
  BY DEF PInv
<1>u. /\ UNCHANGED <<_requests, ppc, i, error, status, overlapped, answered, invoked, mem>>
      /\ received_size' = loaded[t] + 1 /\ loaded[t] # None
      /\ promise' = (promise \/ received_size' = total_size)
      /\ loaded' = [loaded EXCEPT ![t] = None]
  BY DEF count, vars, heap, history
<1>d. Done' = Done /\ Piped' = Piped
  BY <1>u DEF Done, Piped
<1>b. /\ Busy' = Busy \ {t} /\ t \in Busy /\ loaded[t] \in Nat
      /\ \A u \in Busy' : loaded'[u] = loaded[u]
      /\ loaded' \in [Threads -> Nat \cup {None}]
  BY <1>u, BusyShrinks
<1>n. /\ Cardinality(Done) \in Nat /\ Piped \subseteq Callers /\ received_size' \in Nat
      /\ received_size' <= Cardinality(Done)
  <2>1. loaded[t] < Cardinality(Done) /\ Cardinality(Done) \in Nat
    BY <1>0, <1>b, PipedFinite DEF NotAhead
  <2>2. Piped \subseteq Callers
    BY SMT, <1>0 DEF PTypeOK, Piped
  <2> QED BY SMTT(30), <1>u, <1>b, <2>1, <2>2
<1>1. PTypeOK' /\ OnlyPiped'
  BY <1>0, <1>u, <1>d, <1>b, <1>n DEF PTypeOK, OnlyPiped
<1>2. NotAhead'
  BY <1>0, <1>d, <1>b, <1>n DEF NotAhead
<1>3. NoneLost'
  <2>1. SUFFICES ASSUME ~overlapped
                 PROVE  /\ \A u, v \in Busy' : u = v
                        /\ \A u \in Busy' : loaded'[u] = received_size'
                        /\ received_size' = Cardinality(Done') - Cardinality(Busy')
    BY <1>u DEF NoneLost
  <2>2. Busy = {t} /\ Busy' = {} /\ loaded[t] = received_size
    BY <1>0, <1>b, <2>1 DEF NoneLost
  <2>3. Cardinality(Busy) = 1 /\ Cardinality(Busy') = 0
    BY <2>2, FiniteSmall
  <2>4. received_size = Cardinality(Done) - Cardinality(Busy)
    BY <1>0, <2>1 DEF NoneLost
  <2>5. received_size' = Cardinality(Done') - Cardinality(Busy')
    BY SMTT(30), <1>u, <1>d, <1>n, <2>2, <2>3, <2>4
  <2> QED BY <2>2, <2>5
<1>4. ToldRight'
  BY <1>0, <1>u, <1>d DEF ToldRight, Done
<1>5. promise' => Done' = Piped'
  <2>1. ASSUME received_size' = total_size PROVE Done = Piped
    <3>1. Cardinality(Done) >= Len(_requests)
      BY SMTT(30), <1>0, <1>n, <2>1 DEF total_size, PTypeOK
    <3> QED BY <3>1, PipedFinite
  <2> QED BY <1>0, <1>u, <1>d, <2>1
<1>6. ppc' = "returned" /\ error' = "SESSION_OK" => Piped' \subseteq answered'
  BY <1>0, <1>u, <1>d
<1> QED BY <1>1, <1>2, <1>3, <1>4, <1>5, <1>6 DEF PInv

-----------------------------------------------------------------------------
\* The initial state satisfies the pipeline's invariant.
LEMMA PInitPInv == PInit => PInv
<1> SUFFICES ASSUME PInit PROVE PInv
  OBVIOUS
<1>1. IInv /\ Pushes /\ Init
  BY InitIInv, InitPushes DEF PInit
<1>2. Done = {}
  <2>1. \A c \in Callers : invoked[c] = 0
    BY <1>1 DEF Init
  <2> QED BY SMT, <2>1 DEF Done
<1>3. Busy = {}
  BY DEF PInit, Busy
<1>4. Cardinality(Done) = 0 /\ Cardinality(Busy) = 0
  BY <1>2, <1>3, FiniteSmall
<1>5. PTypeOK
  <2>1. _requests \in Seq(Callers)
    BY SMT, PipelinesAssumption, AsyncAssumption DEF PInit
  <2> QED BY SMT, <2>1 DEF PInit, PTypeOK, Errors, None
<1>6. OnlyPiped
  BY <1>1 DEF Init, OnlyPiped
<1>7. NotAhead /\ NoneLost
  <2>1. received_size = 0
    BY DEF PInit
  <2>2. received_size <= Cardinality(Done) /\ received_size = Cardinality(Done) - Cardinality(Busy)
    BY SMT, <1>4, <2>1
  <2> QED BY <1>3, <2>2 DEF NotAhead, NoneLost
<1> QED BY <1>1, <1>2, <1>5, <1>6, <1>7 DEF PInit, PInv, ToldRight

\* Every step of sync(), the timer thread, the reader and ~Socket preserves both
\* accounts.
LEMMA PNextPInv ==
  ASSUME PInv, [PNext]_pvars
  PROVE  PInv'
<1>0. IInv /\ Pushes /\ PTypeOK
  BY DEF PInv
<1>q. ppc = "sending" => _requests[i] \in Callers /\ _requests[i] \in Piped
  BY SMT, <1>0 DEF PTypeOK, Piped
<1>1. CASE sync_begin
  <2>1. /\ UNCHANGED <<_requests, i, info>> /\ \E cs : Unmade(cs)
        /\ \/ total_size > 0 /\ ppc' = "sending"
           \/ ppc' = "returned" /\ error' = IF total_size = 0 THEN "SESSION_OK" ELSE "PROTOCOL_NOT_FOUND"
    BY <1>1 DEF sync_begin
  <2>2. IInv' /\ Pushes' /\ invoked' = invoked /\ Effects("sync")
    BY <1>0, <2>1, UnmadeIInv, UnmadePushes DEF Unmade, heap, history, Effects
  <2>3. i = 1 /\ Len(_requests) \in Nat /\ (total_size > 0 => i \in 1..Len(_requests))
    BY SMT, <1>0, <1>1 DEF PTypeOK, sync_begin, total_size
  <2>4. total_size = 0 => Piped = {}
    BY SMT, <1>0 DEF PTypeOK, total_size, Piped
  <2>5. ppc' = "returned" /\ error' = "SESSION_OK" => Piped \subseteq answered
    BY <2>1, <2>4
  <2> QED BY <1>0, <2>1, <2>2, <2>3, <2>5, QuietPInv DEF PTypeOK
<1>2. CASE sync_send
  <2>1. caller(_requests[i]) /\ Runs("sync", TRUE) /\ ppc = "sending"
    BY <1>2 DEF sync_send, Runs
  <2>2. IInv' /\ Pushes' /\ Effects("sync")
    BY <1>0, <1>q, <2>1, NextIInv, NextPushes, CallerEffects DEF IInv, Next
  <2> QED BY <2>1, <2>2, RunsPInv DEF Threads
<1>3. CASE sync_next
  <2>1. /\ UNCHANGED <<_requests, info, vars>> /\ ppc = "sending"
        /\ ppc' = IF i = total_size THEN "waiting" ELSE "sending"
        /\ i' = IF i = total_size THEN i ELSE i + 1
    BY <1>3 DEF sync_next
  <2>2. IInv' /\ Pushes' /\ invoked' = invoked /\ Effects("sync")
    BY <1>0, <2>1, NextIInv, NextPushes DEF vars, heap, history, Effects
  <2>3. i' \in Nat /\ (ppc' = "sending" => i' \in 1..Len(_requests))
    BY SMTT(30), <1>0, <2>1 DEF PTypeOK, total_size
  <2> QED BY <2>1, <2>2, <2>3, QuietPInv
<1>4. CASE sync_throw
  <2>1. UNCHANGED <<_requests, i, info>> /\ Unmade(Callers) /\ ppc' = "threw"
    BY <1>4 DEF sync_throw
  <2>2. IInv' /\ Pushes' /\ invoked' = invoked /\ Effects("sync")
    BY <1>0, <2>1, UnmadeIInv, UnmadePushes DEF Unmade, heap, history, Effects
  <2> QED BY <1>0, <2>1, <2>2, QuietPInv DEF PTypeOK
<1>5. CASE sync_collect
  <2>1. /\ UNCHANGED <<vars, _requests, i, info>> /\ ppc' = "returned" /\ promise
        /\ error' = "SESSION_OK" => \A c \in Piped : status[c] = "SESSION_OK"
    BY <1>5 DEF sync_collect
  <2>2. IInv' /\ Pushes' /\ invoked' = invoked /\ Effects("sync")
    BY <1>0, <2>1, NextIInv, NextPushes DEF vars, heap, history, Effects
  <2>3. error' = "SESSION_OK" => Piped \subseteq answered
    BY <2>1 DEF PInv, ToldRight
  <2> QED BY <1>0, <2>1, <2>2, <2>3, QuietPInv DEF PTypeOK
<1>6. CASE sync_timeout
  <2>1. UNCHANGED <<vars, _requests, i, info>> /\ ppc' = "returned" /\ error' = "READ_FAIL"
    BY <1>6 DEF sync_timeout
  <2>2. IInv' /\ Pushes' /\ invoked' = invoked /\ Effects("sync")
    BY <1>0, <2>1, NextIInv, NextPushes DEF vars, heap, history, Effects
  <2> QED BY <1>0, <2>1, <2>2, QuietPInv DEF PTypeOK
<1>7. CASE \E t \in Threads : count(t)
  <2>1. IInv' /\ Pushes'
    BY <1>0, <1>7, NextIInv, NextPushes DEF count
  <2> QED BY <1>7, <2>1, CountPInv
<1>8. CASE Runs("Timeout", timeout)
  <2>1. timeout /\ Runs("Timeout", TRUE)
    BY <1>8 DEF Runs
  <2>2. IInv' /\ Pushes' /\ Effects("Timeout")
    BY <1>0, <2>1, NextIInv, NextPushes, TimeoutEffects DEF Next
  <2> QED BY <2>1, <2>2, RunsPInv DEF Threads, Notifiers
<1>9. CASE \/ Runs("OnRead", onRead_continue \/ (at["OnRead"] = "message" /\ onRead_reclaim))
           \/ \E r \in Sessions : Runs("OnRead", onRead_message(r))
           \/ Runs("OnRead", onRead_reclaim)
  <2>1. /\ onRead_continue \/ onRead_reclaim \/ \E r \in Sessions : onRead_message(r)
        /\ Runs("OnRead", TRUE)
    BY <1>9 DEF Runs
  <2>2. IInv' /\ Pushes' /\ Effects("OnRead")
    BY <1>0, <2>1, NextIInv, NextPushes, ReaderEffects DEF Next
  <2> QED BY <2>1, <2>2, RunsPInv DEF Threads, Notifiers
<1>10. CASE destruction \/ Keep(destruct_loop)
  <2>1. (destruct \/ destruct_loop) /\ UNCHANGED <<_requests, ppc, i, error, info>>
    BY <1>10 DEF destruction, Keep
  <2>2. IInv' /\ Pushes'
    BY <1>0, <2>1, NextIInv, NextPushes DEF Next
  <2>3. invoked' = invoked /\ Effects("OnRead")
    <3>1. CASE destruct \/ destruct_again
      BY <3>1 DEF destruct, destruct_again, heap, history, Effects
    <3>2. CASE \E r \in Sessions : destruct_reclaim(r)
      BY <1>0, <3>2, ReclaimEffects DEF destruct_reclaim, history
    <3> QED BY <2>1, <3>1, <3>2 DEF destruct_loop
  <2> QED BY <1>0, <2>1, <2>2, <2>3, QuietPInv DEF PTypeOK, PInv
<1>11. CASE UNCHANGED pvars
  <2>1. UNCHANGED <<vars, _requests, ppc, i, error, info>>
    BY <1>11 DEF pvars
  <2>2. IInv' /\ Pushes' /\ invoked' = invoked /\ Effects("sync")
    BY <1>0, <2>1, NextIInv, NextPushes DEF vars, heap, history, Effects
  <2> QED BY <1>0, <2>1, <2>2, QuietPInv DEF PTypeOK, PInv
<1> QED BY <1>1, <1>2, <1>3, <1>4, <1>5, <1>6, <1>7, <1>8, <1>9, <1>10, <1>11
        DEF PNext, sync, timerThread, readerThread, Threads, Notifiers

\* The pipeline's invariant implies the property PipelineCollects.
LEMMA PInvCollects == PInv => PipelineCollects
<1> SUFFICES ASSUME PInv PROVE PipelineCollects
  OBVIOUS
<1>1. promise => Done = Piped
  BY DEF PInv
<1>2. ppc = "returned" /\ error = "SESSION_OK" => Piped \subseteq answered
  BY DEF PInv
<1>3. received_size <= Cardinality(Done)
  BY DEF PInv, NotAhead
<1>4. ~overlapped => received_size = Cardinality(Done) - Cardinality(Busy)
  BY DEF PInv, NoneLost
<1> QED BY <1>1, <1>2, <1>3, <1>4 DEF PipelineCollects, Done, Busy

-----------------------------------------------------------------------------
\* The account of the shares holds inside a pipeline too, where one thread makes
\* the calls one after the other and all three threads run callbacks.
THEOREM PipelineAccounted == PSpec => []PInv
  BY PInitPInv, PNextPInv, PTL DEF PSpec

\* PipelineSession::sync reports what happened: its promise is set only when every
\* callback has run, success means that every request was answered, and
\* ++info->received_size, a load and a store in three threads, can lose a callback
\* but never count one that has not run.
THEOREM PipelineReportsRight == PSpec => []PipelineCollects
  BY PipelineAccounted, PInvCollects, PTL
=============================================================================
