--------------------------- MODULE SnifferProofs ----------------------------
(***************************************************************************)
(* The invariants of sniffer.cpp, for any set of ids, any two periods and  *)
(* runs of any length: first of the table of sessions, whose functions are *)
(* single steps in SnifferSessions; then of the threads and MUTEX; then of *)
(* the whole program, in which signals, the clock and the other thread     *)
(* come between the steps of http_cap.                                     *)
(***************************************************************************)
EXTENDS Sniffer, TLAPS

\* Most steps are about sets and functions; those with arithmetic cite SMT.
USE Zenon

-----------------------------------------------------------------------------
(* The table of sessions                                                   *)

\* Nothing is in the table before the first call of gc sets `last'.
EmptyAtFirst == last = NEVER => DOMAIN sessions = {}

IInv == TypeOK /\ EmptyAtFirst /\ BackExists /\ NoOrphans /\ NoneTooOld /\ AtMostTwoReports

Record == [initial : 0 .. now, state : {UNKNOWN, CLIENT, SERVER}]

\* gc keeps entries as they are, and leaves none that is too old for the time
\* it records: on its first call because the table can only hold a young one.
LEMMA Collected ==
  ASSUME NEW table, TimeAssumption, now \in Nat, last \in {NEVER} \cup 0 .. now,
         \A i \in DOMAIN table : table[i].initial \in 0 .. now,
         \A i \in DOMAIN table : table[i].initial + SECS_TO_EXPIRE >= last,
         last = NEVER => \A i \in DOMAIN table : table[i].initial + SECS_TO_EXPIRE >= now
  PROVE  /\ DOMAIN gc(table) \subseteq DOMAIN table
         /\ \A i \in DOMAIN gc(table) : gc(table)[i] = table[i]
         /\ \A i \in DOMAIN gc(table) : gc(table)[i].initial + SECS_TO_EXPIRE >= gc_last
         /\ gc_last \in 0 .. now
  <1>0. SECS_TO_EXPIRE \in Nat /\ SECS_TO_GC \in Nat
    BY TimeAssumption
  <1>1. CASE last # NEVER /\ now - last > SECS_TO_GC
    <2> DEFINE D == {i \in DOMAIN table : ~is_expired(table[i])}
    <2>1. gc(table) = [i \in D |-> table[i]] /\ gc_last = now
      BY <1>1 DEF gc, gc_last, Restrict
    <2>2. \A i \in D : table[i].initial + SECS_TO_EXPIRE >= now
      BY <1>0, SMT DEF is_expired
    <2> HIDE DEF D
    <2>3. D \subseteq DOMAIN table
      BY DEF D
    <2> QED
      BY <2>1, <2>2, <2>3, SMT
  <1>2. CASE ~(last # NEVER /\ now - last > SECS_TO_GC)
    <2>1. gc(table) = table
      BY <1>2 DEF gc
    <2>2. CASE last = NEVER
      <3>1. gc_last = now
        BY <2>2 DEF gc_last
      <3> QED
        BY <1>0, <2>1, <2>2, <3>1, SMT
    <2>3. CASE last # NEVER
      <3>1. gc_last = last
        BY <1>2, <2>3 DEF gc_last
      <3> QED
        BY <2>1, <2>3, <3>1
    <2> QED
      BY <2>2, <2>3
  <1> QED
    BY <1>1, <1>2

\* The table is empty at first.
LEMMA InitInv == Init => IInv
  <1> SUFFICES ASSUME Init PROVE IInv
    OBVIOUS
  <1>1. DOMAIN sessions = {} /\ DOMAIN reports = {} /\ stats = <<>>
    BY DEF Init
  <1>2. last = NEVER /\ now = 0 /\ open = {} /\ opened = 0
    BY DEF Init
  <1>3. TypeOK
    BY <1>1, <1>2, TimeAssumption, SMT DEF TypeOK
  <1> QED
    BY <1>1, <1>3 DEF IInv, EmptyAtFirst, BackExists, NoOrphans, NoneTooOld, AtMostTwoReports

\* data_fun keeps the invariant.
LEMMA CapInv ==
  ASSUME IInv, NEW id \in Id, NEW payload \in Payload, http_cap(id, payload)
  PROVE  IInv'
  <1> DEFINE known == id \in DOMAIN sessions
             st    == IF known THEN sessions[id] ELSE Stream(now)
             found == finds_header(st, payload)
             new   == IF known THEN stat(st, payload) ELSE st
             table == Put(sessions, id, new)
             count == (IF known THEN reports[id] ELSE 0) + (IF found THEN 1 ELSE 0)
  <1> USE DEF IInv
  <1>1. /\ id \in open /\ UNCHANGED <<now, open, opened>> /\ last' = gc_last
        /\ stats' = IF found THEN Append(stats, id) ELSE stats
        /\ sessions' = gc(table)
        /\ reports' = Restrict(Put(reports, id, count), DOMAIN gc(table))
    BY DEF http_cap
  <1>2. now \in Nat /\ last \in {NEVER} \cup 0 .. now /\ stats \in Seq(Id)
    BY TimeAssumption, SMT DEF TypeOK
  <1>3. st \in Record /\ payload.from \in {CLIENT, SERVER}
    <2>1. ASSUME known PROVE st \in Record
      BY <2>1 DEF TypeOK, Record
    <2>2. ASSUME ~known PROVE st \in Record
      BY <1>2, <2>2, SMT DEF Stream, Record
    <2>3. payload.from \in {CLIENT, SERVER}
      BY DEF Payload
    <2> QED
      BY <2>1, <2>2, <2>3
  <1>4. new \in Record /\ new.initial \in {st.initial, now}
    <2> HIDE DEF st
    <2> QED BY <1>2, <1>3, SMT DEF stat, Record
  <1>5. /\ DOMAIN table = DOMAIN sessions \cup {id} /\ table[id] = new
        /\ \A i \in DOMAIN sessions : i # id => table[i] = sessions[i]
    <2> HIDE DEF new
    <2> QED BY DEF Put
  <1>6. \A i \in DOMAIN table : table[i] \in Record
    <2> HIDE DEF table, new
    <2> QED BY <1>4, <1>5 DEF TypeOK, Record
  <1>7. new.initial + SECS_TO_EXPIRE >= last /\ (last = NEVER => new.initial = now)
    <2>1. last = NEVER => ~known
      BY DEF EmptyAtFirst
    <2>2. st.initial + SECS_TO_EXPIRE >= last /\ (last = NEVER => st.initial = now)
      <3>1. CASE known
        BY <2>1, <3>1 DEF NoneTooOld
      <3>2. CASE ~known
        BY <1>2, <3>2, TimeAssumption, SMT DEF Stream, NEVER
      <3> QED
        BY <3>1, <3>2
    <2> HIDE DEF new, st
    <2> QED BY <1>2, <1>4, <2>2, TimeAssumption, SMT DEF NEVER
  <1>8. /\ \A i \in DOMAIN table : table[i].initial \in 0 .. now
        /\ \A i \in DOMAIN table : table[i].initial + SECS_TO_EXPIRE >= last
        /\ last = NEVER => \A i \in DOMAIN table : table[i].initial + SECS_TO_EXPIRE >= now
    <2> HIDE DEF table, new
    <2> QED BY <1>2, <1>5, <1>6, <1>7, TimeAssumption, SMT DEF Record, NoneTooOld, EmptyAtFirst
  <1>9. /\ DOMAIN sessions' \subseteq DOMAIN table
        /\ \A i \in DOMAIN sessions' : sessions'[i] = table[i]
        /\ \A i \in DOMAIN sessions' : sessions'[i].initial + SECS_TO_EXPIRE >= last'
        /\ last' \in 0 .. now
    <2> HIDE DEF table
    <2> QED BY <1>1, <1>2, <1>8, Collected, TimeAssumption
  <1>10. /\ DOMAIN reports' = DOMAIN sessions'
         /\ \A i \in DOMAIN sessions' : reports'[i] = IF i = id THEN count ELSE reports[i]
    <2>1. reports' = [i \in DOMAIN sessions' |-> Put(reports, id, count)[i]]
      <3> HIDE DEF table, count
      <3> QED BY <1>1 DEF Restrict
    <2>2. \A i \in DOMAIN sessions' : i \in DOMAIN reports \cup {id}
      <3> HIDE DEF table
      <3> QED BY <1>5, <1>9 DEF TypeOK
    <2> HIDE DEF count
    <2> QED BY <2>1, <2>2 DEF Put
  <1>11. count \in Nat /\ count <= (IF new.state = UNKNOWN THEN 1 ELSE 2)
    <2>1. CASE known /\ found
      <3>1. st.state = UNKNOWN /\ st = sessions[id] /\ reports[id] \in Nat /\ reports[id] <= 1
        BY <2>1 DEF finds_header, TypeOK, AtMostTwoReports
      <3>2. new.state # UNKNOWN /\ count = reports[id] + 1
        <4> HIDE DEF st
        <4> QED BY <1>3, <2>1, <3>1 DEF stat, CLIENT, SERVER, UNKNOWN
      <3> QED
        BY <3>1, <3>2, SMT
    <2>2. CASE known /\ ~found
      <3>1. count = reports[id] + 0 /\ new = sessions[id]
        BY <2>2 DEF stat
      <3>2. reports[id] \in Nat /\ reports[id] <= IF sessions[id].state = UNKNOWN THEN 1 ELSE 2
        BY <2>2 DEF TypeOK, AtMostTwoReports
      <3> QED
        BY <3>1, <3>2, SMT
    <2>3. CASE ~known
      <3>1. new.state = UNKNOWN
        BY <2>3 DEF Stream
      <3>2. count \in {0, 1}
        BY <2>3, SMTT(60)
      <3> QED
        BY <3>1, <3>2, SMT
    <2> QED
      BY <2>1, <2>2, <2>3
  <1>12. TypeOK'
    <2>1. DOMAIN sessions' \subseteq Id
      <3> HIDE DEF table
      <3> QED BY <1>5, <1>9 DEF TypeOK
    <2>2. \A i \in DOMAIN sessions' : sessions'[i] \in Record /\ Record = Record'
      <3> HIDE DEF table
      <3> QED BY <1>1, <1>6, <1>9 DEF Record
    <2>3. stats' \in Seq(Id)
      <3> HIDE DEF found
      <3> QED BY <1>1, <1>2, SMT
    <2>4. \A i \in DOMAIN reports' : reports'[i] \in Nat
      <3>1. \A i \in DOMAIN sessions' : i # id => i \in DOMAIN reports
        <4> HIDE DEF table
        <4> QED BY <1>5, <1>9 DEF TypeOK
      <3> HIDE DEF count
      <3> QED BY <1>10, <1>11, <3>1 DEF TypeOK
    <2> QED
      BY <1>1, <1>9, <1>10, <2>1, <2>2, <2>3, <2>4 DEF TypeOK, Record
  <1>13. EmptyAtFirst'
    BY <1>9, SMT DEF EmptyAtFirst, NEVER
  <1>14. BackExists'
    <2> SUFFICES ASSUME NEW i \in DOMAIN sessions', sessions'[i].state # UNKNOWN
                 PROVE  stats' # <<>>
      BY DEF BackExists, uses_back
    <2>1. CASE found
      <3> HIDE DEF found
      <3>1. Append(stats, id) # <<>>
        BY <1>2, SMT
      <3> QED BY <1>1, <2>1, <3>1
    <2>2. CASE ~found
      <3>1. i \in DOMAIN sessions /\ sessions[i].state # UNKNOWN
        <4>1. new.state # UNKNOWN => known /\ new = sessions[id]
          BY <2>2 DEF stat, Stream
        <4> HIDE DEF table, new
        <4> QED BY <1>5, <1>9, <4>1
      <3>2. [from |-> CLIENT, header |-> TRUE, empty |-> FALSE] \in Payload
        BY DEF Payload
      <3>3. stats # <<>>
        BY <3>1, <3>2 DEF BackExists, uses_back
      <3> HIDE DEF found
      <3> QED BY <1>1, <2>2, <3>3
    <2> QED
      BY <2>1, <2>2
  <1>15. NoOrphans'
    <2> HIDE DEF table
    <2> QED BY <1>1, <1>5, <1>9 DEF NoOrphans
  <1>16. NoneTooOld'
    BY <1>9 DEF NoneTooOld
  <1>17. AtMostTwoReports'
    <2> SUFFICES ASSUME NEW i \in DOMAIN sessions'
                 PROVE  reports'[i] <= IF sessions'[i].state = UNKNOWN THEN 1 ELSE 2
      BY DEF AtMostTwoReports
    <2>1. CASE i = id
      <3> HIDE DEF table, new, count
      <3> QED BY <1>5, <1>9, <1>10, <1>11, <2>1
    <2>2. CASE i # id
      <3> HIDE DEF table, new, count
      <3>1. i \in DOMAIN sessions /\ sessions'[i] = sessions[i] /\ reports'[i] = reports[i]
        BY <1>5, <1>9, <1>10, <2>2
      <3> QED BY <3>1 DEF AtMostTwoReports
    <2> QED
      BY <2>1, <2>2
  <1> QED
    BY <1>12, <1>13, <1>14, <1>15, <1>16, <1>17

\* end_fun keeps the invariant.
LEMMA FinInv ==
  ASSUME IInv, NEW id \in Id, http_fin(id)
  PROVE  IInv'
  <1> USE DEF IInv
  <1> DEFINE D == DOMAIN sessions \ {id}
  <1>1. /\ UNCHANGED <<stats, last, now, opened>> /\ open' = open \ {id}
        /\ sessions' = [i \in D |-> sessions[i]]
        /\ reports' = [i \in DOMAIN sessions' |-> reports[i]]
    BY DEF http_fin, erased_by_fin, Restrict
  <1>2. /\ DOMAIN sessions' = D /\ DOMAIN reports' = D
        /\ \A i \in D : sessions'[i] = sessions[i] /\ reports'[i] = reports[i]
    <2> HIDE DEF D
    <2> QED BY <1>1
  <1>3. D \subseteq DOMAIN sessions /\ id \notin D
    OBVIOUS
  <1> HIDE DEF D
  <1>4. TypeOK'
    BY <1>1, <1>2, <1>3 DEF TypeOK
  <1>5. BackExists'
    BY <1>1, <1>2, <1>3 DEF BackExists, uses_back
  <1>6. EmptyAtFirst' /\ NoOrphans' /\ NoneTooOld' /\ AtMostTwoReports'
    BY <1>1, <1>2, <1>3 DEF EmptyAtFirst, NoOrphans, NoneTooOld, AtMostTwoReports
  <1> QED
    BY <1>4, <1>5, <1>6

\* The report of SIGUSR1 keeps the invariant.
LEMMA ReportInv ==
  ASSUME IInv, Report
  PROVE  IInv'
  <1> USE DEF IInv
  <1>1. /\ UNCHANGED <<stats, now, open, opened>> /\ last' = gc_last
        /\ sessions' = gc(sessions)
        /\ reports' = [i \in DOMAIN sessions' |-> reports[i]]
    BY DEF Report, Restrict, stats_printed
  <1>2. now \in Nat /\ last \in {NEVER} \cup 0 .. now
    BY TimeAssumption, SMT DEF TypeOK
  <1>3. /\ \A i \in DOMAIN sessions : sessions[i].initial \in 0 .. now
        /\ \A i \in DOMAIN sessions : sessions[i].initial + SECS_TO_EXPIRE >= last
        /\ last = NEVER => \A i \in DOMAIN sessions : sessions[i].initial + SECS_TO_EXPIRE >= now
    BY DEF TypeOK, NoneTooOld, EmptyAtFirst
  <1>4. /\ DOMAIN sessions' \subseteq DOMAIN sessions
        /\ \A i \in DOMAIN sessions' : sessions'[i] = sessions[i]
        /\ \A i \in DOMAIN sessions' : sessions'[i].initial + SECS_TO_EXPIRE >= last'
        /\ last' \in 0 .. now
    BY <1>1, <1>2, <1>3, Collected, TimeAssumption
  <1>5. DOMAIN reports' = DOMAIN sessions' /\ \A i \in DOMAIN sessions' : reports'[i] = reports[i]
    BY <1>1
  <1>6. TypeOK'
    BY <1>1, <1>4, <1>5 DEF TypeOK
  <1>7. BackExists'
    BY <1>1, <1>4 DEF BackExists, uses_back
  <1>8. EmptyAtFirst' /\ NoOrphans' /\ NoneTooOld' /\ AtMostTwoReports'
    BY <1>1, <1>4, <1>5, SMT DEF EmptyAtFirst, NoOrphans, NoneTooOld, AtMostTwoReports, NEVER
  <1> QED
    BY <1>6, <1>7, <1>8

\* The inductive invariant holds in every state of the sniffer.
THEOREM Invariance == Spec => []IInv
  <1>1. IInv /\ [Next]_vars => IInv'
    <2> SUFFICES ASSUME IInv, [Next]_vars PROVE IInv'
      OBVIOUS
    <2> USE DEF IInv
    <2>1. CASE Tick
      <3>1. /\ now' = now + 1 /\ now < MaxTime
            /\ UNCHANGED <<sessions, stats, last, open, opened, reports>>
        BY <2>1 DEF Tick
      <3>2. now \in Nat /\ MaxTime \in Nat
        BY TimeAssumption, SMT DEF TypeOK
      <3>3. now' \in 0 .. MaxTime /\ \A n \in 0 .. now : n \in 0 .. now'
        BY <3>1, <3>2, SMT
      <3>4. \A i \in DOMAIN sessions : sessions[i] \in [initial : 0 .. now',
                                                        state : {UNKNOWN, CLIENT, SERVER}]
        BY <3>3 DEF TypeOK
      <3>5. last \in {NEVER} \cup 0 .. now'
        BY <3>3 DEF TypeOK
      <3>6. TypeOK'
        BY <3>1, <3>3, <3>4, <3>5 DEF TypeOK
      <3> QED
        BY <3>1, <3>6 DEF EmptyAtFirst, BackExists, uses_back, NoOrphans, NoneTooOld,
                          AtMostTwoReports
    <2>2. ASSUME NEW id \in Id, Follow(id) PROVE IInv'
      <3>1. /\ open' = open \cup {id} /\ opened' = opened + 1 /\ opened < MaxStreams
            /\ UNCHANGED <<sessions, stats, last, now, reports>>
        BY <2>2 DEF Follow
      <3>2. opened' \in 0 .. MaxStreams
        BY <3>1, TimeAssumption, SMT DEF TypeOK
      <3>3. TypeOK'
        BY <3>1, <3>2 DEF TypeOK
      <3> QED
        BY <3>1, <3>3 DEF EmptyAtFirst, BackExists, uses_back, NoOrphans, NoneTooOld,
                          AtMostTwoReports
    <2>3. ASSUME NEW id \in Id, NEW payload \in Payload, http_cap(id, payload) PROVE IInv'
      BY <2>3, CapInv
    <2>4. ASSUME NEW id \in Id, http_fin(id) PROVE IInv'
      BY <2>4, FinInv
    <2>5. CASE Report
      BY <2>5, ReportInv
    <2>6. CASE UNCHANGED vars
      BY <2>6 DEF vars, TypeOK, EmptyAtFirst, BackExists, uses_back, NoOrphans, NoneTooOld,
                  AtMostTwoReports
    <2> QED
      BY <2>1, <2>2, <2>3, <2>4, <2>5, <2>6 DEF Next
  <1> QED
    BY InitInv, <1>1, PTL DEF Spec

\* http_inspect never takes stats.back() of an empty vector.
THEOREM StatsBackIsDefined == Spec => []BackExists
  BY Invariance, PTL DEF IInv

\* Every session of the table belongs to a stream that is being followed.
THEOREM SessionsAreFollowed == Spec => []NoOrphans
  BY Invariance, PTL DEF IInv

\* gc leaves no session that had expired when it last looked.
THEOREM CollectionIsComplete == Spec => []NoneTooOld
  BY Invariance, PTL DEF IInv

\* A session makes at most two entries in Stream::stats.
THEOREM ReportsAreBounded == Spec => []AtMostTwoReports
  BY Invariance, PTL DEF IInv

-----------------------------------------------------------------------------
(* The threads and MUTEX                                                   *)

Act == [what : {"join", "follow", "ended"} \cup T!Signals, at : {"outside", "lock", "inside"}]

\* main waits in join and the follower follows, until it has ended; handlers
\* are on top of that.
StackTypeOK ==
  /\ stack \in [T!Threads -> Seq(Act)]
  /\ \A t \in T!Threads : stack[t] # <<>>
  /\ \A t \in T!Threads : \A n \in 2 .. Len(stack[t]) :
        stack[t][n].what \in T!Signals /\ stack[t][n].at # "outside"
  /\ stack[T!main][1] = T!Activity("join", "outside")
  /\ \/ stack[T!follower][1].what = "follow"
     \/ stack[T!follower][1] = T!Activity("ended", "outside")
  /\ owner \in T!Threads \cup {T!Nobody}
  /\ process \in {"running", "exiting", "returning", "gone"}

\* One activity is inside MUTEX at a time, on the thread that owns it; exit
\* keeps MUTEX.
OneInside ==
  /\ \A t \in T!Threads : \A n \in DOMAIN stack[t] :
        stack[t][n].at = "inside" =>
           owner = t /\ \A m \in DOMAIN stack[t] : stack[t][m].at = "inside" => m = n
  /\ owner # T!Nobody => \E n \in DOMAIN stack[owner] : stack[owner][n].at = "inside"
  /\ process = "exiting" => owner # T!Nobody
  /\ T!NoUseAfterExit

ThreadsInv == StackTypeOK /\ OneInside

\* The two threads and the two signals are different names, of nobody else.
LEMMA Names ==
  /\ T!Threads = {T!main, T!follower} /\ T!main # T!follower
  /\ T!Nobody \notin T!Threads
  /\ T!SIGINT # T!SIGUSR1
  /\ T!SIGINT \notin {"join", "follow", "ended"} /\ T!SIGUSR1 \notin {"join", "follow", "ended"}
  /\ T!Signals = {T!SIGINT, T!SIGUSR1}
  BY DEF T!Threads, T!main, T!follower, T!Nobody, T!SIGINT, T!SIGUSR1, T!Signals

\* GoesOn replaces the topmost activity of one thread and keeps the others.
LEMMA GoesOnTop ==
  ASSUME StackTypeOK, NEW t \in T!Threads, NEW at \in {"outside", "lock", "inside"}, T!GoesOn(t, at)
  PROVE  /\ stack' \in [T!Threads -> Seq(Act)]
         /\ \A u \in T!Threads : u # t => stack'[u] = stack[u]
         /\ Len(stack'[t]) = Len(stack[t])
         /\ Len(stack[t]) \in Nat /\ Len(stack[t]) >= 1
         /\ \A n \in 1 .. Len(stack[t]) : n # Len(stack[t]) => stack'[t][n] = stack[t][n]
         /\ stack'[t][Len(stack[t])] = [what |-> T!Top(t).what, at |-> at]
  <1> DEFINE s == stack[t]
  <1>1. s \in Seq(Act) /\ s # <<>> /\ Len(s) \in Nat /\ Len(s) >= 1
    BY SMT DEF StackTypeOK
  <1>2. s[Len(s)] \in Act
    BY <1>1, SMT
  <1>3. stack' = [stack EXCEPT ![t] = [s EXCEPT ![Len(s)] = [@ EXCEPT !.at = at]]]
    BY DEF T!GoesOn, T!Depth
  <1>4. [s[Len(s)] EXCEPT !.at = at] = [what |-> s[Len(s)].what, at |-> at]
    BY <1>2, SMT DEF Act
  <1>5. [what |-> s[Len(s)].what, at |-> at] \in Act
    BY <1>2 DEF Act
  <1>6. stack'[t] = [s EXCEPT ![Len(s)] = [what |-> s[Len(s)].what, at |-> at]]
    BY <1>3, <1>4 DEF StackTypeOK
  <1>7. stack' \in [T!Threads -> Seq(Act)]
    BY <1>1, <1>3, <1>4, <1>5, SMT DEF StackTypeOK
  <1> QED
    BY <1>1, <1>3, <1>5, <1>6, <1>7, SMT DEF StackTypeOK, T!Top, T!Depth

\* A lock, an unlock or the start of a callback moves the topmost activity of
\* one thread only.
LEMMA GoesOnInv ==
  ASSUME ThreadsInv, NEW t \in T!Threads, NEW at \in {"outside", "lock", "inside"},
         T!GoesOn(t, at), process' = process,
         \/ /\ T!Top(t) = T!Activity("follow", "outside") /\ at = "lock" /\ owner' = owner
         \/ /\ T!Top(t).at = "lock" /\ at = "inside" /\ owner = T!Nobody /\ owner' = t
         \/ /\ T!Top(t) = T!Activity("follow", "inside") /\ at = "outside" /\ owner' = T!Nobody
  PROVE  ThreadsInv'
  <1> DEFINE k == Len(stack[t])
  <1>1. /\ stack' \in [T!Threads -> Seq(Act)]
        /\ \A u \in T!Threads : u # t => stack'[u] = stack[u]
        /\ Len(stack'[t]) = k /\ k \in Nat /\ k >= 1
        /\ \A n \in 1 .. k : n # k => stack'[t][n] = stack[t][n]
        /\ stack'[t][k] = [what |-> stack[t][k].what, at |-> at]
    BY GoesOnTop DEF ThreadsInv, T!Top, T!Depth
  <1>2. stack'[t][k].what = stack[t][k].what /\ stack'[t][k].at = at
    BY <1>1, SMT
  <1>3. stack \in [T!Threads -> Seq(Act)] /\ owner \in T!Threads \cup {T!Nobody}
    BY DEF ThreadsInv, StackTypeOK
  <1>4. \A u \in T!Threads : DOMAIN stack'[u] = DOMAIN stack[u] /\ DOMAIN stack[u] = 1 .. Len(stack[u])
    <2> TAKE u \in T!Threads
    <2>1. stack[u] \in Seq(Act) /\ stack'[u] \in Seq(Act)
      BY <1>1, <1>3
    <2>2. Len(stack'[u]) = Len(stack[u])
      BY <1>1
    <2> QED
      BY <2>1, <2>2, SMT
  <1>5. T!Top(t) = stack[t][k]
    BY DEF T!Top, T!Depth
  <1> HIDE DEF k
  <1>0. /\ T!Top(t) = T!Activity("follow", "outside") => stack[t][k].what = "follow" /\ stack[t][k].at = "outside"
        /\ T!Top(t) = T!Activity("follow", "inside") => stack[t][k].what = "follow" /\ stack[t][k].at = "inside"
    BY <1>5, SMT DEF T!Activity
  <1>6. StackTypeOK'
    <2>1. \A u \in T!Threads : stack'[u] # <<>>
      BY <1>1, SMT DEF ThreadsInv, StackTypeOK
    <2>2. \A u \in T!Threads : \A n \in 2 .. Len(stack'[u]) :
             stack'[u][n].what \in T!Signals /\ stack'[u][n].at # "outside"
      <3> TAKE u \in T!Threads
      <3> TAKE n \in 2 .. Len(stack'[u])
      <3>1. n \in 2 .. Len(stack[u])
        BY <1>1 DEF k
      <3>2. stack[u][n].what \in T!Signals /\ stack[u][n].at # "outside"
        BY <3>1 DEF ThreadsInv, StackTypeOK
      <3>3. CASE u = t /\ n = k
        <4>1. at # "outside"
          BY <1>0, <3>2, <3>3, Names
        <4> QED
          BY <1>2, <3>2, <3>3, <4>1
      <3>4. CASE u # t \/ n # k
        BY <1>1, <3>1, <3>2, <3>4, SMT DEF k
      <3> QED
        BY <3>3, <3>4
    <2>3. stack'[T!main][1] = T!Activity("join", "outside")
      <3>1. stack[T!main][1].what = "join" /\ stack[T!main][1].at = "outside"
        BY SMT DEF ThreadsInv, StackTypeOK, T!Activity
      <3>2. ~(t = T!main /\ k = 1)
        BY <1>0, <1>5, <3>1
      <3>3. stack'[T!main][1] = stack[T!main][1]
        BY <1>1, <3>2, Names, SMT
      <3> QED
        BY <3>3 DEF ThreadsInv, StackTypeOK
    <2>4. \/ stack'[T!follower][1].what = "follow"
          \/ stack'[T!follower][1] = T!Activity("ended", "outside")
      BY <1>0, <1>1, <1>2, <1>5, Names, SMT DEF ThreadsInv, StackTypeOK, T!Activity
    <2>5. owner' \in T!Threads \cup {T!Nobody}
      BY <1>3
    <2> QED
      BY <1>1, <2>1, <2>2, <2>3, <2>4, <2>5 DEF StackTypeOK, ThreadsInv
  <1>7. OneInside'
    <2>1. CASE at = "inside"
      <3>1. \A u \in T!Threads : \A n \in DOMAIN stack[u] : stack[u][n].at # "inside"
        BY <2>1, Names DEF ThreadsInv, OneInside
      <3>2. \A u \in T!Threads : \A n \in DOMAIN stack'[u] : stack'[u][n].at = "inside" => u = t /\ n = k
        BY <1>1, <1>2, <1>4, <3>1, SMT
      <3>3. owner' = t /\ owner = T!Nobody /\ process # "exiting" /\ t # T!Nobody
        BY <2>1, Names DEF ThreadsInv, OneInside
      <3>4. k \in DOMAIN stack'[t] /\ stack'[t][k].at = "inside"
        BY <1>1, <1>2, <1>4, <2>1, SMT DEF k
      <3> QED
        BY <3>2, <3>3, <3>4 DEF OneInside, T!NoUseAfterExit
    <2>2. CASE at = "outside"
      <3>1. k \in DOMAIN stack[t] /\ stack[t][k].at = "inside"
        BY <1>0, <1>1, <1>4, <2>2, SMT DEF k
      <3>2. owner = t /\ \A m \in DOMAIN stack[t] : stack[t][m].at = "inside" => m = k
        BY <3>1 DEF ThreadsInv, OneInside
      <3>3. \A u \in T!Threads : \A n \in DOMAIN stack'[u] : stack'[u][n].at # "inside"
        <4> SUFFICES ASSUME NEW u \in T!Threads, NEW n \in DOMAIN stack'[u]
                     PROVE  stack'[u][n].at # "inside"
          OBVIOUS
        <4>1. CASE u = t /\ n = k
          BY <1>2, <2>2, <4>1
        <4>2. CASE u = t /\ n # k
          BY <1>1, <1>4, <3>2, <4>2 DEF k
        <4>3. CASE u # t
          BY <1>1, <3>2, <4>3 DEF ThreadsInv, OneInside
        <4> QED
          BY <4>1, <4>2, <4>3
      <3>4. process # "exiting"
        <4>1. stack[t][k].what # T!SIGINT
          BY <1>0, <2>2, Names
        <4> QED
          BY <1>1, <1>4, <3>1, <4>1 DEF ThreadsInv, OneInside, T!NoUseAfterExit, T!Inside, T!Depth
      <3> QED
        BY <2>2, <3>3, <3>4 DEF OneInside, T!NoUseAfterExit
    <2>3. CASE at = "lock"
      <3>1. stack[t][k].at = "outside" /\ owner' = owner
        BY <1>0, <2>3
      <3>2. \A u \in T!Threads : \A n \in DOMAIN stack[u] :
              /\ (stack'[u][n].at = "inside") = (stack[u][n].at = "inside")
              /\ stack'[u][n].what = stack[u][n].what
        BY <1>1, <1>2, <1>4, <2>3, <3>1, SMTT(60)
      <3> QED
        <4>1. /\ \A u \in T!Threads : \A n \in DOMAIN stack[u] :
                    stack[u][n].at = "inside" =>
                       owner = u /\ \A m \in DOMAIN stack[u] : stack[u][m].at = "inside" => m = n
              /\ owner # T!Nobody => \E n \in DOMAIN stack[owner] : stack[owner][n].at = "inside"
              /\ process = "exiting" => owner # T!Nobody
          BY DEF ThreadsInv, OneInside
        <4>2. /\ \A u \in T!Threads : \A n \in DOMAIN stack'[u] :
                    stack'[u][n].at = "inside" =>
                       owner' = u /\ \A m \in DOMAIN stack'[u] : stack'[u][m].at = "inside" => m = n
          BY <1>4, <3>1, <3>2, <4>1, SMT
        <4>3. owner' # T!Nobody => \E n \in DOMAIN stack'[owner'] : stack'[owner'][n].at = "inside"
          BY <1>3, <1>4, <3>1, <3>2, <4>1
        <4>4. T!NoUseAfterExit'
          BY <1>1, <1>4, <3>2, SMT DEF ThreadsInv, OneInside, T!NoUseAfterExit, T!Inside, T!Depth, k
        <4> QED
          BY <3>1, <4>1, <4>2, <4>3, <4>4 DEF OneInside
    <2> QED
      BY <2>1, <2>2, <2>3
  <1> QED
    BY <1>6, <1>7 DEF ThreadsInv

\* A handler begins on top of whatever its thread was doing.
LEMMA InterruptInv ==
  ASSUME ThreadsInv, NEW t \in T!Threads, NEW sig \in T!Signals, T!Interrupt(t, sig)
  PROVE  ThreadsInv'
  <1> DEFINE k == Len(stack[t])
             new == T!Activity(sig, "lock")
  <1>1. /\ stack' = [stack EXCEPT ![t] = Append(stack[t], new)]
        /\ owner' = owner /\ process' = process
    BY DEF T!Interrupt
  <1>2. stack \in [T!Threads -> Seq(Act)] /\ new \in Act /\ new.what = sig /\ new.at = "lock"
    BY DEF ThreadsInv, StackTypeOK, Act, T!Activity
  <1> HIDE DEF new
  <1>3. /\ stack' \in [T!Threads -> Seq(Act)]
        /\ \A u \in T!Threads : u # t => stack'[u] = stack[u]
        /\ k \in Nat /\ Len(stack'[t]) = k + 1 /\ stack'[t][k + 1] = new
        /\ \A n \in 1 .. k : stack'[t][n] = stack[t][n]
    BY <1>1, <1>2, SMT
  <1>4. k >= 1
    BY <1>2, <1>3, SMT DEF ThreadsInv, StackTypeOK
  <1>5. \A u \in T!Threads : /\ DOMAIN stack[u] = 1 .. Len(stack[u]) /\ Len(stack[u]) \in Nat
                             /\ DOMAIN stack'[u] = 1 .. Len(stack'[u])
    BY <1>2, <1>3, SMT
  <1> HIDE DEF k
  <1>6. StackTypeOK'
    <2>1. \A u \in T!Threads : stack'[u] # <<>>
      <3> TAKE u \in T!Threads
      <3>1. CASE u = t
        BY <1>3, <1>4, <3>1, SMT
      <3>2. CASE u # t
        BY <1>3, <3>2 DEF ThreadsInv, StackTypeOK
      <3> QED
        BY <3>1, <3>2
    <2>2. \A u \in T!Threads : \A n \in 2 .. Len(stack'[u]) :
             stack'[u][n].what \in T!Signals /\ stack'[u][n].at # "outside"
      <3> TAKE u \in T!Threads
      <3> TAKE n \in 2 .. Len(stack'[u])
      <3>1. CASE u = t /\ n = k + 1
        BY <1>2, <1>3, <3>1
      <3>2. CASE u = t /\ n # k + 1
        <4>1. n \in 2 .. k /\ stack'[u][n] = stack[u][n]
          BY <1>3, <1>4, <3>2, SMT
        <4> QED
          BY <3>2, <4>1 DEF ThreadsInv, StackTypeOK, k
      <3>3. CASE u # t
        BY <1>3, <3>3 DEF ThreadsInv, StackTypeOK
      <3> QED
        BY <3>1, <3>2, <3>3
    <2>3. \A u \in T!Threads : stack'[u][1] = stack[u][1]
      BY <1>3, <1>4, SMT
    <2>4. owner \in T!Threads \cup {T!Nobody} /\ process' = process /\ owner' = owner
      BY <1>1 DEF ThreadsInv, StackTypeOK
    <2> QED
      BY <1>3, <2>1, <2>2, <2>3, <2>4, Names DEF StackTypeOK, ThreadsInv
  <1>7. OneInside'
    <2>1. \A u \in T!Threads : \A n \in DOMAIN stack'[u] : stack'[u][n].at = "inside" =>
             n \in DOMAIN stack[u] /\ stack[u][n] = stack'[u][n]
      <3> TAKE u \in T!Threads
      <3> TAKE n \in DOMAIN stack'[u]
      <3>1. CASE u = t
        BY <1>2, <1>3, <1>5, <3>1, SMT DEF k
      <3>2. CASE u # t
        BY <1>3, <3>2
      <3> QED
        BY <3>1, <3>2
    <2>2. \A u \in T!Threads : \A n \in DOMAIN stack[u] :
             n \in DOMAIN stack'[u] /\ stack[u][n] = stack'[u][n]
      <3> TAKE u \in T!Threads
      <3> TAKE n \in DOMAIN stack[u]
      <3>1. CASE u = t
        <4>1. n \in 1 .. k
          BY <1>5, <3>1 DEF k
        <4>2. n \in 1 .. k + 1 /\ stack'[t][n] = stack[t][n]
          BY <1>3, <4>1, SMT
        <4> QED
          BY <1>3, <1>5, <3>1, <4>2
      <3>2. CASE u # t
        BY <1>3, <3>2
      <3> QED
        BY <3>1, <3>2
    <2> QED
      BY <1>1, <1>5, <2>1, <2>2, SMTT(60) DEF ThreadsInv, StackTypeOK, OneInside, T!NoUseAfterExit, T!Inside, T!Depth
  <1> QED
    BY <1>6, <1>7 DEF ThreadsInv

\* A handler returns to what it interrupted.
LEMMA HandlerReturnsInv ==
  ASSUME ThreadsInv, NEW t \in T!Threads, T!Unlock(t), T!Top(t).what # "follow"
  PROVE  ThreadsInv'
  <1> DEFINE k == Len(stack[t])
  <1>1. /\ stack' = [stack EXCEPT ![t] = SubSeq(stack[t], 1, k - 1)]
        /\ owner' = T!Nobody /\ process' = process
        /\ stack[t][k].at = "inside" /\ stack[t][k].what # T!SIGINT /\ stack[t][k].what # "follow"
    BY DEF T!Unlock, T!Top, T!Depth, T!owner_after_unlock
  <1>2. stack \in [T!Threads -> Seq(Act)] /\ stack[t] \in Seq(Act) /\ k \in Nat /\ k >= 1
    BY SMT DEF ThreadsInv, StackTypeOK
  <1>3. k >= 2
    <2>1. stack[t][1].at = "inside" => stack[t][1].what = "follow"
      BY Names, SMT DEF ThreadsInv, StackTypeOK, T!Activity
    <2>2. k # 1
      BY <1>1, <2>1
    <2> HIDE DEF k
    <2> QED
      BY <1>2, <2>2, SMT
  <1>4. /\ \A u \in T!Threads : u # t => stack'[u] = stack[u]
        /\ stack'[t] = SubSeq(stack[t], 1, k - 1)
    BY <1>1, <1>2
  <1>5. /\ stack'[t] \in Seq(Act) /\ Len(stack'[t]) = k - 1
        /\ \A n \in 1 .. k - 1 : stack'[t][n] = stack[t][n]
    BY <1>2, <1>3, <1>4, SMT
  <1>6. stack' \in [T!Threads -> Seq(Act)]
    BY <1>1, <1>2, <1>4, <1>5
  <1>7. \A u \in T!Threads : /\ DOMAIN stack[u] = 1 .. Len(stack[u]) /\ Len(stack[u]) \in Nat
                             /\ DOMAIN stack'[u] = 1 .. Len(stack'[u])
    BY <1>2, <1>6, SMT
  <1>8. k \in DOMAIN stack[t]
    BY <1>2, <1>7, SMT
  <1>9. owner = t /\ \A m \in DOMAIN stack[t] : stack[t][m].at = "inside" => m = k
    BY <1>1, <1>8 DEF ThreadsInv, OneInside
  <1>10. process # "exiting"
    BY <1>1, <1>2, SMTT(60) DEF ThreadsInv, OneInside, T!NoUseAfterExit, T!Inside, T!Depth
  <1> HIDE DEF k
  <1>11. StackTypeOK'
    <2>1. \A u \in T!Threads : stack'[u] # <<>>
      <3> TAKE u \in T!Threads
      <3>1. CASE u = t
        BY <1>2, <1>3, <1>5, <3>1, SMT
      <3>2. CASE u # t
        BY <1>4, <3>2 DEF ThreadsInv, StackTypeOK
      <3> QED
        BY <3>1, <3>2
    <2>2. \A u \in T!Threads : \A n \in 2 .. Len(stack'[u]) :
             stack'[u][n].what \in T!Signals /\ stack'[u][n].at # "outside"
      <3> TAKE u \in T!Threads
      <3> TAKE n \in 2 .. Len(stack'[u])
      <3>1. CASE u = t
        <4>1. n \in 2 .. k /\ stack'[u][n] = stack[u][n]
          BY <1>2, <1>5, <3>1, SMT
        <4> QED
          BY <3>1, <4>1 DEF ThreadsInv, StackTypeOK, k
      <3>2. CASE u # t
        BY <1>4, <3>2 DEF ThreadsInv, StackTypeOK
      <3> QED
        BY <3>1, <3>2
    <2>3. \A u \in T!Threads : stack'[u][1] = stack[u][1]
      BY <1>2, <1>3, <1>4, <1>5, SMT
    <2> QED
      BY <1>1, <1>6, <2>1, <2>2, <2>3, Names DEF StackTypeOK, ThreadsInv
  <1>12. OneInside'
    <2>1. \A u \in T!Threads : \A n \in DOMAIN stack'[u] : stack'[u][n].at # "inside"
      <3> TAKE u \in T!Threads
      <3> TAKE n \in DOMAIN stack'[u]
      <3>1. CASE u = t
        <4>1. n \in 1 .. k - 1
          BY <1>5, <1>7, <3>1
        <4>2. n \in DOMAIN stack[t] /\ n # k
          BY <1>2, <1>7, <4>1, SMT DEF k
        <4> QED
          BY <1>5, <1>9, <3>1, <4>1, <4>2
      <3>2. CASE u # t
        BY <1>4, <1>9, <3>2 DEF ThreadsInv, OneInside
      <3> QED
        BY <3>1, <3>2
    <2> QED
      BY <1>1, <1>10, <2>1 DEF OneInside, T!NoUseAfterExit
  <1> QED
    BY <1>11, <1>12 DEF ThreadsInv

\* At first MUTEX is free and nobody is inside.
LEMMA ThreadsInitInv == T!Init => ThreadsInv
  <1> SUFFICES ASSUME T!Init PROVE ThreadsInv
    OBVIOUS
  <1> DEFINE bottom(t) == T!Activity(IF t = T!main THEN "join" ELSE "follow", "outside")
  <1>1. /\ stack = [t \in T!Threads |-> <<bottom(t)>>]
        /\ owner = T!Nobody /\ process = "running"
    BY DEF T!Init
  <1>2. \A t \in T!Threads : bottom(t) \in Act
    BY DEF Act, T!Activity
  <1>3. bottom(T!main) = T!Activity("join", "outside") /\ bottom(T!follower).what = "follow"
        /\ \A t \in T!Threads : bottom(t).at = "outside"
    BY Names DEF T!Activity
  <1> HIDE DEF bottom
  <1>4. \A t \in T!Threads : /\ stack[t] = <<bottom(t)>> /\ Len(stack[t]) = 1 /\ DOMAIN stack[t] = {1}
                             /\ stack[t][1] = bottom(t) /\ stack[t] # <<>>
    BY <1>1, SMT
  <1>5. stack \in [T!Threads -> Seq(Act)]
    BY <1>1, <1>2, SMT
  <1>6. \A t \in T!Threads : \A n \in 2 .. Len(stack[t]) : FALSE
    <2> TAKE t \in T!Threads
    <2>1. Len(stack[t]) = 1
      BY <1>4
    <2> QED
      BY <2>1, SMT
  <1> QED
    BY <1>1, <1>3, <1>4, <1>5, <1>6, Names, SMT
       DEF ThreadsInv, StackTypeOK, OneInside, T!NoUseAfterExit

\* Every step of a thread, and every signal, keeps the use of MUTEX exclusive.
LEMMA ThreadsStepInv ==
  ASSUME ThreadsInv, [T!Next]_threads
  PROVE  ThreadsInv'
  <1>1. ASSUME NEW sig \in T!Signals, T!Kill(sig) PROVE ThreadsInv'
    BY <1>1, SMT DEF T!Kill, ThreadsInv, StackTypeOK, OneInside, T!NoUseAfterExit, T!Inside, T!Depth
  <1>2. ASSUME NEW t \in T!Threads, NEW sig \in T!Signals, T!Interrupt(t, sig) PROVE ThreadsInv'
    BY <1>2, InterruptInv
  <1>3. ASSUME NEW t \in T!Threads, T!Packet(t) PROVE ThreadsInv'
    BY <1>3, GoesOnInv DEF T!Packet
  <1>4. ASSUME NEW t \in T!Threads, T!SniffLoopEnds(t) PROVE ThreadsInv'
    <2> DEFINE end == T!Activity("ended", "outside")
    <2>1. /\ stack[t] = <<T!Activity("follow", "outside")>>
          /\ stack' = [stack EXCEPT ![t] = <<end>>]
          /\ owner' = owner /\ process' = process
      BY <1>4 DEF T!SniffLoopEnds
    <2>2. stack \in [T!Threads -> Seq(Act)] /\ end \in Act /\ end.at = "outside"
      BY DEF ThreadsInv, StackTypeOK, Act, T!Activity
    <2>3. /\ DOMAIN stack[t] = {1} /\ stack[t][1].what = "follow" /\ stack[t][1].at = "outside"
      BY <2>1, SMT DEF T!Activity
    <2>4. t = T!follower
      BY <2>3, Names, SMT DEF ThreadsInv, StackTypeOK, T!Activity
    <2> HIDE DEF end
    <2>5. /\ stack' \in [T!Threads -> Seq(Act)]
          /\ \A u \in T!Threads : u # t => stack'[u] = stack[u]
          /\ stack'[t] = <<end>> /\ DOMAIN stack'[t] = {1} /\ stack'[t][1] = end
          /\ Len(stack'[t]) = 1 /\ stack'[t] # <<>>
      BY <2>1, <2>2, SMT
    <2>6. StackTypeOK'
      BY <2>1, <2>4, <2>5, Names, SMT DEF ThreadsInv, StackTypeOK, end
    <2>7. OneInside'
      <3>1. \A u \in T!Threads : /\ DOMAIN stack'[u] = DOMAIN stack[u]
                                 /\ u # t => stack'[u] = stack[u]
        BY <2>3, <2>5
      <3>2. \A u \in T!Threads : \A n \in DOMAIN stack[u] :
               /\ (stack'[u][n].at = "inside") = (stack[u][n].at = "inside")
               /\ stack[u][n].at = "inside" => stack'[u][n].what = stack[u][n].what
        BY <2>2, <2>3, <2>5
      <3>3. \A u \in T!Threads : /\ DOMAIN stack[u] = 1 .. Len(stack[u])
                                 /\ DOMAIN stack'[u] = 1 .. Len(stack'[u])
        BY <2>2, <2>5, SMT
      <3> QED
        BY <2>1, <3>1, <3>2, <3>3, SMT
           DEF ThreadsInv, StackTypeOK, OneInside, T!NoUseAfterExit, T!Inside, T!Depth
    <2> QED
      BY <2>6, <2>7 DEF ThreadsInv
  <1>5. ASSUME NEW t \in T!Threads, T!Lock(t) PROVE ThreadsInv'
    BY <1>5, GoesOnInv DEF T!Lock, T!can_lock
  <1>6. ASSUME NEW t \in T!Threads, T!Unlock(t) PROVE ThreadsInv'
    <2>1. CASE T!Top(t).what = "follow"
      <3>1. T!Top(t) \in Act
        BY SMT DEF T!Top, T!Depth, ThreadsInv, StackTypeOK
      <3>2. T!Top(t) = T!Activity("follow", "inside")
        BY <1>6, <2>1, <3>1 DEF T!Unlock, T!Activity, Act
      <3> QED
        BY <1>6, <2>1, <3>2, GoesOnInv DEF T!Unlock, T!owner_after_unlock
    <2>2. CASE T!Top(t).what # "follow"
      BY <1>6, <2>2, HandlerReturnsInv
    <2> QED
      BY <2>1, <2>2
  <1>7. ASSUME NEW t \in T!Threads, T!Exit(t) PROVE ThreadsInv'
    <2> DEFINE k == Len(stack[t])
    <2>1. /\ stack' = stack /\ owner' = t /\ process' = "exiting"
          /\ stack[t][k] = T!Activity(T!SIGINT, "inside")
      BY <1>7 DEF T!Exit, T!owner_after_exit, T!Top, T!Depth
    <2>2. stack[t] \in Seq(Act) /\ stack[t] # <<>>
      BY DEF ThreadsInv, StackTypeOK
    <2>3. k \in DOMAIN stack[t] /\ stack[t][k].at = "inside" /\ stack[t][k].what = T!SIGINT
      BY <2>1, <2>2, SMT DEF T!Activity
    <2>4. owner = t /\ \A m \in DOMAIN stack[t] : stack[t][m].at = "inside" => m = k
      BY <2>3 DEF ThreadsInv, OneInside
    <2>5. \A u \in T!Threads : \A n \in DOMAIN stack[u] :
            stack[u][n].at = "inside" => u = t /\ n = k
      BY <2>4 DEF ThreadsInv, OneInside
    <2>6. \A u \in T!Threads : DOMAIN stack[u] = 1 .. Len(stack[u])
      BY SMT DEF ThreadsInv, StackTypeOK
    <2> HIDE DEF k
    <2>7. T!NoUseAfterExit'
      BY <2>1, <2>3, <2>5, <2>6 DEF T!NoUseAfterExit, T!Inside, T!Depth
    <2> QED
      BY <2>1, <2>4, <2>7, Names, SMT DEF ThreadsInv, StackTypeOK, OneInside
  <1>8. ASSUME NEW t \in T!Threads, T!MainReturns(t) \/ T!Gone(t) PROVE ThreadsInv'
    BY <1>8, SMT DEF T!MainReturns, T!Gone, ThreadsInv, StackTypeOK, OneInside, T!NoUseAfterExit
  <1>9. CASE UNCHANGED threads
    BY <1>9 DEF threads, ThreadsInv, StackTypeOK, OneInside, T!NoUseAfterExit, T!Inside, T!Depth
  <1> QED
    BY <1>1, <1>2, <1>3, <1>4, <1>5, <1>6, <1>7, <1>8, <1>9 DEF T!Next, T!Run

\* Whoever waits for MUTEX while nobody can run has it below itself.
LEMMA StuckMeansReentered == ThreadsInv => T!StuckOnlyByReentry
  <1> SUFFICES ASSUME ThreadsInv, T!Stuck
               PROVE  T!Reentered /\ \E n \in 1 .. T!Depth(owner) : T!Inside(owner, n)
    BY DEF T!StuckOnlyByReentry
  <1>1. \A t \in T!Threads : /\ stack[t] \in Seq(Act) /\ stack[t] # <<>>
                             /\ DOMAIN stack[t] = 1 .. Len(stack[t])
                             /\ Len(stack[t]) \in Nat /\ Len(stack[t]) >= 1
    BY SMT DEF ThreadsInv, StackTypeOK
  <1>2. T!Top(T!follower).what # "join"
    <2> DEFINE k == Len(stack[T!follower])
    <2>1. k \in Nat /\ k >= 1
      BY <1>1, Names
    <2>2. k = 1 => T!Top(T!follower).what # "join"
      BY SMT DEF ThreadsInv, StackTypeOK, T!Activity, T!Top, T!Depth
    <2>3. k >= 2 => T!Top(T!follower).what # "join"
      BY <2>1, Names, SMT DEF ThreadsInv, StackTypeOK, T!Top, T!Depth
    <2> HIDE DEF k
    <2> QED
      BY <2>1, <2>2, <2>3, SMT
  <1>3. T!Top(T!follower).at = "lock" /\ owner \in T!Threads
    BY <1>2, Names DEF T!Stuck, ThreadsInv, StackTypeOK
  <1>4. PICK n \in DOMAIN stack[owner] : stack[owner][n].at = "inside"
    BY <1>3, Names DEF ThreadsInv, OneInside
  <1>5. ASSUME owner = T!main, T!Top(T!main).what = "join" PROVE FALSE
    <2>1. Len(stack[T!main]) = 1
      <3> DEFINE k == Len(stack[T!main])
      <3>1. k \in Nat /\ k >= 1
        BY <1>1, Names
      <3>2. ~(k >= 2)
        BY <1>5, <3>1, Names, SMT DEF ThreadsInv, StackTypeOK, T!Top, T!Depth
      <3> HIDE DEF k
      <3>3. k = 1
        BY <3>1, <3>2, SMT
      <3> QED
        BY <3>3 DEF k
    <2>2. n = 1
      BY <1>1, <1>3, <1>4, <1>5, <2>1, SMT
    <2> QED
      BY <1>4, <1>5, <2>2, SMT DEF ThreadsInv, StackTypeOK, T!Activity
  <1>6. T!Top(owner).at = "lock"
    BY <1>3, <1>5, Names DEF T!Stuck
  <1> QED
    BY <1>1, <1>3, <1>4, <1>6, Names DEF T!Reentered, T!Inside, T!Depth

-----------------------------------------------------------------------------
(* The whole program                                                       *)

Calls == [id : Id, payload : Payload, known : BOOLEAN, since : Nat]

\* While http_cap runs, the follower's thread has MUTEX; the first session of
\* all is in the table before gc has run; and a call that is not stuck is
\* younger than a session may become.
CallInv ==
  /\ call = NoCall => EmptyAtFirst
  /\ call # NoCall =>
       /\ call \in Calls
       /\ stack[T!follower][1] = T!Activity("follow", "inside")
       /\ call.id \in DOMAIN sessions
       /\ call.since <= now
       /\ last = NEVER => ~call.known /\ DOMAIN sessions = {call.id}
       /\ ~call.known => /\ sessions[call.id] = Stream(call.since)
                         /\ reports[call.id] = 0
       /\ T!Reentered \/ now <= call.since + SECS_TO_EXPIRE

\* What SnifferSessions keeps but for EmptyAtFirst: the first session of all
\* is in the table before gc has run.
TableInv == TypeOK /\ BackExists /\ NoOrphans /\ NoneTooOld /\ AtMostTwoReports

WholeInv == ThreadsInv /\ TableInv /\ CallInv

\* The callback has MUTEX: no handler gets past its lock_guard.
LEMMA CallbackHolds ==
  ASSUME ThreadsInv, stack[T!follower][1] = T!Activity("follow", "inside")
  PROVE  /\ owner = T!follower
         /\ \A t \in T!Threads : T!Top(t).at = "inside" =>
               t = T!follower /\ T!Top(t).what = "follow"
         /\ T!Top(T!follower).at \in {"inside", "lock"}
         /\ T!Top(T!follower).at = "inside" => stack[T!follower] = <<T!Activity("follow", "inside")>>
  <1>1. \A t \in T!Threads : /\ stack[t] \in Seq(Act) /\ stack[t] # <<>>
                             /\ Len(stack[t]) \in DOMAIN stack[t] /\ 1 \in DOMAIN stack[t]
    BY SMT DEF ThreadsInv, StackTypeOK
  <1>2. stack[T!follower][1].at = "inside" /\ stack[T!follower][1].what = "follow"
    BY SMT DEF T!Activity
  <1>3. owner = T!follower /\ \A m \in DOMAIN stack[T!follower] :
                                 stack[T!follower][m].at = "inside" => m = 1
    BY <1>1, <1>2, Names DEF ThreadsInv, OneInside
  <1>4. \A t \in T!Threads : T!Top(t).at = "inside" => t = T!follower /\ Len(stack[t]) = 1
    BY <1>1, <1>3, Names, ZenonT(60) DEF ThreadsInv, OneInside, T!Top, T!Depth
  <1>5. T!Top(T!follower).at \in {"inside", "lock"}
    <2> DEFINE k == Len(stack[T!follower])
    <2>1. k \in Nat /\ k >= 1
      BY <1>1, Names, SMT
    <2>2. k = 1 => T!Top(T!follower).at = "inside"
      BY <1>2 DEF T!Top, T!Depth
    <2>3. k >= 2 => T!Top(T!follower).at \in {"inside", "lock"}
      <3>1. stack[T!follower][k] \in Act
        BY <1>1, Names, SMT
      <3>2. k >= 2 => stack[T!follower][k].at # "outside"
        BY <2>1, Names, SMT DEF ThreadsInv, StackTypeOK
      <3> QED
        BY <3>1, <3>2 DEF Act, T!Top, T!Depth
    <2> HIDE DEF k
    <2> QED
      BY <2>1, <2>2, <2>3, SMT
  <1>6. Len(stack[T!follower]) = 1 => stack[T!follower] = <<T!Activity("follow", "inside")>>
    BY <1>1, Names, SMT
  <1> QED
    BY <1>2, <1>3, <1>4, <1>5, <1>6, Names DEF T!Top, T!Depth

\* A step of the threads that gives MUTEX back to nobody: all but Unlock.
KeepsMutex ==
  \/ \E sig \in T!Signals : T!Kill(sig) \/ \E t \in T!Threads : T!Interrupt(t, sig)
  \/ \E t \in T!Threads : \/ T!Packet(t) \/ T!SniffLoopEnds(t)
                          \/ T!Lock(t) \/ T!Exit(t) \/ T!MainReturns(t) \/ T!Gone(t)

\* Such a step leaves the callback inside MUTEX, and stuck if it was.
LEMMA CallbackStays ==
  ASSUME ThreadsInv, stack[T!follower][1] = T!Activity("follow", "inside"), KeepsMutex
  PROVE  /\ stack'[T!follower][1] = T!Activity("follow", "inside")
         /\ T!Reentered => T!Reentered'
  <1> DEFINE f == T!follower
  <1>1. /\ owner = f /\ f \in T!Threads /\ owner # T!Nobody
        /\ \A t \in T!Threads : T!Top(t).at = "inside" => t = f /\ T!Top(t).what = "follow"
        /\ T!Top(f).at \in {"inside", "lock"}
    BY CallbackHolds, Names
  <1>2. stack \in [T!Threads -> Seq(Act)] /\ stack[f] \in Seq(Act) /\ stack[f] # <<>>
    BY <1>1 DEF ThreadsInv, StackTypeOK
  <1>3. ASSUME UNCHANGED <<stack, owner>>
        PROVE  stack'[f][1] = T!Activity("follow", "inside") /\ (T!Reentered => T!Reentered')
    BY <1>3 DEF T!Reentered, T!Top, T!Depth
  <1>4. ASSUME NEW sig \in T!Signals, T!Kill(sig)
        PROVE  stack'[f][1] = T!Activity("follow", "inside") /\ (T!Reentered => T!Reentered')
    BY <1>3, <1>4 DEF T!Kill
  <1>5. ASSUME NEW sig \in T!Signals, NEW t \in T!Threads, T!Interrupt(t, sig)
        PROVE  stack'[f][1] = T!Activity("follow", "inside") /\ (T!Reentered => T!Reentered')
    <2> DEFINE new == T!Activity(sig, "lock")
    <2>1. /\ stack' = [stack EXCEPT ![t] = Append(stack[t], new)] /\ owner' = owner
          /\ new.at = "lock" /\ new \in Act
      BY <1>5 DEF T!Interrupt, T!Activity, Act
    <2> HIDE DEF new
    <2>2. CASE t = f
      <3>1. stack'[f] = Append(stack[f], new)
        BY <1>2, <2>1, <2>2
      <3>2. stack'[f][1] = stack[f][1] /\ stack'[f][Len(stack'[f])] = new
        BY <1>2, <2>1, <3>1, SMT
      <3> QED
        BY <1>1, <2>1, <3>2 DEF T!Reentered, T!Top, T!Depth
    <2>3. CASE t # f
      <3>1. stack'[f] = stack[f]
        BY <1>2, <2>1, <2>3, SMT
      <3> QED
        BY <1>1, <2>1, <3>1 DEF T!Reentered, T!Top, T!Depth
    <2> QED
      BY <2>2, <2>3
  <1>6. ASSUME NEW t \in T!Threads, T!Packet(t) \/ T!SniffLoopEnds(t) PROVE FALSE
    <2>1. T!Top(t) = T!Activity("follow", "outside")
      <3>1. stack[t] = <<T!Activity("follow", "outside")>> => T!Top(t) = T!Activity("follow", "outside")
        BY SMT DEF T!Top, T!Depth
      <3> QED
        BY <1>6, <3>1 DEF T!Packet, T!SniffLoopEnds
    <2>2. t = f
      <3> DEFINE k == Len(stack[T!main])
      <3>1. stack[T!main] \in Seq(Act) /\ stack[T!main] # <<>> /\ k \in Nat /\ k >= 1
        BY Names, SMT DEF ThreadsInv, StackTypeOK
      <3>2. k = 1 => T!Top(T!main).what # "follow"
        BY SMT DEF ThreadsInv, StackTypeOK, T!Activity, T!Top, T!Depth
      <3>3. k >= 2 => T!Top(T!main).what # "follow"
        BY <3>1, Names, SMT DEF ThreadsInv, StackTypeOK, T!Top, T!Depth
      <3> HIDE DEF k
      <3>4. T!Top(T!main).what # "follow"
        BY <3>1, <3>2, <3>3, SMT
      <3> QED
        BY <2>1, <3>4, Names, SMT DEF T!Activity
    <2> QED
      BY <1>1, <2>1, <2>2, SMT DEF T!Activity
  <1>7. ASSUME NEW t \in T!Threads, T!Lock(t) \/ T!Exit(t) PROVE FALSE
    <2>1. ~T!Lock(t)
      BY <1>1 DEF T!Lock, T!can_lock
    <2>2. ~T!Exit(t)
      BY <1>1, Names, SMT DEF T!Exit, T!Activity
    <2> QED
      BY <1>7, <2>1, <2>2
  <1>8. ASSUME NEW t \in T!Threads, T!MainReturns(t) \/ T!Gone(t)
        PROVE  stack'[f][1] = T!Activity("follow", "inside") /\ (T!Reentered => T!Reentered')
    BY <1>3, <1>8 DEF T!MainReturns, T!Gone
  <1> QED
    BY <1>4, <1>5, <1>6, <1>7, <1>8 DEF KeepsMutex

\* A step of the threads alone preserves the invariant.
LEMMA ThreadsOnlyInv ==
  ASSUME WholeInv, KeepsMutex, UNCHANGED <<vars, call>>
  PROVE  WholeInv'
  <1>1. ThreadsInv'
    <2>1. T!Next
      BY DEF KeepsMutex, T!Next, T!Run
    <2> QED
      BY <2>1, ThreadsStepInv DEF WholeInv
  <1>2. TableInv'
    BY DEF WholeInv, TableInv, vars, TypeOK, BackExists, uses_back, NoOrphans, NoneTooOld,
           AtMostTwoReports
  <1>3. CallInv'
    <2>1. CASE call = NoCall
      BY <2>1 DEF WholeInv, CallInv, EmptyAtFirst, vars
    <2>2. CASE call # NoCall
      <3>1. /\ stack'[T!follower][1] = T!Activity("follow", "inside")
            /\ T!Reentered => T!Reentered'
        BY <2>2, CallbackStays DEF WholeInv, CallInv
      <3> QED
        BY <2>2, <3>1 DEF WholeInv, CallInv, vars, Stream, UNKNOWN
    <2> QED
      BY <2>1, <2>2
  <1> QED
    BY <1>1, <1>2, <1>3 DEF WholeInv

\* What is at the top of the follower's thread in its callback.
LEMMA CallbackAtTop ==
  ASSUME ThreadsInv, InCallback("inside")
  PROVE  /\ stack[T!follower][1] = T!Activity("follow", "inside")
         /\ ~T!Reentered
  <1> DEFINE k == Len(stack[T!follower])
  <1>1. stack[T!follower] \in Seq(Act) /\ stack[T!follower] # <<>> /\ k \in Nat /\ k >= 1
    BY Names, SMT DEF ThreadsInv, StackTypeOK
  <1>2. stack[T!follower][k] = T!Activity("follow", "inside")
    BY DEF InCallback, T!Top, T!Depth
  <1>3. ~(k >= 2)
    BY <1>1, <1>2, Names, SMT DEF ThreadsInv, StackTypeOK, T!Activity
  <1> HIDE DEF k
  <1>4. k = 1
    BY <1>1, <1>3, SMT
  <1>5. stack[T!follower][1] = T!Activity("follow", "inside")
    BY <1>2, <1>4
  <1>6. ~T!Reentered
    BY <1>5, CallbackHolds, SMT DEF InCallback, T!Reentered, T!Activity
  <1> QED
    BY <1>5, <1>6

\* The clock and the follower's own table preserve the invariant.
LEMMA ClockInv ==
  ASSUME WholeInv, InTime, Tick, UNCHANGED <<threads, call>>
  PROVE  WholeInv'
  <1>1. /\ now' = now + 1 /\ now < MaxTime
        /\ UNCHANGED <<sessions, stats, last, open, opened, reports>>
        /\ UNCHANGED <<stack, owner, pending, process, call>>
    BY DEF Tick, threads
  <1>2. now \in Nat /\ MaxTime \in Nat /\ SECS_TO_EXPIRE \in Nat
    BY TimeAssumption, SMT DEF WholeInv, TableInv, TypeOK
  <1>3. now' \in 0 .. MaxTime /\ \A n \in 0 .. now : n \in 0 .. now'
    BY <1>1, <1>2, SMT
  <1>4. \A i \in DOMAIN sessions : sessions[i] \in [initial : 0 .. now',
                                                    state : {UNKNOWN, CLIENT, SERVER}]
    BY <1>3 DEF WholeInv, TableInv, TypeOK
  <1>5. last \in {NEVER} \cup 0 .. now'
    BY <1>3 DEF WholeInv, TableInv, TypeOK
  <1>6. TypeOK'
    BY <1>1, <1>3, <1>4, <1>5 DEF WholeInv, TableInv, TypeOK
  <1>7. TableInv'
    BY <1>1, <1>6 DEF WholeInv, TableInv, BackExists, uses_back, NoOrphans, NoneTooOld,
                      AtMostTwoReports
  <1>8. ThreadsInv'
    BY ThreadsStepInv DEF WholeInv
  <1>9. CallInv'
    <2>1. CASE call = NoCall
      BY <1>1, <2>1 DEF WholeInv, CallInv, EmptyAtFirst
    <2>2. CASE call # NoCall
      <3>1. call.since \in Nat /\ call.since <= now
        BY <2>2 DEF WholeInv, CallInv, Calls
      <3>2. T!Reentered \/ now < call.since + SECS_TO_EXPIRE
        BY <2>2 DEF InTime
      <3>3. call.since <= now' /\ (T!Reentered' \/ now' <= call.since + SECS_TO_EXPIRE)
        BY <1>1, <1>2, <3>1, <3>2, SMT DEF T!Reentered, T!Top, T!Depth
      <3> QED
        BY <1>1, <2>2, <3>3 DEF WholeInv, CallInv, Stream
    <2> QED
      BY <2>1, <2>2
  <1> QED
    BY <1>7, <1>8, <1>9 DEF WholeInv

\* So does a new stream of the follower.
LEMMA FollowInv ==
  ASSUME WholeInv, NEW id \in Id, Follow(id), UNCHANGED <<threads, call>>
  PROVE  WholeInv'
  <1>1. /\ open' = open \cup {id} /\ opened' = opened + 1 /\ opened < MaxStreams
        /\ UNCHANGED <<sessions, stats, last, now, reports>>
        /\ UNCHANGED <<stack, owner, pending, process, call>>
    BY DEF Follow, threads
  <1>2. opened' \in 0 .. MaxStreams
    BY <1>1, TimeAssumption, SMT DEF WholeInv, TableInv, TypeOK
  <1>3. TypeOK'
    BY <1>1, <1>2 DEF WholeInv, TableInv, TypeOK
  <1>4. TableInv'
    BY <1>1, <1>3 DEF WholeInv, TableInv, BackExists, uses_back, NoOrphans, NoneTooOld,
                      AtMostTwoReports
  <1>5. ThreadsInv'
    BY ThreadsStepInv DEF WholeInv
  <1>6. CallInv'
    BY <1>1 DEF WholeInv, CallInv, EmptyAtFirst, Stream, T!Reentered, T!Top, T!Depth
  <1> QED
    BY <1>4, <1>5, <1>6 DEF WholeInv

\* http_cap finds its session or makes one.
LEMMA FindInv ==
  ASSUME WholeInv, NEW id \in Id, NEW payload \in Payload, Find(id, payload)
  PROVE  WholeInv'
  <1> DEFINE known == id \in DOMAIN sessions
  <1>1. /\ InCallback("inside") /\ call = NoCall /\ id \in open
        /\ call' = [id |-> id, payload |-> payload, known |-> known, since |-> now]
        /\ sessions' = table_found(id)
        /\ reports' = [i \in DOMAIN table_found(id) |-> IF i \in DOMAIN sessions THEN reports[i] ELSE 0]
        /\ UNCHANGED <<stats, last, now, open, opened>>
        /\ UNCHANGED threads
    BY DEF Find
  <1>2. now \in Nat /\ SECS_TO_EXPIRE \in Nat /\ last \in {NEVER} \cup 0 .. now
    BY TimeAssumption, SMT DEF WholeInv, TableInv, TypeOK
  <1>3. /\ DOMAIN sessions' = DOMAIN sessions \cup {id}
        /\ \A i \in DOMAIN sessions : sessions'[i] = sessions[i]
        /\ ~known => sessions'[id] = Stream(now)
    BY <1>1 DEF table_found, Put
  <1>4. /\ DOMAIN reports' = DOMAIN sessions'
        /\ \A i \in DOMAIN sessions : reports'[i] = reports[i]
        /\ ~known => reports'[id] = 0
    BY <1>1, <1>3
  <1>5. Stream(now) \in Record /\ Stream(now).state = UNKNOWN /\ Stream(now).initial = now
    BY <1>2, SMT DEF Stream, Record
  <1>6. ThreadsInv'
    BY <1>1, ThreadsStepInv DEF WholeInv
  <1>7. TypeOK'
    <2>1. DOMAIN sessions' \subseteq Id
      BY <1>3 DEF WholeInv, TableInv, TypeOK
    <2>2. \A i \in DOMAIN sessions' : sessions'[i] \in Record
      BY <1>3, <1>5 DEF WholeInv, TableInv, TypeOK, Record
    <2>3. \A i \in DOMAIN reports' : reports'[i] \in Nat
      BY <1>3, <1>4, SMT DEF WholeInv, TableInv, TypeOK
    <2> QED
      BY <1>1, <1>4, <2>1, <2>2, <2>3 DEF WholeInv, TableInv, TypeOK, Record
  <1>8. BackExists'
    BY <1>1, <1>3, <1>5 DEF WholeInv, TableInv, BackExists, uses_back
  <1>9. NoOrphans'
    BY <1>1, <1>3 DEF WholeInv, TableInv, NoOrphans
  <1>10. NoneTooOld'
    <2>1. now + SECS_TO_EXPIRE >= last
      BY <1>2, SMT DEF NEVER
    <2> QED
      BY <1>1, <1>3, <1>5, <2>1 DEF WholeInv, TableInv, NoneTooOld
  <1>11. AtMostTwoReports'
    BY <1>3, <1>4, <1>5, SMT DEF WholeInv, TableInv, AtMostTwoReports
  <1>12. CallInv'
    <2>1. call' # NoCall
      <3>1. "id" \in DOMAIN call' /\ "id" \notin DOMAIN NoCall
        BY <1>1 DEF NoCall
      <3> QED
        BY <3>1
    <2>2. call' \in Calls
      BY <1>1, <1>2, SMTT(60) DEF Calls
    <2>3. call'.id = id /\ call'.known = known /\ call'.since = now
      BY <1>1
    <2>4. stack'[T!follower][1] = T!Activity("follow", "inside")
      BY <1>1, CallbackAtTop DEF WholeInv, threads
    <2>5. last = NEVER => ~known /\ DOMAIN sessions' = {id}
      BY <1>1, <1>3 DEF WholeInv, CallInv, EmptyAtFirst
    <2>6. now <= now + SECS_TO_EXPIRE
      BY <1>2, SMT
    <2>7. now' = now /\ last' = last
      BY <1>1
    <2>8. /\ call'.id \in DOMAIN sessions' /\ call'.since <= now'
          /\ now' <= call'.since + SECS_TO_EXPIRE
      BY <1>2, <1>3, <2>3, <2>6, <2>7, SMT
    <2>9. ~call'.known => sessions'[call'.id] = Stream(call'.since) /\ reports'[call'.id] = 0
      BY <1>3, <1>4, <2>3
    <2>10. last' = NEVER => ~call'.known /\ DOMAIN sessions' = {call'.id}
      BY <2>3, <2>5, <2>7
    <2>11. Stream(call.since)' = Stream(call'.since) /\ Calls' = Calls /\ NoCall' = NoCall
      BY DEF Stream, Calls, NoCall
    <2> HIDE DEF known
    <2> QED
      BY <2>1, <2>2, <2>4, <2>8, <2>9, <2>10, <2>11 DEF CallInv, T!Activity
  <1> QED
    BY <1>6, <1>7, <1>8, <1>9, <1>10, <1>11, <1>12 DEF WholeInv, TableInv

\* http_cap inspects the payload and collects: the session it found is still
\* there, and on the first collection of all it is the only one, and young.
LEMMA InspectInv ==
  ASSUME WholeInv, Inspect
  PROVE  WholeInv'
  <1> DEFINE id    == call.id
             known == call.known
             st    == IF known THEN sessions[id] ELSE Stream(now)
             found == finds_header(st, call.payload)
             new   == IF known THEN stat(st, call.payload) ELSE sessions[id]
             table == IF known THEN Put(sessions, id, stat(st, call.payload)) ELSE sessions
             count == reports[id] + (IF found THEN 1 ELSE 0)
  <1> USE DEF WholeInv, TableInv
  <1>1. /\ InCallback("inside") /\ call # NoCall /\ UNCHANGED <<now, open, opened>>
        /\ last' = gc_last /\ call' = NoCall /\ T!Unlock(T!follower)
        /\ stats' = IF found THEN Append(stats, id) ELSE stats
        /\ sessions' = gc(table)
        /\ reports' = Restrict([reports EXCEPT ![id] = count], DOMAIN gc(table))
    BY DEF Inspect
  <1>2. now \in Nat /\ last \in {NEVER} \cup 0 .. now /\ stats \in Seq(Id) /\ SECS_TO_EXPIRE \in Nat
    BY TimeAssumption, SMT DEF TypeOK
  <1>3. /\ call \in Calls /\ id \in DOMAIN sessions /\ id \in Id /\ call.since \in Nat
        /\ last = NEVER => ~known /\ DOMAIN sessions = {id}
        /\ ~known => sessions[id] = Stream(call.since) /\ reports[id] = 0
        /\ now <= call.since + SECS_TO_EXPIRE
        /\ known \in BOOLEAN /\ call.payload \in Payload
    BY <1>1, CallbackAtTop DEF CallInv, Calls
  <1>4. st \in Record /\ call.payload.from \in {CLIENT, SERVER} /\ sessions[id] \in Record
    <2>1. sessions[id] \in Record
      BY <1>3 DEF TypeOK, Record
    <2>2. Stream(now) \in Record
      BY <1>2, SMT DEF Stream, Record
    <2>3. call.payload.from \in {CLIENT, SERVER}
      BY <1>3 DEF Payload
    <2> QED
      BY <2>1, <2>2, <2>3
  <1>5. new \in Record /\ (new = sessions[id] \/ new.initial = now)
    <2>1. CASE known
      <3>1. st = sessions[id] /\ new = stat(st, call.payload)
        BY <2>1
      <3> HIDE DEF st, new, id
      <3> QED BY <1>2, <1>4, <3>1, SMT DEF stat, Record
    <2>2. CASE ~known
      <3>1. new = sessions[id]
        BY <2>2
      <3> HIDE DEF new, id
      <3> QED BY <1>4, <3>1
    <2> QED
      BY <2>1, <2>2
  <1>6. /\ DOMAIN table = DOMAIN sessions /\ table[id] = new
        /\ \A i \in DOMAIN sessions : i # id => table[i] = sessions[i]
    <2> HIDE DEF st, id, known
    <2> QED BY <1>3 DEF Put
  <1>7. /\ \A i \in DOMAIN table : table[i] \in Record
        /\ \A i \in DOMAIN table : table[i].initial \in 0 .. now
        /\ \A i \in DOMAIN table : table[i].initial + SECS_TO_EXPIRE >= last
        /\ last = NEVER => \A i \in DOMAIN table : table[i].initial + SECS_TO_EXPIRE >= now
    <2>1. new.initial + SECS_TO_EXPIRE >= last
      <3>1. CASE new = sessions[id]
        BY <1>3, <3>1 DEF NoneTooOld
      <3>2. CASE new.initial = now
        <4> HIDE DEF new
        <4> QED BY <1>2, <3>2, SMT DEF NEVER
      <3> QED
        BY <1>5, <3>1, <3>2
    <2>2. last = NEVER => new.initial + SECS_TO_EXPIRE >= now
      <3>1. last = NEVER => new = Stream(call.since)
        BY <1>3
      <3> HIDE DEF new
      <3> QED BY <1>2, <1>3, <3>1, SMT DEF Stream
    <2> HIDE DEF table, new
    <2>3. \A i \in DOMAIN table : table[i] \in Record
      BY <1>5, <1>6 DEF TypeOK, Record
    <2>4. \A i \in DOMAIN table : table[i].initial + SECS_TO_EXPIRE >= last
      BY <1>6, <2>1 DEF NoneTooOld
    <2>5. last = NEVER => \A i \in DOMAIN table : table[i].initial + SECS_TO_EXPIRE >= now
      <3>1. last = NEVER => DOMAIN table = {id}
        BY <1>3, <1>6
      <3> HIDE DEF id
      <3> QED BY <1>6, <2>2, <3>1
    <2> QED
      BY <2>3, <2>4, <2>5 DEF Record
  <1>8. /\ DOMAIN sessions' \subseteq DOMAIN sessions
        /\ \A i \in DOMAIN sessions' : sessions'[i] = IF i = id THEN new ELSE sessions[i]
        /\ \A i \in DOMAIN sessions' : sessions'[i].initial + SECS_TO_EXPIRE >= last'
        /\ last' \in 0 .. now
    <2> HIDE DEF table, new, id
    <2>1. /\ DOMAIN sessions' \subseteq DOMAIN table
          /\ \A i \in DOMAIN sessions' : sessions'[i] = table[i]
          /\ \A i \in DOMAIN sessions' : sessions'[i].initial + SECS_TO_EXPIRE >= last'
          /\ last' \in 0 .. now
      BY <1>1, <1>2, <1>7, Collected, TimeAssumption
    <2> QED
      BY <1>6, <2>1
  <1>9. /\ DOMAIN reports' = DOMAIN sessions'
        /\ \A i \in DOMAIN sessions' : reports'[i] = IF i = id THEN count ELSE reports[i]
    <2> HIDE DEF table, count, id
    <2>1. reports' = [i \in DOMAIN sessions' |-> [reports EXCEPT ![id] = count][i]]
      BY <1>1 DEF Restrict
    <2> QED BY <1>3, <1>8, <2>1 DEF TypeOK
  <1>10. count \in Nat /\ count <= (IF new.state = UNKNOWN THEN 1 ELSE 2)
    <2>0. reports[id] \in Nat
      BY <1>3 DEF TypeOK
    <2>1. CASE known /\ found
      <3>1. st.state = UNKNOWN /\ st = sessions[id] /\ reports[id] <= 1
        BY <1>3, <2>1 DEF finds_header, AtMostTwoReports
      <3>2. new.state # UNKNOWN /\ count = reports[id] + 1
        <4> HIDE DEF st
        <4> QED BY <1>4, <2>1 DEF stat, CLIENT, SERVER, UNKNOWN
      <3> HIDE DEF count, new, id
      <3> QED
        BY <2>0, <3>1, <3>2, SMT
    <2>2. CASE known /\ ~found
      <3>1. count = reports[id] + 0 /\ new = sessions[id]
        BY <2>2 DEF stat
      <3>2. reports[id] <= IF sessions[id].state = UNKNOWN THEN 1 ELSE 2
        BY <1>3 DEF AtMostTwoReports
      <3> HIDE DEF count, new, id
      <3> QED
        BY <2>0, <3>1, <3>2, SMT
    <2>3. CASE ~known
      <3>1. new.state = UNKNOWN /\ reports[id] = 0
        BY <1>3, <2>3, SMT DEF Stream
      <3>2. count \in {0, 1}
        BY <3>1, SMTT(60)
      <3> HIDE DEF count, new, id
      <3> QED
        BY <3>1, <3>2, SMT
    <2> QED
      BY <2>1, <2>2, <2>3
  <1>11. TypeOK'
    <2>1. DOMAIN sessions' \subseteq Id
      BY <1>8 DEF TypeOK
    <2>2. \A i \in DOMAIN sessions' : sessions'[i] \in Record /\ Record = Record'
      <3> HIDE DEF new, id
      <3> QED BY <1>1, <1>5, <1>8 DEF TypeOK, Record
    <2>3. stats' \in Seq(Id)
      <3> HIDE DEF found, id
      <3> QED BY <1>1, <1>2, <1>3, SMT
    <2>4. \A i \in DOMAIN reports' : reports'[i] \in Nat
      <3> HIDE DEF count, id
      <3> QED BY <1>8, <1>9, <1>10 DEF TypeOK
    <2> QED
      BY <1>1, <1>8, <1>9, <2>1, <2>2, <2>3, <2>4 DEF TypeOK, Record
  <1>12. BackExists'
    <2> SUFFICES ASSUME NEW i \in DOMAIN sessions', sessions'[i].state # UNKNOWN
                 PROVE  stats' # <<>>
      BY DEF BackExists, uses_back
    <2>1. CASE found
      <3> HIDE DEF found, id
      <3>1. Append(stats, id) # <<>>
        BY <1>2, <1>3, SMTT(60)
      <3> QED BY <1>1, <2>1, <3>1
    <2>2. CASE ~found
      <3>1. i \in DOMAIN sessions /\ sessions[i].state # UNKNOWN
        <4>1. new = sessions[id]
          BY <2>2 DEF stat
        <4> HIDE DEF new, id
        <4> QED BY <1>8, <4>1
      <3>2. [from |-> CLIENT, header |-> TRUE, empty |-> FALSE] \in Payload
        BY DEF Payload
      <3>3. stats # <<>>
        BY <3>1, <3>2 DEF BackExists, uses_back
      <3> HIDE DEF found
      <3> QED BY <1>1, <2>2, <3>3
    <2> QED
      BY <2>1, <2>2
  <1>13. NoOrphans'
    BY <1>1, <1>8 DEF NoOrphans
  <1>14. NoneTooOld'
    BY <1>8 DEF NoneTooOld
  <1>15. AtMostTwoReports'
    <2> HIDE DEF new, count, id
    <2> QED BY <1>8, <1>9, <1>10 DEF AtMostTwoReports
  <1>16. ThreadsInv'
    BY <1>1, ThreadsStepInv, Names DEF T!Next, T!Run
  <1>17. CallInv'
    BY <1>1, <1>8, SMTT(60) DEF CallInv, EmptyAtFirst, NEVER, NoCall
  <1> QED
    BY <1>11, <1>12, <1>13, <1>14, <1>15, <1>16, <1>17

\* Between the calls of http_cap the table is as SnifferSessions has it.
LEMMA BetweenCalls ==
  ASSUME WholeInv, call = NoCall, IInv', [T!Next]_threads, UNCHANGED call
  PROVE  WholeInv'
  <1>1. ThreadsInv'
    BY ThreadsStepInv DEF WholeInv
  <1> QED
    BY <1>1 DEF WholeInv, TableInv, CallInv, IInv, NoCall

\* end_fun finds no call of http_cap half done.
LEMMA FinishInv ==
  ASSUME WholeInv, NEW id \in Id, Finish(id)
  PROVE  WholeInv'
  <1>1. call = NoCall /\ UNCHANGED call /\ http_fin(id) /\ T!Next
    BY Names DEF Finish, T!Next, T!Run
  <1>2. IInv
    BY <1>1 DEF WholeInv, TableInv, CallInv, IInv
  <1> QED
    BY <1>1, <1>2, FinInv, BetweenCalls

\* The handler of SIGUSR1 collects and reports between the calls of http_cap:
\* it could not have taken MUTEX during one.
LEMMA HandleInv ==
  ASSUME WholeInv, NEW t \in T!Threads, Handle(t)
  PROVE  WholeInv'
  <1>1. UNCHANGED call /\ Report /\ T!Next
    BY DEF Handle, T!Next, T!Run
  <1>2. T!Top(t).at = "inside" /\ T!Top(t).what = T!SIGUSR1
    BY DEF Handle, T!Unlock
  <1>3. call = NoCall
    BY <1>2, CallbackHolds, Names DEF WholeInv, CallInv
  <1>4. IInv
    BY <1>3 DEF WholeInv, TableInv, CallInv, IInv
  <1> QED
    BY <1>1, <1>3, <1>4, ReportInv, BetweenCalls

\* The whole program keeps the invariants of the threads and of the table,
\* although http_cap works on the table in two steps.
THEOREM WholeInvariance == SnifferSpec => []WholeInv
  <1>1. SnifferInit => WholeInv
    BY InitInv, ThreadsInitInv DEF SnifferInit, WholeInv, TableInv, CallInv, IInv
  <1>2. WholeInv /\ [SnifferNext]_all => WholeInv'
    <2> SUFFICES ASSUME WholeInv, [SnifferNext]_all PROVE WholeInv'
      OBVIOUS
    <2>1. CASE Environment
      <3>1. CASE InTime /\ Tick /\ UNCHANGED <<threads, call>>
        BY <3>1, ClockInv
      <3>2. CASE \E id \in Id : Follow(id) /\ UNCHANGED <<threads, call>>
        BY <3>2, FollowInv
      <3>3. CASE KeepsMutex /\ UNCHANGED <<vars, call>>
        BY <3>3, ThreadsOnlyInv
      <3> QED
        BY <2>1, <3>1, <3>2, <3>3, Names DEF Environment, KeepsMutex
    <2>2. ASSUME NEW t \in T!Threads, Run(t) PROVE WholeInv'
      <3>1. CASE KeepsMutex /\ UNCHANGED <<vars, call>>
        BY <3>1, ThreadsOnlyInv
      <3>2. CASE Handle(t)
        BY <3>2, HandleInv
      <3>3. CASE Inspect
        BY <3>3, InspectInv
      <3>4. CASE \E id \in Id : Finish(id) \/ \E payload \in Payload : Find(id, payload)
        BY <3>4, FinishInv, FindInv
      <3> QED
        BY <2>2, <3>1, <3>2, <3>3, <3>4 DEF Run, KeepsMutex
    <2>3. CASE UNCHANGED all
      <3>1. UNCHANGED vars /\ UNCHANGED threads /\ UNCHANGED call
        BY <2>3 DEF all
      <3>2. ThreadsInv'
        BY <3>1, ThreadsStepInv DEF WholeInv
      <3>3. TableInv'
        BY <3>1 DEF WholeInv, TableInv, vars, TypeOK, BackExists, uses_back, NoOrphans, NoneTooOld,
                    AtMostTwoReports
      <3>4. CallInv'
        BY <3>1 DEF WholeInv, CallInv, EmptyAtFirst, vars, threads, Stream, T!Reentered, T!Top,
                    T!Depth
      <3> QED
        BY <3>2, <3>3, <3>4 DEF WholeInv
    <2> QED
      BY <2>1, <2>2, <2>3 DEF SnifferNext
  <1> QED
    BY <1>1, <1>2, PTL DEF SnifferSpec

\* The pointer pst of http_cap stays valid while http_cap runs: however old
\* its session grows, whatever signals arrive, nobody else collects it.
THEOREM PointerStaysValid == SnifferSpec => []PointsIntoTable
  <1>1. WholeInv => PointsIntoTable
    BY CallbackHolds DEF WholeInv, CallInv, PointsIntoTable
  <1> QED
    BY <1>1, WholeInvariance, PTL

\* Once exit destroys the statics nobody but its handler is inside MUTEX.
THEOREM ExitIsAlone == SnifferSpec => []NoUseAfterExit
  <1>1. WholeInv => NoUseAfterExit
    BY DEF WholeInv, ThreadsInv, OneInside, NoUseAfterExit
  <1> QED
    BY <1>1, WholeInvariance, PTL

\* The program hangs in one way only: the owner of MUTEX is interrupted inside
\* it by a handler that takes MUTEX.
THEOREM HangsOnlyByReentry == SnifferSpec => []StuckOnlyByReentry
  <1>1. WholeInv => StuckOnlyByReentry
    BY StuckMeansReentered DEF WholeInv, StuckOnlyByReentry
  <1> QED
    BY <1>1, WholeInvariance, PTL

\* What SnifferSessions promises of the table holds in the whole program, at
\* every step and not only between the calls of its functions.
THEOREM TableIsSound ==
  SnifferSpec => [](BackExists /\ NoOrphans /\ NoneTooOld /\ AtMostTwoReports)
  <1>1. WholeInv => BackExists /\ NoOrphans /\ NoneTooOld /\ AtMostTwoReports
    BY DEF WholeInv, TableInv
  <1> QED
    BY <1>1, WholeInvariance, PTL

\* The program does with its threads and MUTEX what SnifferThreads allows, and
\* nothing else: what is known of them alone holds of the whole.
THEOREM ThreadsAreImplemented == SnifferSpec => T!Spec
  <1>1. SnifferInit => T!Init
    BY DEF SnifferInit
  <1>2. [SnifferNext]_all => [T!Next]_(T!vars)
    <2>1. ASSUME Environment PROVE T!Next \/ UNCHANGED threads
      BY <2>1, Names DEF Environment, T!Next, T!Run
    <2>2. ASSUME NEW t \in T!Threads, Run(t) PROVE T!Next \/ UNCHANGED threads
      BY <2>2, Names DEF Run, Handle, Inspect, Finish, Find, T!Next, T!Run
    <2> QED
      BY <2>1, <2>2 DEF SnifferNext, all, threads, T!vars
  <1> QED
    BY <1>1, <1>2, PTL DEF SnifferSpec, T!Spec
=============================================================================
