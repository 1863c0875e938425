----------------------------- MODULE LoggerProofs ----------------------------
(***************************************************************************)
(* Loggers have the settings of their names, for any threads, loggers and  *)
(* names, however deep, and keep the messages of threads apart.            *)
(***************************************************************************)
EXTENDS Logger, TLAPS

\* Most steps are about sets and functions; those with arithmetic cite SMT.
USE Zenon

\* There is a least number among any (proved below, where it is used for every
\* theorem).
LeastNumbers == \A S \in SUBSET Nat : S # {} => \E x \in S : \A y \in S : x <= y

\* Sequences with the same elements are the same.
LEMMA SeqSame ==
  ASSUME NEW S, NEW s \in Seq(S), NEW u \in Seq(S), Len(u) = Len(s), \A j \in 1 .. Len(s) : u[j] = s[j]
  PROVE  s = u
BY SMT

\* Two sequences, one after the other.
LEMMA SeqJoin ==
  ASSUME NEW S, NEW s \in Seq(S), NEW u \in Seq(S)
  PROVE  /\ s \o u \in Seq(S) /\ Len(s \o u) = Len(s) + Len(u)
         /\ \A j \in 1 .. Len(s) + Len(u) : (s \o u)[j] = IF j <= Len(s) THEN s[j] ELSE u[j - Len(s)]
BY SMT

Names == Seq(STRING)

\* A table has its root.
Table(c) == DOMAIN c \subseteq Names /\ <<>> \in DOMAIN c

\* What is above a node above another is above that one.
LEMMA AboveAbove ==
  ASSUME NEW s \in Names, NEW t \in Names, NEW u \in Names, IsAbove(s, t), IsAbove(t, u)
  PROVE  IsAbove(s, u)
<1>1. /\ Len(s) <= Len(t) /\ \A j \in 1 .. Len(s) : s[j] = t[j]
      /\ Len(t) <= Len(u) /\ \A j \in 1 .. Len(t) : t[j] = u[j]
  BY DEF IsAbove
<1>2. Len(s) \in Nat /\ Len(t) \in Nat /\ Len(u) \in Nat
  BY SMT DEF Names
<1>3. Len(s) <= Len(u) /\ \A j \in 1 .. Len(s) : s[j] = u[j]
  BY <1>1, <1>2, SMT
<1> QED
  BY <1>3 DEF IsAbove

\* Of two nodes above a third, one is above the other.
LEMMA OneIsAbove ==
  ASSUME NEW s \in Names, NEW t \in Names, NEW u \in Names, IsAbove(s, u), IsAbove(t, u),
         Len(s) <= Len(t)
  PROVE  IsAbove(s, t)
<1>1. /\ \A j \in 1 .. Len(s) : s[j] = u[j]
      /\ \A j \in 1 .. Len(t) : t[j] = u[j]
  BY DEF IsAbove
<1>2. Len(s) \in Nat /\ Len(t) \in Nat
  BY SMT DEF Names
<1>3. \A j \in 1 .. Len(s) : s[j] = t[j]
  BY <1>1, <1>2, SMT
<1> QED
  BY <1>3 DEF IsAbove

\* Two nodes above a third at one depth are the same.
LEMMA OneAtEachDepth ==
  ASSUME NEW s \in Names, NEW t \in Names, NEW u \in Names, IsAbove(s, u), IsAbove(t, u),
         Len(s) = Len(t)
  PROVE  s = t
<1>1. /\ \A j \in 1 .. Len(s) : s[j] = u[j]
      /\ \A j \in 1 .. Len(t) : t[j] = u[j]
  BY DEF IsAbove
<1>2. \A j \in 1 .. Len(s) : s[j] = t[j]
  BY <1>1
<1> QED
  BY <1>2, SeqSame DEF Names

\* The root is above every name, and a name above itself.
LEMMA AboveEnds ==
  ASSUME NEW s \in Names
  PROVE  IsAbove(<<>>, s) /\ IsAbove(s, s)
<1>1. <<>> \in Names /\ Len(s) \in Nat /\ Len(<<>>) = 0
  BY SMT DEF Names
<1>2. Len(<<>>) <= Len(s) /\ \A j \in 1 .. Len(<<>>) : <<>>[j] = s[j]
  BY <1>1, SMT
<1>3. IsAbove(<<>>, s)
  BY <1>1, <1>2 DEF IsAbove
<1>4. IsAbove(s, s)
  BY <1>1, SMT DEF IsAbove
<1> QED
  BY <1>3, <1>4

\* The nodes that assign_tables makes are names, and above n.
LEMMA AboveMade ==
  ASSUME NEW n \in Names, NEW k \in 0 .. Len(n)
  PROVE  SubSeq(n, 1, k) \in Names /\ Len(SubSeq(n, 1, k)) = k /\ IsAbove(SubSeq(n, 1, k), n)
<1> DEFINE s == SubSeq(n, 1, k)
<1>1. s \in Names /\ Len(s) = k /\ \A j \in 1 .. k : s[j] = n[j]
  BY SMT DEF Names
<1>2. Len(n) \in Nat /\ Len(s) <= Len(n)
  BY <1>1, SMT DEF Names
<1> HIDE DEF s
<1>3. IsAbove(s, n)
  BY <1>1, <1>2 DEF IsAbove
<1> QED
  BY <1>1, <1>3 DEF s

\* A node that is above x, and none longer, is where search_tables ends.
LEMMA SearchIs ==
  ASSUME NEW c, Table(c), NEW x \in Names, NEW p \in DOMAIN c, IsAbove(p, x),
         \A q \in DOMAIN c : IsAbove(q, x) => Len(q) <= Len(p)
  PROVE  search_tables(c, x) = c[p]
<1> DEFINE on == {q \in DOMAIN c : IsAbove(q, x)}
           s == CHOOSE r \in on : \A q \in on : Len(q) <= Len(r)
<1>1. p \in on /\ \A q \in on : Len(q) <= Len(p)
  OBVIOUS
<1>2. s \in on /\ \A q \in on : Len(q) <= Len(s)
  BY <1>1
<1>3. s \in Names /\ p \in Names /\ IsAbove(s, x)
  BY <1>2 DEF Table
<1>4. Len(s) <= Len(p) /\ Len(p) <= Len(s)
  BY <1>1, <1>2
<1> HIDE DEF s
<1>5. Len(s) = Len(p)
  BY <1>3, <1>4, SMT DEF Names
<1>6. s = p
  BY <1>3, <1>5, OneAtEachDepth
<1> QED
  BY <1>6 DEF search_tables, s

\* There is such a node: the root at least is above x.
LEMMA SearchEnds ==
  ASSUME LeastNumbers, NEW c, Table(c), NEW x \in Names
  PROVE  \E p \in DOMAIN c : /\ IsAbove(p, x)
                             /\ \A q \in DOMAIN c : IsAbove(q, x) => Len(q) <= Len(p)
<1> DEFINE on == {q \in DOMAIN c : IsAbove(q, x)}
           gaps == {Len(x) - Len(q) : q \in on}
<1>1. Len(x) \in Nat
  BY SMT DEF Names
<1>2. ASSUME NEW q \in on PROVE Len(q) \in Nat /\ Len(x) - Len(q) \in Nat
  <2>1. q \in Names /\ Len(q) \in Nat
    BY SMT DEF Table, Names
  <2>2. Len(q) <= Len(x)
    BY <2>1 DEF IsAbove
  <2> QED
    BY <1>1, <2>1, <2>2, SMT
<1>3. gaps \subseteq Nat /\ gaps # {}
  <2>1. <<>> \in on
    BY AboveEnds DEF Table
  <2> QED
    BY <1>2, <2>1
<1>4. PICK g \in gaps : \A h \in gaps : g <= h
  <2> HIDE DEF gaps
  <2> QED
    BY <1>3 DEF LeastNumbers
<1>5. PICK p \in on : g = Len(x) - Len(p)
  OBVIOUS
<1>6. ASSUME NEW q \in on PROVE Len(q) <= Len(p)
  <2> DEFINE h == Len(x) - Len(q)
  <2>1. h \in gaps /\ g \in gaps
    OBVIOUS
  <2>2. h \in Nat /\ g \in Nat
    BY <1>3, <2>1
  <2>3. g <= h
    BY <1>4, <2>1
  <2> QED
    BY <1>1, <1>2, <1>5, <2>2, <2>3, SMT
<1> QED
  BY <1>6

\* assign_tables sets what search_tables finds for n and the names below it,
\* and for no other.
LEMMA SearchAssigned ==
  ASSUME LeastNumbers, NEW c, Table(c), NEW n \in Names, NEW val
  PROVE  /\ Table(assign_tables(c, n, val))
         /\ \A x \in Names : search_tables(assign_tables(c, n, val), x) =
                               IF IsAbove(n, x) THEN val ELSE search_tables(c, x)
<1> DEFINE old == {q \in DOMAIN c : ~IsAbove(n, q)}
           made == {SubSeq(n, 1, k) : k \in 0 .. Len(n)}
           a == assign_tables(c, n, val)
<1>1. a = [p \in old \cup made |-> IF p = n THEN val ELSE search_tables(c, p)]
  BY DEF assign_tables
<1> HIDE DEF a
<1>2. /\ Len(n) \in Nat /\ n \in made /\ <<>> \in made
      /\ \A p \in made : p \in Names /\ IsAbove(p, n) /\ Len(p) <= Len(n)
  <2>1. Len(n) \in Nat /\ SubSeq(n, 1, 0) = <<>> /\ SubSeq(n, 1, Len(n)) = n
    BY SMT DEF Names
  <2>2. n \in made /\ <<>> \in made
    <3>1. 0 \in 0 .. Len(n) /\ Len(n) \in 0 .. Len(n)
      BY <2>1, SMT
    <3> QED
      BY <2>1, <3>1
  <2>3. ASSUME NEW p \in made PROVE p \in Names /\ IsAbove(p, n) /\ Len(p) <= Len(n)
    <3>1. PICK k \in 0 .. Len(n) : p = SubSeq(n, 1, k)
      OBVIOUS
    <3>2. p \in Names /\ Len(p) = k /\ IsAbove(p, n)
      BY <3>1, AboveMade
    <3> QED
      BY <2>1, <3>2, SMT
  <2> QED
    BY <2>1, <2>2, <2>3
<1> HIDE DEF made
<1>3. Table(a)
  BY <1>1, <1>2 DEF Table
<1>4. ASSUME NEW x \in Names, IsAbove(n, x) PROVE search_tables(a, x) = val
  <2>1. ASSUME NEW q \in DOMAIN a, IsAbove(q, x) PROVE Len(q) <= Len(n)
    <3>1. CASE q \in made
      BY <1>2, <3>1
    <3>2. CASE q \in old
      <4>1. q \in Names /\ ~IsAbove(n, q) /\ Len(q) \in Nat
        BY <3>2, SMT DEF Table, Names
      <4>2. ~(Len(n) <= Len(q))
        BY <1>4, <2>1, <4>1, OneIsAbove
      <4> QED
        BY <1>2, <4>1, <4>2, SMT
    <3> QED
      BY <1>1, <3>1, <3>2
  <2>2. n \in DOMAIN a /\ a[n] = val
    BY <1>1, <1>2
  <2> QED
    BY <1>3, <1>4, <2>1, <2>2, SearchIs
<1>5. ASSUME NEW x \in Names, ~IsAbove(n, x) PROVE search_tables(a, x) = search_tables(c, x)
  <2>1. PICK p \in DOMAIN a : /\ IsAbove(p, x)
                              /\ \A q \in DOMAIN a : IsAbove(q, x) => Len(q) <= Len(p)
    BY <1>3, SearchEnds
  <2>2. search_tables(a, x) = a[p]
    BY <1>3, <2>1, SearchIs
  <2>3. p # n /\ a[p] = search_tables(c, p) /\ p \in Names
    BY <1>1, <1>3, <1>5, <2>1 DEF Table
  <2>4. PICK r \in DOMAIN c : /\ IsAbove(r, x)
                              /\ \A q \in DOMAIN c : IsAbove(q, x) => Len(q) <= Len(r)
    BY SearchEnds
  <2>5. r \in Names /\ search_tables(c, x) = c[r]
    BY <2>4, SearchIs DEF Table
  <2>6. r \in old
    BY <1>5, <2>4, <2>5, AboveAbove
  <2>7. Len(r) <= Len(p)
    BY <1>1, <2>1, <2>4, <2>6
  <2>8. IsAbove(r, p)
    BY <2>1, <2>3, <2>4, <2>5, <2>7, OneIsAbove
  <2>9. ASSUME NEW q \in DOMAIN c, IsAbove(q, p) PROVE Len(q) <= Len(r)
    <3>1. q \in Names
      BY DEF Table
    <3>2. IsAbove(q, x)
      BY <2>1, <2>3, <2>9, <3>1, AboveAbove
    <3> QED
      BY <2>4, <3>2
  <2>10. search_tables(c, p) = c[r]
    BY <2>3, <2>8, <2>9, SearchIs
  <2> QED
    BY <2>2, <2>3, <2>5, <2>10
<1> QED
  BY <1>3, <1>4, <1>5 DEF a

-----------------------------------------------------------------------------
(* The constructor, and what is set while it runs                          *)

\* t is inside a constructor and does not have m.
Constructing(t) == pc[t] = "level" \/ pc[t] = "register"

\* What the tables say that a logger has.
Found(f, l) == search_tables(tables[f], name[l])

LoggerTypes ==
  /\ DOMAIN tables = Fields /\ \A f \in Fields : Table(tables[f])
  /\ DOMAIN loggers \subseteq Loggers /\ \A l \in DOMAIN loggers : DOMAIN loggers[l] = Fields
  /\ DOMAIN pc = Threads /\ DOMAIN local = Threads
  /\ overtaken \subseteq Loggers \X {"out", "level"}

\* What the constructor of t has read is what the tables say, or was
\* overtaken; and nobody else has the logger.
ReadBy(t) ==
  /\ local[t].logger \in Loggers \ DOMAIN loggers
  /\ \A u \in Threads : Constructing(u) /\ local[u].logger = local[t].logger => u = t
  /\ DOMAIN local[t] = IF pc[t] = "level" THEN {"logger", "out"} ELSE {"logger", "out", "level"}
  /\ <<local[t].logger, "out">> \in overtaken \/ local[t].out = Found("out", local[t].logger)
  /\ pc[t] = "register" =>
       <<local[t].logger, "level">> \in overtaken \/ local[t].level = Found("level", local[t].logger)

ReadSoFar == \A t \in Threads : Constructing(t) => ReadBy(t)

\* A logger that is there has what the tables say, but for what was overtaken.
CopiesAgree ==
  \A l \in DOMAIN loggers, f \in Fields : <<l, f>> \in overtaken \/ loggers[l][f] = Found(f, l)

\* The tables give a hook exactly to the names to which they give hookbuf.
HooksAreBuffered ==
  \A x \in Names : search_tables(tables["hook"], x) # 0 <=> search_tables(tables["out"], x) = "hookbuf"

LoggerInv == LoggerTypes /\ ReadSoFar /\ CopiesAgree /\ HooksAreBuffered

\* The fields, and the names of loggers.
LEMMA FieldsAre ==
  ASSUME LoggerAssumption
  PROVE  /\ "out" \in Fields /\ "level" \in Fields /\ "hook" \in Fields /\ "logger" \notin Fields
         /\ Settings \subseteq Fields \ {"out", "level", "hook"}
         /\ \A l \in Loggers : name[l] \in Names
BY DEF LoggerAssumption, Fields, Names

\* global_data's constructor gives each table its root, with the default.
LEMMA InitLoggerInv == LoggerAssumption /\ Init => LoggerInv
<1> SUFFICES ASSUME LoggerAssumption, Init PROVE LoggerInv
  OBVIOUS
<1>1. /\ tables = [f \in Fields |-> [n \in {<<>>} |-> default[f]]]
      /\ loggers = [l \in {} |-> default] /\ overtaken = {}
      /\ pc = [t \in Threads |-> "idle"] /\ local = [t \in Threads |-> Idle]
  BY DEF Init
<1>2. <<>> \in Names
  BY SMT DEF Names
<1>3. \A f \in Fields : Table(tables[f])
  BY <1>1, <1>2 DEF Table
<1>4. LoggerTypes
  BY <1>1, <1>3 DEF LoggerTypes
<1>5. ReadSoFar /\ CopiesAgree
  BY <1>1 DEF ReadSoFar, CopiesAgree, Constructing
<1>6. ASSUME NEW x \in Names, NEW f \in Fields PROVE search_tables(tables[f], x) = default[f]
  <2>1. Table(tables[f]) /\ <<>> \in DOMAIN tables[f] /\ tables[f][<<>>] = default[f] /\ IsAbove(<<>>, x)
    BY <1>1, <1>3, AboveEnds DEF Table
  <2>2. \A q \in DOMAIN tables[f] : IsAbove(q, x) => Len(q) <= Len(<<>>)
    BY <1>1, SMT
  <2>3. search_tables(tables[f], x) = tables[f][<<>>]
    BY <2>1, <2>2, SearchIs
  <2> QED
    BY <2>1, <2>3
<1>7. HooksAreBuffered
  <2>1. default["hook"] = 0 /\ default["out"] = "cout"
    BY FieldsAre DEF default
  <2>2. "cout" # "hookbuf"
    OBVIOUS
  <2> QED
    BY <1>6, <2>1, <2>2, FieldsAre DEF HooksAreBuffered
<1> QED
  BY <1>4, <1>5, <1>7 DEF LoggerInv

\* A step of t, inside no constructor, that leaves tables and loggers alone.
LEMMA ElsewhereLoggerInv ==
  ASSUME LoggerInv, NEW t \in Threads, UNCHANGED <<tables, loggers, overtaken>>,
         ~Constructing(t), ~Constructing(t)', DOMAIN pc' = Threads, DOMAIN local' = Threads,
         \A u \in Threads : u # t => pc'[u] = pc[u] /\ local'[u] = local[u]
  PROVE  LoggerInv'
<1>1. \A u \in Threads : Constructing(u)' => Constructing(u) /\ pc'[u] = pc[u] /\ local'[u] = local[u]
  BY DEF Constructing
<1>2. LoggerTypes' /\ CopiesAgree' /\ HooksAreBuffered'
  BY DEF LoggerInv, LoggerTypes, CopiesAgree, HooksAreBuffered, Found
<1>3. ASSUME NEW u \in Threads, Constructing(u)' PROVE ReadBy(u)'
  <2>1. Constructing(u) /\ pc'[u] = pc[u] /\ local'[u] = local[u]
    BY <1>1, <1>3
  <2>2. ReadBy(u)
    BY <2>1 DEF LoggerInv, ReadSoFar
  <2>3. \A v \in Threads : Constructing(v)' /\ local'[v].logger = local'[u].logger => v = u
    BY <1>1, <2>1, <2>2 DEF ReadBy
  <2>4. /\ local'[u].logger \in Loggers \ DOMAIN loggers'
        /\ DOMAIN local'[u] = IF pc'[u] = "level" THEN {"logger", "out"} ELSE {"logger", "out", "level"}
    BY <2>1, <2>2 DEF ReadBy
  <2>5. /\ <<local'[u].logger, "out">> \in overtaken'
             \/ local'[u].out = search_tables(tables'["out"], name[local'[u].logger])
        /\ pc'[u] = "register" =>
             <<local'[u].logger, "level">> \in overtaken'
             \/ local'[u].level = search_tables(tables'["level"], name[local'[u].logger])
    BY <2>1, <2>2 DEF ReadBy, Found
  <2> QED
    BY <2>3, <2>4, <2>5 DEF ReadBy, Found
<1> QED
  BY <1>2, <1>3 DEF LoggerInv, ReadSoFar

\* The steps of a statement, and the end of a thread.
LEMMA StatementLoggerInv ==
  ASSUME LoggerInv, NEW t \in Threads,
         \/ thread_end(t) \/ put(t) \/ end_statement(t)
         \/ \E l \in Loggers, level \in {0, 1} : logger_stream(t, l, level)
  PROVE  LoggerInv'
<1>1. DOMAIN pc = Threads /\ DOMAIN local = Threads
  BY DEF LoggerInv, LoggerTypes
<1>2. CASE thread_end(t)
  <2>1. UNCHANGED <<tables, loggers, overtaken, pc, local>> /\ pc[t] = "idle"
    BY <1>2 DEF thread_end
  <2> QED
    BY <1>1, <2>1, ElsewhereLoggerInv DEF Constructing
<1>3. CASE put(t)
  <2>1. UNCHANGED <<tables, loggers, overtaken, pc>> /\ pc[t] = "stream"
    BY <1>3 DEF put
  <2>2. local' = [local EXCEPT ![t] = local'[t]]
    BY <1>1, <1>3 DEF put
  <2> QED
    BY <1>1, <2>1, <2>2, ElsewhereLoggerInv DEF Constructing
<1>4. CASE end_statement(t)
  <2>1. /\ UNCHANGED <<tables, loggers, overtaken>> /\ pc[t] = "stream"
        /\ pc' = [pc EXCEPT ![t] = "idle"] /\ local' = [local EXCEPT ![t] = Idle]
    BY <1>4 DEF end_statement
  <2> QED
    BY <1>1, <2>1, ElsewhereLoggerInv DEF Constructing
<1>5. ASSUME NEW l \in Loggers, NEW level \in {0, 1}, logger_stream(t, l, level) PROVE LoggerInv'
  <2>1. /\ UNCHANGED <<tables, loggers, overtaken>> /\ pc[t] = "idle"
        /\ pc' = [pc EXCEPT ![t] = "stream"] /\ local' = [local EXCEPT ![t] = local'[t]]
    BY <1>1, <1>5 DEF logger_stream
  <2> QED
    BY <1>1, <2>1, ElsewhereLoggerInv DEF Constructing
<1> QED
  BY <1>2, <1>3, <1>4, <1>5

\* What setting new at n does to the tables.
LEMMA TablesSet ==
  ASSUME LeastNumbers, LoggerInv, NEW t \in Threads, NEW n \in Names, NEW new, set(t, n, new)
  PROVE  /\ DOMAIN tables' = Fields /\ \A f \in Fields : Table(tables'[f])
         /\ \A f \in Fields, x \in Names :
              search_tables(tables'[f], x) =
                IF IsAbove(n, x) /\ f \in DOMAIN new THEN new[f] ELSE search_tables(tables[f], x)
<1>1. tables' = [f \in Fields |-> IF f \in DOMAIN new THEN assign_tables(tables[f], n, new[f]) ELSE tables[f]]
  BY DEF set
<1>2. \A f \in Fields : Table(tables[f])
  BY DEF LoggerInv, LoggerTypes
<1>3. ASSUME NEW f \in Fields
      PROVE  /\ Table(tables'[f])
             /\ \A x \in Names : search_tables(tables'[f], x) =
                  IF IsAbove(n, x) /\ f \in DOMAIN new THEN new[f] ELSE search_tables(tables[f], x)
  <2>1. CASE f \in DOMAIN new
    <3>1. tables'[f] = assign_tables(tables[f], n, new[f]) /\ Table(tables[f])
      BY <1>1, <1>2, <2>1
    <3>2. /\ Table(assign_tables(tables[f], n, new[f]))
          /\ \A x \in Names : search_tables(assign_tables(tables[f], n, new[f]), x) =
                                IF IsAbove(n, x) THEN new[f] ELSE search_tables(tables[f], x)
      BY <3>1, SearchAssigned
    <3> QED
      BY <2>1, <3>1, <3>2
  <2>2. CASE f \notin DOMAIN new
    <3>1. tables'[f] = tables[f]
      BY <1>1, <2>2
    <3> QED
      BY <1>2, <2>2, <3>1
  <2> QED
    BY <2>1, <2>2
<1> QED
  BY <1>1, <1>3

\* What was overtaken stays so for a logger under construction, and a
\* constructor that has read what is set is overtaken.
LEMMA OvertakenSet ==
  ASSUME LoggerAssumption, LoggerInv, NEW t \in Threads, NEW n, NEW new, DOMAIN new \subseteq Fields,
         set(t, n, new)
  PROVE  /\ overtaken' \subseteq Loggers \X {"out", "level"}
         /\ \A o \in overtaken : o \in overtaken' \/ (o[1] \in DOMAIN loggers /\ IsAbove(n, name[o[1]])
                                                       /\ o[2] \in DOMAIN new)
         /\ \A u \in Threads, f \in DOMAIN new :
              Constructing(u) /\ IsAbove(n, name[local[u].logger]) /\ f \in DOMAIN local[u] =>
              <<local[u].logger, f>> \in overtaken'
<1> DEFINE kept == {o \in overtaken : ~(o[1] \in DOMAIN loggers /\ IsAbove(n, name[o[1]]) /\ o[2] \in DOMAIN new)}
           late == {v \in Threads : pc[v] \in {"level", "register"} /\ IsAbove(n, name[local[v].logger])}
           here(u) == {<<local[u].logger, f>> : f \in DOMAIN new \cap DOMAIN local[u]}
<1>1. overtaken' = kept \cup UNION {here(u) : u \in late}
  BY DEF set
<1>2. \A u \in Threads : u \in late <=> Constructing(u) /\ IsAbove(n, name[local[u].logger])
  BY DEF Constructing
<1>3. ASSUME NEW u \in late, NEW f \in DOMAIN new \cap DOMAIN local[u]
      PROVE  <<local[u].logger, f>> \in Loggers \X {"out", "level"}
  <2>1. ReadBy(u)
    BY <1>2 DEF LoggerInv, ReadSoFar
  <2>2. local[u].logger \in Loggers /\ DOMAIN local[u] \subseteq {"logger", "out", "level"}
    BY <2>1 DEF ReadBy
  <2>3. f \in {"out", "level"}
    BY <2>2, FieldsAre
  <2> QED
    BY <2>2, <2>3
<1>4. kept \subseteq Loggers \X {"out", "level"}
  BY DEF LoggerInv, LoggerTypes
<1>5. overtaken' \subseteq Loggers \X {"out", "level"}
  <2> SUFFICES ASSUME NEW o \in overtaken' PROVE o \in Loggers \X {"out", "level"}
    OBVIOUS
  <2>1. CASE o \in kept
    BY <1>4, <2>1
  <2>2. CASE o \in UNION {here(u) : u \in late}
    <3>1. PICK u \in late : o \in here(u)
      BY <2>2
    <3>2. PICK f \in DOMAIN new \cap DOMAIN local[u] : o = <<local[u].logger, f>>
      BY <3>1
    <3> QED
      BY <1>3, <3>2
  <2> QED
    BY <1>1, <2>1, <2>2
<1>6. ASSUME NEW u \in Threads, NEW f \in DOMAIN new,
             Constructing(u), IsAbove(n, name[local[u].logger]), f \in DOMAIN local[u]
      PROVE  <<local[u].logger, f>> \in overtaken'
  <2>1. u \in late /\ <<local[u].logger, f>> \in here(u)
    BY <1>2, <1>6
  <2>2. <<local[u].logger, f>> \in UNION {here(v) : v \in late}
    BY <2>1
  <2> QED
    BY <1>1, <2>2
<1>7. \A o \in overtaken : o \in overtaken' \/ (o[1] \in DOMAIN loggers /\ IsAbove(n, name[o[1]])
                                                /\ o[2] \in DOMAIN new)
  BY <1>1
<1> HIDE DEF kept, late, here
<1> QED
  BY <1>5, <1>6, <1>7

\* A set keeps a constructor's readings good.
LEMMA SetReads ==
  ASSUME LeastNumbers, LoggerAssumption, LoggerInv, NEW t \in Threads, NEW n \in Names, NEW new, DOMAIN new \subseteq Fields,
         set(t, n, new), NEW u \in Threads, Constructing(u), NEW f \in {"out", "level"}, f \in DOMAIN local[u],
         <<local[u].logger, f>> \in overtaken \/ local[u][f] = Found(f, local[u].logger)
  PROVE  <<local[u].logger, f>> \in overtaken' \/ local[u][f] = search_tables(tables'[f], name[local[u].logger])
<1> DEFINE l == local[u].logger
<1>1. l \in Loggers \ DOMAIN loggers /\ name[l] \in Names /\ f \in Fields
  BY FieldsAre DEF LoggerInv, ReadSoFar, ReadBy
<1>2. CASE <<l, f>> \in overtaken
  <2>1. <<l, f>>[1] = l
    OBVIOUS
  <2> QED
    BY <1>1, <1>2, <2>1, OvertakenSet
<1>3. CASE IsAbove(n, name[l]) /\ f \in DOMAIN new
  BY <1>3, OvertakenSet
<1>4. CASE <<l, f>> \notin overtaken /\ ~(IsAbove(n, name[l]) /\ f \in DOMAIN new)
  <2>1. search_tables(tables'[f], name[l]) = search_tables(tables[f], name[l])
    BY <1>1, <1>4, TablesSet, SMT
  <2> QED
    BY <1>4, <2>1 DEF Found
<1> QED
  BY <1>2, <1>3, <1>4

\* What is set is a table's business and a logger's, hook and stream together.
LEMMA SetLoggerInv ==
  ASSUME LeastNumbers, LoggerAssumption, LoggerInv, NEW t \in Threads, NEW n \in Names, NEW new, DOMAIN new \subseteq Fields,
         set(t, n, new), "hook" \in DOMAIN new <=> "out" \in DOMAIN new,
         "out" \in DOMAIN new => (new["hook"] # 0 <=> new["out"] = "hookbuf")
  PROVE  LoggerInv'
<1>1. /\ DOMAIN tables' = Fields /\ \A f \in Fields : Table(tables'[f])
      /\ \A f \in Fields, x \in Names :
           search_tables(tables'[f], x) =
             IF IsAbove(n, x) /\ f \in DOMAIN new THEN new[f] ELSE search_tables(tables[f], x)
  BY TablesSet
<1>2. /\ UNCHANGED <<pc, local>>
      /\ loggers' = [l \in DOMAIN loggers |->
                        [f \in Fields |-> IF IsAbove(n, name[l]) /\ f \in DOMAIN new THEN new[f]
                                          ELSE loggers[l][f]]]
  BY DEF set
<1>3. DOMAIN loggers' = DOMAIN loggers /\ \A l \in DOMAIN loggers : DOMAIN loggers'[l] = Fields
  BY <1>2
<1>4. LoggerTypes'
  BY <1>1, <1>2, <1>3, OvertakenSet DEF LoggerInv, LoggerTypes
<1>5. HooksAreBuffered'
  <2> SUFFICES ASSUME NEW x \in Names
               PROVE  search_tables(tables'["hook"], x) # 0 <=> search_tables(tables'["out"], x) = "hookbuf"
    BY DEF HooksAreBuffered
  <2>1. "hook" \in Fields /\ "out" \in Fields
    BY FieldsAre
  <2>2. /\ search_tables(tables'["hook"], x) =
             IF IsAbove(n, x) /\ "hook" \in DOMAIN new THEN new["hook"] ELSE search_tables(tables["hook"], x)
        /\ search_tables(tables'["out"], x) =
             IF IsAbove(n, x) /\ "out" \in DOMAIN new THEN new["out"] ELSE search_tables(tables["out"], x)
    BY <1>1, <2>1
  <2>3. search_tables(tables["hook"], x) # 0 <=> search_tables(tables["out"], x) = "hookbuf"
    BY DEF LoggerInv, HooksAreBuffered
  <2> QED
    BY <2>2, <2>3
<1>6. CopiesAgree'
  <2> SUFFICES ASSUME NEW l \in DOMAIN loggers, NEW f \in Fields
               PROVE  <<l, f>> \in overtaken' \/ loggers'[l][f] = search_tables(tables'[f], name[l])
    BY <1>3 DEF CopiesAgree, Found
  <2>1. name[l] \in Names
    BY FieldsAre DEF LoggerInv, LoggerTypes
  <2>2. /\ loggers'[l][f] = IF IsAbove(n, name[l]) /\ f \in DOMAIN new THEN new[f] ELSE loggers[l][f]
        /\ search_tables(tables'[f], name[l]) =
             IF IsAbove(n, name[l]) /\ f \in DOMAIN new THEN new[f] ELSE search_tables(tables[f], name[l])
    BY <1>1, <1>2, <2>1
  <2>3. CASE IsAbove(n, name[l]) /\ f \in DOMAIN new
    BY <2>2, <2>3
  <2>4. CASE ~(IsAbove(n, name[l]) /\ f \in DOMAIN new)
    <3>1. <<l, f>> \in overtaken \/ loggers[l][f] = search_tables(tables[f], name[l])
      BY DEF LoggerInv, CopiesAgree, Found
    <3>2. <<l, f>>[1] = l /\ <<l, f>>[2] = f
      OBVIOUS
    <3>3. <<l, f>> \in overtaken => <<l, f>> \in overtaken'
      BY <2>4, <3>2, OvertakenSet
    <3> QED
      BY <2>2, <2>4, <3>1, <3>3
  <2> QED
    BY <2>3, <2>4
<1>7. ASSUME NEW u \in Threads, Constructing(u)' PROVE ReadBy(u)'
  <2>1. Constructing(u) /\ \A v \in Threads : Constructing(v)' <=> Constructing(v)
    BY <1>2, <1>7 DEF Constructing
  <2>2. ReadBy(u)
    BY <2>1 DEF LoggerInv, ReadSoFar
  <2>3. <<local[u].logger, "out">> \in overtaken'
             \/ local[u].out = search_tables(tables'["out"], name[local[u].logger])
    BY <2>1, <2>2, SetReads DEF ReadBy
  <2>4. pc[u] = "register" =>
             <<local[u].logger, "level">> \in overtaken'
             \/ local[u].level = search_tables(tables'["level"], name[local[u].logger])
    <3>1. pc[u] = "register" => "level" \in DOMAIN local[u]
      BY <2>2 DEF ReadBy
    <3> QED
      BY <2>1, <2>2, <3>1, SetReads DEF ReadBy
  <2>5. /\ local'[u].logger \in Loggers \ DOMAIN loggers'
        /\ \A v \in Threads : Constructing(v)' /\ local'[v].logger = local'[u].logger => v = u
        /\ DOMAIN local'[u] = IF pc'[u] = "level" THEN {"logger", "out"} ELSE {"logger", "out", "level"}
    BY <1>2, <1>3, <2>1, <2>2 DEF ReadBy
  <2> QED
    BY <1>2, <2>3, <2>4, <2>5 DEF ReadBy, Found
<1> QED
  BY <1>4, <1>5, <1>6, <1>7 DEF LoggerInv, ReadSoFar

\* The setters.
LEMMA SettersLoggerInv ==
  ASSUME LeastNumbers, LoggerAssumption, LoggerInv, NEW t \in Threads,
         set_level(t) \/ set_output_stream(t) \/ set_output_hook(t) \/ set_other(t)
  PROVE  LoggerInv'
<1>1. Places \subseteq Names
  <2>1. <<>> \in Names
    BY SMT DEF Names
  <2> QED
    BY <2>1, FieldsAre DEF Places, LoggerInv, LoggerTypes
<1>2. CASE set_level(t)
  <2>1. PICK n \in Places, v \in {0, 1} : set(t, n, [f \in {"level"} |-> v])
    BY <1>2 DEF set_level
  <2> DEFINE new == [f \in {"level"} |-> v]
  <2>2. DOMAIN new \subseteq Fields /\ "hook" \notin DOMAIN new /\ "out" \notin DOMAIN new
    BY FieldsAre
  <2>3. n \in Names /\ set(t, n, new)
    BY <1>1, <2>1
  <2> HIDE DEF new
  <2> QED
    BY <2>2, <2>3, SetLoggerInv
<1>3. CASE set_output_stream(t)
  <2>1. PICK n \in Places, s \in Streams : set(t, n, [f \in {"out", "hook"} |-> IF f = "out" THEN s ELSE 0])
    BY <1>3 DEF set_output_stream
  <2> DEFINE new == [f \in {"out", "hook"} |-> IF f = "out" THEN s ELSE 0]
  <2>2. DOMAIN new \subseteq Fields /\ "hook" \in DOMAIN new /\ "out" \in DOMAIN new
    BY FieldsAre
  <2>3. new["hook"] = 0 /\ new["out"] # "hookbuf"
    BY DEF LoggerAssumption
  <2>4. n \in Names /\ set(t, n, new)
    BY <1>1, <2>1
  <2> HIDE DEF new
  <2> QED
    BY <2>2, <2>3, <2>4, SetLoggerInv
<1>4. CASE set_output_hook(t)
  <2>1. PICK n \in Places : set(t, n, [f \in {"out", "hook"} |-> IF f = "out" THEN "hookbuf" ELSE 1])
    BY <1>4 DEF set_output_hook
  <2> DEFINE new == [f \in {"out", "hook"} |-> IF f = "out" THEN "hookbuf" ELSE 1]
  <2>2. DOMAIN new \subseteq Fields /\ "hook" \in DOMAIN new /\ "out" \in DOMAIN new
    BY FieldsAre
  <2>3. new["hook"] # 0 /\ new["out"] = "hookbuf"
    BY SMT
  <2>4. n \in Names /\ set(t, n, new)
    BY <1>1, <2>1
  <2> HIDE DEF new
  <2> QED
    BY <2>2, <2>3, <2>4, SetLoggerInv
<1>5. CASE set_other(t)
  <2>1. PICK n \in Places \ {<<>>}, f \in Settings, v \in {0, 1} : set(t, n, [g \in {f} |-> v])
    BY <1>5 DEF set_other
  <2> DEFINE new == [g \in {f} |-> v]
  <2>2. DOMAIN new \subseteq Fields /\ "hook" \notin DOMAIN new /\ "out" \notin DOMAIN new
    BY FieldsAre
  <2>3. n \in Names /\ set(t, n, new)
    BY <1>1, <2>1
  <2> HIDE DEF new
  <2> QED
    BY <2>2, <2>3, SetLoggerInv
<1> QED
  BY <1>2, <1>3, <1>4, <1>5

\* The constructor's three steps.
LEMMA ConstructorLoggerInv ==
  ASSUME LoggerAssumption, LoggerInv, NEW t \in Threads,
         (\E l \in Loggers : logger(t, l)) \/ init_level(t)
  PROVE  LoggerInv'
<1>1. /\ UNCHANGED <<tables, loggers, overtaken>>
      /\ pc' = [pc EXCEPT ![t] = pc'[t]] /\ local' = [local EXCEPT ![t] = local'[t]]
      /\ DOMAIN pc = Threads /\ DOMAIN local = Threads
  BY DEF LoggerInv, LoggerTypes, logger, init_level
<1>2. LoggerTypes' /\ CopiesAgree' /\ HooksAreBuffered'
  <2>1. DOMAIN pc' = Threads /\ DOMAIN local' = Threads
    BY <1>1
  <2> QED
    BY <1>1, <2>1 DEF LoggerInv, LoggerTypes, CopiesAgree, HooksAreBuffered, Found
<1>3. \A u \in Threads : u # t => pc'[u] = pc[u] /\ local'[u] = local[u]
  BY <1>1
<1>4. \A u \in Threads : u # t => (Constructing(u)' <=> Constructing(u))
  BY <1>3 DEF Constructing
<1>5. /\ local'[t].logger \in Loggers \ DOMAIN loggers
      /\ \A v \in Threads : v # t /\ Constructing(v) => local[v].logger # local'[t].logger
      /\ DOMAIN local'[t] = IF pc'[t] = "level" THEN {"logger", "out"} ELSE {"logger", "out", "level"}
      /\ <<local'[t].logger, "out">> \in overtaken
           \/ local'[t].out = search_tables(tables["out"], name[local'[t].logger])
      /\ pc'[t] = "register" => local'[t].level = search_tables(tables["level"], name[local'[t].logger])
  <2>1. ASSUME NEW l \in Loggers, logger(t, l) PROVE <1>5!:
    <3>1. /\ l \notin DOMAIN loggers \cup Used
          /\ pc'[t] = "level"
          /\ local'[t] = [logger |-> l, out |-> search_tables(tables["out"], name[l])]
      BY <1>1, <2>1 DEF logger
    <3>2. \A v \in Threads : local[v].logger # l
      BY <3>1 DEF Used
    <3> QED
      BY <3>1, <3>2, SMT
  <2>2. CASE init_level(t)
    <3>1. /\ pc[t] = "level" /\ pc'[t] = "register"
          /\ local'[t] = [logger |-> local[t].logger, out |-> local[t].out,
                          level |-> search_tables(tables["level"], name[local[t].logger])]
      BY <1>1, <2>2 DEF init_level
    <3>2. Constructing(t) /\ ReadBy(t)
      BY <3>1 DEF LoggerInv, ReadSoFar, Constructing
    <3> QED
      BY <3>1, <3>2, SMT DEF ReadBy, Found
  <2> QED
    BY <2>1, <2>2
<1>6. ReadBy(t)'
  <2>1. \A v \in Threads : Constructing(v)' /\ local'[v].logger = local'[t].logger => v = t
    BY <1>3, <1>4, <1>5
  <2> QED
    BY <1>1, <1>5, <2>1 DEF ReadBy, Found
<1>7. ASSUME NEW u \in Threads, u # t, Constructing(u)' PROVE ReadBy(u)'
  <2>1. Constructing(u) /\ ReadBy(u) /\ pc'[u] = pc[u] /\ local'[u] = local[u]
    BY <1>3, <1>4, <1>7 DEF LoggerInv, ReadSoFar
  <2>2. \A v \in Threads : Constructing(v)' /\ local'[v].logger = local'[u].logger => v = u
    BY <1>3, <1>4, <1>5, <2>1 DEF ReadBy
  <2>3. /\ local'[u].logger \in Loggers \ DOMAIN loggers'
        /\ DOMAIN local'[u] = IF pc'[u] = "level" THEN {"logger", "out"} ELSE {"logger", "out", "level"}
    BY <1>1, <2>1 DEF ReadBy
  <2>4. /\ <<local'[u].logger, "out">> \in overtaken'
             \/ local'[u].out = search_tables(tables'["out"], name[local'[u].logger])
        /\ pc'[u] = "register" =>
             <<local'[u].logger, "level">> \in overtaken'
             \/ local'[u].level = search_tables(tables'["level"], name[local'[u].logger])
    BY <1>1, <2>1 DEF ReadBy, Found
  <2> QED
    BY <2>2, <2>3, <2>4 DEF ReadBy, Found
<1> QED
  BY <1>2, <1>6, <1>7 DEF LoggerInv, ReadSoFar

\* A step that ends at most the constructor of t, and leaves the tables alone:
\* what the other constructors have read stays good.
LEMMA OthersRead ==
  ASSUME LoggerInv, NEW t \in Threads, UNCHANGED tables, ~Constructing(t)',
         \A u \in Threads : u # t => pc'[u] = pc[u] /\ local'[u] = local[u],
         \A u \in Threads : u # t /\ Constructing(u) =>
            /\ local[u].logger \notin DOMAIN loggers'
            /\ \A f : <<local[u].logger, f>> \in overtaken => <<local[u].logger, f>> \in overtaken'
  PROVE  ReadSoFar'
<1> SUFFICES ASSUME NEW u \in Threads, Constructing(u)' PROVE ReadBy(u)'
  BY DEF ReadSoFar
<1>1. u # t /\ \A v \in Threads : Constructing(v)' => v # t /\ Constructing(v)
  BY DEF Constructing
<1>2. Constructing(u) /\ ReadBy(u) /\ pc'[u] = pc[u] /\ local'[u] = local[u]
  BY <1>1 DEF LoggerInv, ReadSoFar
<1>3. \A v \in Threads : Constructing(v)' /\ local'[v].logger = local'[u].logger => v = u
  BY <1>1, <1>2 DEF ReadBy
<1>4. /\ local'[u].logger \in Loggers \ DOMAIN loggers'
      /\ DOMAIN local'[u] = IF pc'[u] = "level" THEN {"logger", "out"} ELSE {"logger", "out", "level"}
  BY <1>1, <1>2 DEF ReadBy
<1>5. /\ <<local'[u].logger, "out">> \in overtaken'
           \/ local'[u].out = search_tables(tables'["out"], name[local'[u].logger])
      /\ pc'[u] = "register" =>
           <<local'[u].logger, "level">> \in overtaken'
           \/ local'[u].level = search_tables(tables'["level"], name[local'[u].logger])
  BY <1>1, <1>2 DEF ReadBy, Found
<1> QED
  BY <1>3, <1>4, <1>5 DEF ReadBy, Found

\* A logger is added with what the tables say, but for what was overtaken.
LEMMA RegisterLoggerInv ==
  ASSUME LoggerAssumption, LoggerInv, NEW t \in Threads, register(t)
  PROVE  LoggerInv'
<1> DEFINE l == local[t].logger
           new == [f \in Fields |-> IF f \in {"out", "level"} THEN local[t][f]
                                    ELSE search_tables(tables[f], name[l])]
<1>1. /\ UNCHANGED <<tables, overtaken>> /\ pc[t] = "register"
      /\ loggers' = [k \in DOMAIN loggers \cup {l} |-> IF k = l THEN new ELSE loggers[k]]
      /\ pc' = [pc EXCEPT ![t] = "idle"] /\ local' = [local EXCEPT ![t] = Idle]
      /\ DOMAIN pc = Threads /\ DOMAIN local = Threads
  BY DEF LoggerInv, LoggerTypes, register
<1>2. Constructing(t) /\ ReadBy(t)
  BY <1>1 DEF LoggerInv, ReadSoFar, Constructing
<1>3. l \in Loggers \ DOMAIN loggers /\ \A u \in Threads : Constructing(u) /\ local[u].logger = l => u = t
  BY <1>2 DEF ReadBy
<1>4. \A f \in Fields : <<l, f>> \in overtaken \/ new[f] = Found(f, l)
  BY <1>1, <1>2 DEF ReadBy, Found
<1>5. DOMAIN new = Fields
  OBVIOUS
<1> HIDE DEF new
<1>6. /\ DOMAIN loggers' = DOMAIN loggers \cup {l} /\ loggers'[l] = new
      /\ \A k \in DOMAIN loggers : loggers'[k] = loggers[k]
  BY <1>1, <1>3
<1>7. DOMAIN pc' = Threads /\ DOMAIN local' = Threads /\ ~Constructing(t)'
      /\ \A u \in Threads : u # t => pc'[u] = pc[u] /\ local'[u] = local[u]
  BY <1>1 DEF Constructing
<1>8. \A k \in DOMAIN loggers' : DOMAIN loggers'[k] = Fields
  BY <1>5, <1>6 DEF LoggerInv, LoggerTypes
<1>9. LoggerTypes'
  BY <1>1, <1>3, <1>6, <1>7, <1>8 DEF LoggerInv, LoggerTypes
<1>10. ReadSoFar'
  <2>1. \A u \in Threads : u # t /\ Constructing(u) => local[u].logger \notin DOMAIN loggers \cup {l}
    BY <1>3 DEF LoggerInv, ReadSoFar, ReadBy
  <2> HIDE DEF l
  <2> QED
    BY <1>1, <1>6, <1>7, <2>1, OthersRead
<1>11. CopiesAgree'
  <2> SUFFICES ASSUME NEW k \in DOMAIN loggers', NEW f \in Fields
               PROVE  <<k, f>> \in overtaken' \/ loggers'[k][f] = search_tables(tables'[f], name[k])
    BY DEF CopiesAgree, Found
  <2>1. CASE k = l
    BY <1>1, <1>4, <1>6, <2>1 DEF Found
  <2>2. CASE k \in DOMAIN loggers
    BY <1>1, <1>6, <2>2 DEF LoggerInv, CopiesAgree, Found
  <2> QED
    BY <1>6, <2>1, <2>2
<1>12. HooksAreBuffered'
  BY <1>1 DEF LoggerInv, HooksAreBuffered
<1> QED
  BY <1>9, <1>10, <1>11, <1>12 DEF LoggerInv

\* A logger is destroyed, and what it was overtaken by forgotten.
LEMMA DestroyLoggerInv ==
  ASSUME LoggerInv, NEW t \in Threads, NEW l \in Loggers, destroy(t, l)
  PROVE  LoggerInv'
<1>1. /\ UNCHANGED <<tables, pc, local>> /\ pc[t] = "idle" /\ l \in DOMAIN loggers
      /\ loggers' = [k \in DOMAIN loggers \ {l} |-> loggers[k]]
      /\ overtaken' = {o \in overtaken : o[1] # l}
  BY DEF destroy
<1>2. /\ DOMAIN loggers' = DOMAIN loggers \ {l} /\ \A k \in DOMAIN loggers' : loggers'[k] = loggers[k]
      /\ \A k, f : k # l /\ <<k, f>> \in overtaken => <<k, f>> \in overtaken'
  BY <1>1
<1>3. LoggerTypes'
  BY <1>1, <1>2 DEF LoggerInv, LoggerTypes
<1>4. ReadSoFar'
  <2>1. \A u \in Threads : Constructing(u) => local[u].logger \notin DOMAIN loggers
    BY DEF LoggerInv, ReadSoFar, ReadBy
  <2>2. \A u \in Threads : Constructing(u) => local[u].logger # l
    BY <1>1, <2>1
  <2>3. ~Constructing(t)'
    BY <1>1 DEF Constructing
  <2> QED
    BY <1>1, <1>2, <2>1, <2>2, <2>3, OthersRead
<1>5. CopiesAgree'
  <2> SUFFICES ASSUME NEW k \in DOMAIN loggers', NEW f \in Fields
               PROVE  <<k, f>> \in overtaken' \/ loggers'[k][f] = search_tables(tables'[f], name[k])
    BY DEF CopiesAgree, Found
  <2>1. k \in DOMAIN loggers /\ k # l
    BY <1>2
  <2> QED
    BY <1>1, <1>2, <2>1 DEF LoggerInv, CopiesAgree, Found
<1>6. HooksAreBuffered'
  BY <1>1 DEF LoggerInv, HooksAreBuffered
<1> QED
  BY <1>3, <1>4, <1>5, <1>6 DEF LoggerInv

\* The inductive invariant says what LoggersAgree says.
LEMMA LoggerInvIsEnough == LoggerAssumption /\ LoggerInv => LoggersAgree
<1> SUFFICES ASSUME LoggerAssumption, LoggerInv PROVE LoggersAgree
  OBVIOUS
<1>1. \A l \in DOMAIN loggers, f \in Fields :
        <<l, f>> \notin overtaken => loggers[l][f] = search_tables(tables[f], name[l])
  BY DEF LoggerInv, CopiesAgree, Found
<1>2. \A l \in Loggers :
        search_tables(tables.hook, name[l]) # 0 <=> search_tables(tables.out, name[l]) = "hookbuf"
  BY FieldsAre DEF LoggerInv, HooksAreBuffered
<1>3. ASSUME NEW l \in DOMAIN loggers, <<l, "out">> \notin overtaken
      PROVE  loggers[l].hook # 0 <=> loggers[l].out = "hookbuf"
  <2>1. <<l, "hook">> \notin overtaken
    BY DEF LoggerInv, LoggerTypes
  <2>2. /\ loggers[l].hook = search_tables(tables.hook, name[l])
        /\ loggers[l].out = search_tables(tables.out, name[l])
    BY <1>1, <1>3, <2>1, FieldsAre
  <2>3. l \in Loggers
    BY DEF LoggerInv, LoggerTypes
  <2> QED
    BY <1>2, <2>2, <2>3
<1> QED
  BY <1>1, <1>2, <1>3 DEF LoggersAgree

\* Every step keeps the invariant.
LEMMA LoggerStep ==
  ASSUME LeastNumbers, LoggerAssumption, LoggerInv, [Next]_vars
  PROVE  LoggerInv'
<1>1. ASSUME NEW t \in Threads, NEW l \in Loggers, logger(t, l) PROVE LoggerInv'
  BY <1>1, ConstructorLoggerInv
<1>2. ASSUME NEW t \in Threads, init_level(t) PROVE LoggerInv'
  BY <1>2, ConstructorLoggerInv
<1>3. ASSUME NEW t \in Threads, register(t) PROVE LoggerInv'
  BY <1>3, RegisterLoggerInv
<1>4. ASSUME NEW t \in Threads, NEW l \in Loggers, destroy(t, l) PROVE LoggerInv'
  BY <1>4, DestroyLoggerInv
<1>5. ASSUME NEW t \in Threads,
             set_level(t) \/ set_output_stream(t) \/ set_output_hook(t) \/ set_other(t)
      PROVE  LoggerInv'
  BY <1>5, SettersLoggerInv
<1>6. ASSUME NEW t \in Threads,
             \/ thread_end(t) \/ put(t) \/ end_statement(t)
             \/ \E l \in Loggers, level \in {0, 1} : logger_stream(t, l, level)
      PROVE  LoggerInv'
  BY <1>6, StatementLoggerInv
<1>7. CASE UNCHANGED vars
  BY <1>7 DEF vars, LoggerInv, LoggerTypes, ReadSoFar, ReadBy, CopiesAgree, HooksAreBuffered,
                     Constructing, Found
<1> QED
  BY <1>1, <1>2, <1>3, <1>4, <1>5, <1>6, <1>7 DEF Next

-----------------------------------------------------------------------------
(* The messages *)

Pieces == [statement : Nat, what : {"header", "item", "end", "hook"}, thread : Threads \X Nat,
           name : Nat, odd : BOOLEAN]
Statements == [logger : Loggers, enabled : BOOLEAN, been_used : BOOLEAN, number : Nat, items : Nat]

WrittenTypes ==
  /\ statements \in Nat /\ life \in [Threads -> Nat] /\ next_thread_name \in Nat
  /\ DOMAIN thread_names \subseteq Threads /\ \A t \in DOMAIN thread_names : thread_names[t] \in Nat
  /\ hookbuf \in Seq(Pieces) /\ written \in [Streams -> Seq(Pieces)]
  /\ hooked \in Seq([call : Pieces, message : Seq(Pieces)])

\* t is in a statement that has written something, to a stream or to hookbuf,
\* and was not overtaken.
Writing(t) == pc[t] = "stream" /\ local[t].been_used
Log(t) == loggers[local[t].logger]
Odd(t) == <<local[t].logger, "out">> \in overtaken
WritesTo(t, s) == Writing(t) /\ ~Odd(t) /\ Log(t).hook = 0 /\ Log(t).out = s
WritesToHook(t) == Writing(t) /\ ~Odd(t) /\ Log(t).hook # 0

\* Whoever writes has gd.m, and has it until the end of the statement.
WritersLock ==
  /\ \A t \in Threads : m = t <=> Writing(t)
  /\ m = NoThread \/ m \in Threads
  /\ \A t \in Threads : pc[t] = "stream" =>
       /\ local[t] \in Statements /\ local[t].logger \in DOMAIN loggers
       /\ local[t].been_used => local[t].enabled
       /\ ~local[t].been_used => local[t].items = 0

\* The k-th piece of w follows the one before it.
Follows(w, k) ==
  LET p == w[k]
      q == w[k - 1]
  IN IF p.odd \/ (k > 1 /\ w[k - 1].odd) THEN TRUE
     ELSE IF p.what = "header" THEN k = 1 \/ q.what = "end"
     ELSE k > 1 /\ q.statement = p.statement /\ q.what # "end"

\* A line that has not ended is the line of who writes.
Lines(w, s) ==
  /\ \A k \in 1 .. Len(w) : Follows(w, k)
  /\ Len(w) = 0 \/ w[Len(w)].odd \/ w[Len(w)].what = "end" \/ \E t \in Threads : WritesTo(t, s)
  /\ \A t \in Threads : WritesTo(t, s) =>
       Len(w) > 0 /\ w[Len(w)].statement = local[t].number /\ w[Len(w)].what # "end"

LinesWhole == \A s \in Streams : Lines(written[s], s)

OfStatement(w, n) == \A i \in 1 .. Len(w) : w[i].statement = n

HooksWhole ==
  /\ \A t \in Threads : WritesToHook(t) =>
       Len(hookbuf) = local[t].items /\ OfStatement(hookbuf, local[t].number)
  /\ \A k \in 1 .. Len(hooked) : ~hooked[k].call.odd =>
       Len(hooked[k].message) = 2 /\ OfStatement(hooked[k].message, hooked[k].call.statement)

Named == {hooked[k].call : k \in 1 .. Len(hooked)} \cup
         {p \in UNION {Range(written[s]) : s \in Streams} : p.what = "header"}

Same(p, q) == p.thread = q.thread \/ (p.thread[1] = q.thread[1] /\ p.thread[1] \in Plain)

\* A name that a thread has is in use for this thread alone.
NamesApart ==
  /\ \A t \in DOMAIN thread_names :
       /\ thread_names[t] < next_thread_name
       /\ \A u \in DOMAIN thread_names : thread_names[u] = thread_names[t] => u = t
  /\ \A p \in Named :
       /\ p.name < next_thread_name
       /\ \A t \in DOMAIN thread_names : thread_names[t] = p.name =>
            p.thread[1] = t /\ (p.thread[2] = life[t] \/ t \in Plain)
  /\ \A p, q \in Named : p.name = q.name => Same(p, q)

WrittenInv == WrittenTypes /\ WritersLock /\ LinesWhole /\ HooksWhole /\ NamesApart

\* One more piece.
LEMMA LineGrows ==
  ASSUME NEW w \in Seq(Pieces), NEW p \in Pieces, \A k \in 1 .. Len(w) : Follows(w, k),
         \/ p.odd \/ (Len(w) > 0 /\ w[Len(w)].odd)
         \/ p.what = "header" /\ (Len(w) = 0 \/ w[Len(w)].what = "end")
         \/ p.what # "header" /\ Len(w) > 0 /\ w[Len(w)].statement = p.statement /\ w[Len(w)].what # "end"
  PROVE  /\ w \o <<p>> \in Seq(Pieces) /\ Len(w \o <<p>>) = Len(w) + 1
         /\ (w \o <<p>>)[Len(w) + 1] = p
         /\ \A k \in 1 .. Len(w \o <<p>>) : Follows(w \o <<p>>, k)
<1> DEFINE v == w \o <<p>>
<1>1. v \in Seq(Pieces) /\ Len(v) = Len(w) + 1 /\ v[Len(w) + 1] = p /\ Len(w) \in Nat
      /\ \A k \in 1 .. Len(w) : v[k] = w[k]
  BY SMT
<1> HIDE DEF v
<1>2. ASSUME NEW k \in 1 .. Len(w) PROVE Follows(v, k)
  <2>1. v[k] = w[k] /\ Follows(w, k) /\ (k > 1 => v[k - 1] = w[k - 1])
    BY <1>1, SMT
  <2>2. k = 1 \/ k > 1
    BY <1>1, SMT
  <2>3. CASE k = 1
    <3>1. ~(k > 1)
      BY <2>3, SMT
    <3> QED
      BY <2>1, <2>3, <3>1 DEF Follows
  <2>4. CASE k > 1
    BY <2>1, <2>4 DEF Follows
  <2> QED
    BY <2>2, <2>3, <2>4
<1>3. Follows(v, Len(w) + 1)
  <2>1. v[Len(w) + 1] = p /\ (Len(w) > 0 => v[Len(w)] = w[Len(w)])
    BY <1>1, SMT
  <2>2. (Len(w) + 1) - 1 = Len(w) /\ (Len(w) + 1 > 1 <=> Len(w) > 0) /\ (Len(w) + 1 = 1 <=> Len(w) = 0)
        /\ (Len(w) = 0 \/ Len(w) > 0)
    BY <1>1, SMT
  <2> DEFINE last == Len(w)
             n == Len(w) + 1
  <2>3. /\ v[n] = p /\ (last > 0 => v[last] = w[last])
        /\ n - 1 = last /\ (n > 1 <=> last > 0) /\ (n = 1 <=> last = 0) /\ (last = 0 \/ last > 0)
    BY <2>1, <2>2
  <2>4. \/ p.odd \/ (last > 0 /\ w[last].odd)
        \/ p.what = "header" /\ (last = 0 \/ w[last].what = "end")
        \/ p.what # "header" /\ last > 0 /\ w[last].statement = p.statement /\ w[last].what # "end"
    OBVIOUS
  <2> HIDE DEF n, last
  <2> DEFINE q == v[last]
  <2>5. last > 0 => q = w[last]
    BY <2>3
  <2>6. IF p.odd \/ (n > 1 /\ q.odd) THEN TRUE
        ELSE IF p.what = "header" THEN n = 1 \/ q.what = "end"
        ELSE n > 1 /\ q.statement = p.statement /\ q.what # "end"
    <3> HIDE DEF q
    <3>1. CASE last > 0
      <4>1. n > 1 /\ q = w[last]
        BY <2>3, <2>5, <3>1
      <4>2. CASE last = 0
        BY <3>1, <4>2, SMT
      <4> QED
        BY <2>3, <2>4, <4>1, <4>2
    <3>2. CASE ~(last > 0)
      BY <2>3, <2>4, <3>2
    <3> QED
      BY <3>1, <3>2
  <2>7. Follows(v, n)
    BY <2>3, <2>6 DEF Follows
  <2> QED
    BY <2>7 DEF n
<1>4. \A k \in 1 .. Len(v) : k \in 1 .. Len(w) \/ k = Len(w) + 1
  BY <1>1, SMT
<1>5. \A k \in 1 .. Len(v) : Follows(v, k)
  BY <1>2, <1>3, <1>4
<1> QED
  BY <1>1, <1>5 DEF v

\* Nothing is written, and who writes goes on writing as before.
LEMMA Undisturbed ==
  ASSUME WrittenInv, UNCHANGED output,
         \A u \in Threads : Writing(u)' <=> Writing(u),
         \A u \in Threads : Writing(u) => local'[u] = local[u] /\ Log(u)' = Log(u) /\ (Odd(u)' <=> Odd(u))
  PROVE  LinesWhole' /\ HooksWhole'
<1>1. UNCHANGED <<hookbuf, written, hooked>>
  BY DEF output
<1>2. ASSUME NEW u \in Threads
      PROVE  /\ \A s : WritesTo(u, s)' <=> WritesTo(u, s)
             /\ WritesToHook(u)' <=> WritesToHook(u)
             /\ Writing(u)' => local'[u] = local[u]
  BY DEF WritesTo, WritesToHook
<1>3. ASSUME NEW s \in Streams PROVE Lines(written[s], s)'
  <2>1. Lines(written[s], s)
    BY DEF WrittenInv, LinesWhole
  <2>2. \A u \in Threads : WritesTo(u, s)' => WritesTo(u, s) /\ local'[u] = local[u]
    BY <1>2 DEF WritesTo
  <2>3. (\E u \in Threads : WritesTo(u, s)) => \E u \in Threads : WritesTo(u, s)'
    BY <1>2
  <2> QED
    BY <1>1, <2>1, <2>2, <2>3 DEF Lines, Follows
<1>4. HooksWhole'
  <2>1. \A u \in Threads : WritesToHook(u)' => WritesToHook(u) /\ local'[u] = local[u]
    BY <1>2 DEF WritesToHook
  <2>2. \A u \in Threads : WritesToHook(u)' =>
          Len(hookbuf') = local'[u].items /\ OfStatement(hookbuf', local'[u].number)
    BY <1>1, <2>1 DEF WrittenInv, HooksWhole
  <2>3. \A k \in 1 .. Len(hooked') : ~hooked'[k].call.odd =>
          Len(hooked'[k].message) = 2 /\ OfStatement(hooked'[k].message, hooked'[k].call.statement)
    BY <1>1 DEF WrittenInv, HooksWhole
  <2> QED
    BY <2>2, <2>3 DEF HooksWhole, OfStatement
<1> QED
  BY <1>1, <1>3, <1>4 DEF LinesWhole

\* The names stay.
LEMMA NamesStay ==
  ASSUME NamesApart, UNCHANGED <<names, life>>, Named' \subseteq Named
  PROVE  NamesApart'
BY ZenonT(30) DEF NamesApart, names, Same

\* Who was named is a thread.
LEMMA NamedTypes ==
  ASSUME WrittenTypes
  PROVE  Named \subseteq Pieces
<1>1. ASSUME NEW k \in 1 .. Len(hooked) PROVE hooked[k].call \in Pieces
  <2> DEFINE Hooked == [call : Pieces, message : Seq(Pieces)]
  <2>1. hooked \in Seq(Hooked)
    BY DEF WrittenTypes
  <2>2. hooked[k] \in Hooked
    <3> HIDE DEF Hooked
    <3> QED
      BY <2>1, SMT
  <2> QED
    BY <2>2
<1>2. ASSUME NEW s \in Streams PROVE Range(written[s]) \subseteq Pieces
  <2>1. written[s] \in Seq(Pieces)
    BY DEF WrittenTypes
  <2>2. \A x \in DOMAIN written[s] : written[s][x] \in Pieces
    BY <2>1, SMT
  <2> QED
    BY <2>2 DEF Range
<1> QED
  BY <1>1, <1>2 DEF Named

\* A thread that has no name is given the next one, and what is written by this
\* thread has its name.
LEMMA NamesGiven ==
  ASSUME WrittenTypes, NamesApart, NEW t \in Threads, name_thread(t), UNCHANGED life,
         NEW r, r.name = get_thread_name(t), r.thread = <<t, life[t]>>, Named' \subseteq Named \cup {r}
  PROVE  /\ NamesApart' /\ next_thread_name' \in Nat /\ DOMAIN thread_names' \subseteq Threads
         /\ \A u \in DOMAIN thread_names' : thread_names'[u] \in Nat
<1>1. /\ next_thread_name \in Nat /\ life[t] \in Nat /\ DOMAIN thread_names \subseteq Threads
      /\ \A u \in DOMAIN thread_names : thread_names[u] \in Nat /\ thread_names[u] < next_thread_name
      /\ \A u, v \in DOMAIN thread_names : thread_names[u] = thread_names[v] => u = v
  BY DEF WrittenTypes, NamesApart
<1>2. ASSUME NEW p \in Named
      PROVE  /\ p.name \in Nat /\ p.name < next_thread_name /\ p.thread = <<p.thread[1], p.thread[2]>>
             /\ \A u \in DOMAIN thread_names : thread_names[u] = p.name =>
                  p.thread[1] = u /\ (p.thread[2] = life[u] \/ u \in Plain)
  <2>1. p \in Pieces
    BY NamedTypes
  <2>2. p.name \in Nat /\ p.thread = <<p.thread[1], p.thread[2]>>
    BY <2>1, SMT DEF Pieces
  <2> QED
    BY <2>2 DEF NamesApart
<1>3. \A p, q \in Named : p.name = q.name => Same(p, q)
  BY DEF NamesApart
<1>4. r.thread[1] = t /\ r.thread[2] = life[t]
  BY SMT
<1>5. CASE t \in DOMAIN thread_names
  <2>1. UNCHANGED <<thread_names, next_thread_name>> /\ r.name = thread_names[t]
    BY <1>5 DEF name_thread, get_thread_name, names
  <2>2. \A p \in Named : p.name = r.name => Same(p, r) /\ Same(r, p)
    <3> SUFFICES ASSUME NEW p \in Named, p.name = r.name PROVE Same(p, r) /\ Same(r, p)
      OBVIOUS
    <3>1. p.thread[1] = t /\ (p.thread[2] = life[t] \/ t \in Plain) /\ p.thread = <<p.thread[1], p.thread[2]>>
      BY <1>2, <1>5, <2>1
    <3> QED
      BY <1>4, <3>1 DEF Same
  <2>3. \A p, q \in Named' : p.name = q.name => Same(p, q)
    BY <1>3, <2>2 DEF Same
  <2>4. \A p \in Named' :
          /\ p.name < next_thread_name
          /\ \A u \in DOMAIN thread_names : thread_names[u] = p.name =>
                  p.thread[1] = u /\ (p.thread[2] = life[u] \/ u \in Plain)
    <3> SUFFICES ASSUME NEW p \in Named \cup {r}
                 PROVE  /\ p.name < next_thread_name
                        /\ \A u \in DOMAIN thread_names : thread_names[u] = p.name =>
                             p.thread[1] = u /\ (p.thread[2] = life[u] \/ u \in Plain)
      OBVIOUS
    <3>1. CASE p \in Named
      BY <1>2, <3>1
    <3>2. CASE p = r
      <4>1. \A u \in DOMAIN thread_names : thread_names[u] = thread_names[t] => u = t
        BY <1>1, <1>5
      <4> QED
        BY <1>1, <1>4, <1>5, <2>1, <3>2, <4>1
    <3> QED
      BY <3>1, <3>2
  <2>5. NamesApart'
    <3>1. \A u \in DOMAIN thread_names' :
            /\ thread_names'[u] < next_thread_name'
            /\ \A v \in DOMAIN thread_names' : thread_names'[v] = thread_names'[u] => v = u
      BY <1>1, <2>1
    <3>2. \A p \in Named' :
            /\ p.name < next_thread_name'
            /\ \A u \in DOMAIN thread_names' : thread_names'[u] = p.name =>
                 p.thread[1] = u /\ (p.thread[2] = life'[u] \/ u \in Plain)
      BY <2>1, <2>4
    <3> QED
      BY <2>3, <3>1, <3>2 DEF NamesApart, Same
  <2> QED
    BY <1>1, <2>1, <2>5
<1>6. CASE t \notin DOMAIN thread_names
  <2>1. /\ thread_names' = [u \in DOMAIN thread_names \cup {t} |-> get_thread_name(u)]
        /\ next_thread_name' = next_thread_name + 1 /\ r.name = next_thread_name
    BY <1>6 DEF name_thread, get_thread_name
  <2>2. /\ DOMAIN thread_names' = DOMAIN thread_names \cup {t} /\ thread_names'[t] = next_thread_name
        /\ \A u \in DOMAIN thread_names : thread_names'[u] = thread_names[u]
    BY <1>6, <2>1 DEF get_thread_name
  <2>3. \A u \in DOMAIN thread_names' :
          /\ thread_names'[u] \in Nat /\ thread_names'[u] < next_thread_name'
          /\ \A v \in DOMAIN thread_names' : thread_names'[v] = thread_names'[u] => v = u
    <3>1. \A u \in DOMAIN thread_names : thread_names[u] # next_thread_name
      BY <1>1, SMT
    <3>2. \A u \in DOMAIN thread_names' : \A v \in DOMAIN thread_names' :
             thread_names'[v] = thread_names'[u] => v = u
      BY <1>1, <2>2, <3>1
    <3> QED
      BY <1>1, <2>1, <2>2, <3>2, SMT
  <2>4. \A p \in Named : p.name # next_thread_name
    BY <1>1, <1>2, SMT
  <2>5. \A p, q \in Named' : p.name = q.name => Same(p, q)
    BY <1>3, <2>1, <2>4 DEF Same
  <2>6. \A p \in Named' :
          /\ p.name < next_thread_name'
          /\ \A u \in DOMAIN thread_names' : thread_names'[u] = p.name =>
                  p.thread[1] = u /\ (p.thread[2] = life[u] \/ u \in Plain)
    <3> SUFFICES ASSUME NEW p \in Named \cup {r}
                 PROVE  /\ p.name < next_thread_name'
                        /\ \A u \in DOMAIN thread_names' : thread_names'[u] = p.name =>
                             p.thread[1] = u /\ (p.thread[2] = life[u] \/ u \in Plain)
      OBVIOUS
    <3>1. CASE p \in Named
      <4>1. p.name < next_thread_name'
        BY <1>1, <1>2, <2>1, <3>1, SMT
      <4> QED
        BY <1>2, <2>2, <2>4, <3>1, <4>1, ZenonT(30)
    <3>2. CASE p = r
      <4>1. p.name < next_thread_name'
        BY <1>1, <2>1, <3>2, SMT
      <4>2. \A u \in DOMAIN thread_names : thread_names[u] # next_thread_name
        BY <1>1, SMT
      <4> QED
        BY <1>4, <2>1, <2>2, <3>2, <4>1, <4>2
    <3> QED
      BY <3>1, <3>2
  <2>7. NamesApart'
    <3>1. \A u \in DOMAIN thread_names' :
            /\ thread_names'[u] < next_thread_name'
            /\ \A v \in DOMAIN thread_names' : thread_names'[v] = thread_names'[u] => v = u
      BY <2>3
    <3>2. \A p \in Named' :
            /\ p.name < next_thread_name'
            /\ \A u \in DOMAIN thread_names' : thread_names'[u] = p.name =>
                 p.thread[1] = u /\ (p.thread[2] = life'[u] \/ u \in Plain)
      BY <2>6
    <3> QED
      BY <2>5, <3>1, <3>2 DEF NamesApart, Same
  <2>8. next_thread_name' \in Nat /\ DOMAIN thread_names' \subseteq Threads
    BY <1>1, <2>1, <2>2, SMT
  <2> QED
    BY <2>3, <2>7, <2>8
<1> QED
  BY <1>5, <1>6

\* gd.m is only had by who writes: a step that locks it outside a statement is
\* taken while nobody writes.
LEMMA NobodyWrites ==
  ASSUME LoggerAssumption, WritersLock, NEW t \in Threads, pc[t] # "stream", lock(t)
  PROVE  m = NoThread /\ \A u \in Threads : ~Writing(u)
<1>1. ~Writing(t)
  BY DEF Writing
<1>2. m # t
  BY <1>1 DEF WritersLock
<1>3. m = NoThread
  BY <1>2 DEF lock
<1> QED
  BY <1>3 DEF WritersLock, LoggerAssumption

\* Such a step: what is written and whom it names stays, and so do the loggers
\* of statements.
LEMMA QuietWrittenInv ==
  ASSUME LoggerAssumption, WrittenInv, NEW t \in Threads, pc[t] # "stream", lock(t),
         UNCHANGED <<m, output, names, statements, life>>,
         \A u \in Threads : pc'[u] = "stream" => pc[u] = "stream" /\ local'[u] = local[u],
         \A u \in Threads : pc[u] = "stream" => local[u].logger \in DOMAIN loggers'
  PROVE  WrittenInv'
<1>1. m = NoThread /\ \A u \in Threads : ~Writing(u)
  BY NobodyWrites DEF WrittenInv
<1>2. \A u \in Threads : ~Writing(u)'
  BY <1>1 DEF Writing
<1>3. UNCHANGED <<m, hookbuf, written, hooked, thread_names, next_thread_name, statements, life>>
  BY DEF output, names
<1>4. LinesWhole' /\ HooksWhole'
  BY <1>1, <1>2, Undisturbed
<1>5. WrittenTypes'
  BY <1>3 DEF WrittenInv, WrittenTypes
<1>6. WritersLock'
  <2>1. \A u \in Threads : m' = u <=> Writing(u)'
    BY <1>1, <1>2, <1>3 DEF LoggerAssumption
  <2>2. ASSUME NEW u \in Threads, pc'[u] = "stream"
        PROVE  /\ local'[u] \in Statements /\ local'[u].logger \in DOMAIN loggers'
               /\ local'[u].been_used => local'[u].enabled
               /\ ~local'[u].been_used => local'[u].items = 0
    BY <2>2 DEF WrittenInv, WritersLock
  <2>3. m' = NoThread
    BY <1>1, <1>3
  <2> QED
    BY <2>1, <2>2, <2>3 DEF WritersLock
<1>7. Named' = Named
  BY <1>3 DEF Named
<1>8. NamesApart'
  BY <1>7, NamesStay DEF WrittenInv
<1> QED
  BY <1>4, <1>5, <1>6, <1>8 DEF WrittenInv

\* The steps of a constructor, ~logger, and the setters.
LEMMA LockedWrittenInv ==
  ASSUME LoggerAssumption, LoggerInv, WrittenInv, NEW t \in Threads,
         \/ \E l \in Loggers : logger(t, l) \/ destroy(t, l)
         \/ init_level(t) \/ register(t)
         \/ \E n, new : set(t, n, new)
  PROVE  WrittenInv'
<1>1. DOMAIN pc = Threads /\ DOMAIN local = Threads
  BY DEF LoggerInv, LoggerTypes
<1>2. \A u \in Threads : pc[u] = "stream" => local[u].logger \in DOMAIN loggers
  BY DEF WrittenInv, WritersLock
<1>3. ASSUME NEW l \in Loggers, logger(t, l) PROVE WrittenInv'
  <2>1. /\ pc[t] # "stream" /\ lock(t) /\ pc' = [pc EXCEPT ![t] = "level"]
        /\ local' = [local EXCEPT ![t] = local'[t]]
        /\ UNCHANGED <<m, loggers, output, names, statements, life>>
    BY <1>1, <1>3 DEF logger, bounds
  <2>2. \A u \in Threads : pc'[u] = "stream" => pc[u] = "stream" /\ local'[u] = local[u]
    BY <1>1, <2>1
  <2> QED
    BY <1>2, <2>1, <2>2, QuietWrittenInv
<1>4. CASE init_level(t)
  <2>1. /\ pc[t] # "stream" /\ lock(t) /\ pc' = [pc EXCEPT ![t] = "register"]
        /\ local' = [local EXCEPT ![t] = local'[t]]
        /\ UNCHANGED <<m, loggers, output, names, statements, life>>
    BY <1>1, <1>4 DEF init_level, bounds
  <2>2. \A u \in Threads : pc'[u] = "stream" => pc[u] = "stream" /\ local'[u] = local[u]
    BY <1>1, <2>1
  <2> QED
    BY <1>2, <2>1, <2>2, QuietWrittenInv
<1>5. CASE register(t)
  <2>1. /\ pc[t] # "stream" /\ lock(t) /\ pc' = [pc EXCEPT ![t] = "idle"]
        /\ local' = [local EXCEPT ![t] = Idle]
        /\ UNCHANGED <<m, output, names, statements, life>>
    BY <1>1, <1>5, ZenonT(30) DEF register, bounds
  <2>2. DOMAIN loggers' = DOMAIN loggers \cup {local[t].logger}
    BY <1>5 DEF register
  <2>3. \A u \in Threads : pc'[u] = "stream" => pc[u] = "stream" /\ local'[u] = local[u]
    BY <1>1, <2>1
  <2>4. \A u \in Threads : pc[u] = "stream" => local[u].logger \in DOMAIN loggers'
    BY <1>2, <2>2
  <2> QED
    BY <2>1, <2>3, <2>4, QuietWrittenInv, ZenonT(30)
<1>6. ASSUME NEW l \in Loggers, destroy(t, l) PROVE WrittenInv'
  <2>1. /\ pc[t] # "stream" /\ lock(t) /\ l \notin Used /\ DOMAIN loggers' = DOMAIN loggers \ {l}
        /\ UNCHANGED <<m, output, names, pc, local, statements, life>>
    BY <1>6, ZenonT(30) DEF destroy, bounds
  <2>2. \A u \in Threads : pc'[u] = "stream" => pc[u] = "stream" /\ local'[u] = local[u]
    BY <2>1, ZenonT(30)
  <2>3. \A u \in Threads : pc[u] = "stream" => local[u].logger \in DOMAIN loggers'
    BY <1>2, <2>1 DEF Used
  <2> QED
    BY <2>1, <2>2, <2>3, QuietWrittenInv, ZenonT(30)
<1>7. ASSUME NEW n, NEW new, set(t, n, new) PROVE WrittenInv'
  <2>1. /\ pc[t] # "stream" /\ lock(t) /\ DOMAIN loggers' = DOMAIN loggers
        /\ UNCHANGED <<m, output, names, pc, local, statements, life>>
    BY <1>7 DEF set
  <2>2. \A u \in Threads : pc'[u] = "stream" => pc[u] = "stream" /\ local'[u] = local[u]
    BY <2>1
  <2> QED
    BY <1>2, <2>1, <2>2, QuietWrittenInv, ZenonT(30)
<1> QED
  BY <1>3, <1>4, <1>5, <1>6, <1>7

\* A thread ends, and its name with it unless it is one that dlib did not make.
LEMMA ThreadEndWrittenInv ==
  ASSUME LoggerAssumption, WrittenInv, NEW t \in Threads, thread_end(t)
  PROVE  WrittenInv'
<1>1. /\ UNCHANGED <<m, loggers, next_thread_name, hookbuf, written, hooked, pc, local, statements, overtaken>>
      /\ life' = [life EXCEPT ![t] = @ + 1]
      /\ IF t \in DOMAIN thread_names /\ t \notin Plain
         THEN thread_names' = [u \in DOMAIN thread_names \ {t} |-> thread_names[u]]
         ELSE UNCHANGED thread_names
  BY DEF thread_end, output
<1>2. life \in [Threads -> Nat] /\ DOMAIN thread_names \subseteq Threads
      /\ \A u \in DOMAIN thread_names : thread_names[u] \in Nat
  BY DEF WrittenInv, WrittenTypes
<1>3. /\ life' \in [Threads -> Nat] /\ \A u \in Threads : u # t => life'[u] = life[u]
      /\ DOMAIN thread_names' \subseteq DOMAIN thread_names
      /\ \A u \in DOMAIN thread_names' : thread_names'[u] = thread_names[u] /\ (u # t \/ u \in Plain)
  BY <1>1, <1>2, SMT
<1>4. WrittenTypes'
  <2>1. DOMAIN thread_names' \subseteq Threads /\ \A u \in DOMAIN thread_names' : thread_names'[u] \in Nat
    BY <1>2, <1>3
  <2> QED
    BY <1>1, <1>3, <2>1 DEF WrittenInv, WrittenTypes
<1>5. LinesWhole' /\ HooksWhole'
  <2>1. \A u \in Threads : (Writing(u)' <=> Writing(u)) /\ Log(u)' = Log(u) /\ (Odd(u)' <=> Odd(u))
    BY <1>1 DEF Writing, Log, Odd
  <2> QED
    BY <1>1, <2>1, Undisturbed DEF output
<1>6. WritersLock'
  BY <1>1 DEF WrittenInv, WritersLock, Writing
<1>7. NamesApart'
  <2>1. Named' = Named
    BY <1>1 DEF Named
  <2>2. \A u \in DOMAIN thread_names' :
          /\ thread_names'[u] < next_thread_name'
          /\ \A v \in DOMAIN thread_names' : thread_names'[v] = thread_names'[u] => v = u
    BY <1>1, <1>3 DEF WrittenInv, NamesApart
  <2>3. ASSUME NEW p \in Named
        PROVE  /\ p.name < next_thread_name'
               /\ \A u \in DOMAIN thread_names' : thread_names'[u] = p.name =>
                    p.thread[1] = u /\ (p.thread[2] = life'[u] \/ u \in Plain)
    <3>1. /\ p.name < next_thread_name
          /\ \A u \in DOMAIN thread_names : thread_names[u] = p.name =>
               p.thread[1] = u /\ (p.thread[2] = life[u] \/ u \in Plain)
      BY DEF WrittenInv, NamesApart
    <3>2. \A u \in DOMAIN thread_names' : life'[u] = life[u] \/ u \in Plain
      BY <1>2, <1>3
    <3> QED
      BY <1>1, <1>3, <3>1, <3>2
  <2>4. \A p, q \in Named : p.name = q.name => Same(p, q)
    BY DEF WrittenInv, NamesApart
  <2> QED
    BY <2>1, <2>2, <2>3, <2>4 DEF NamesApart, Same
<1> QED
  BY <1>4, <1>5, <1>6, <1>7 DEF WrittenInv

\* A statement begins; nothing is locked yet.
LEMMA LoggerStreamWrittenInv ==
  ASSUME LoggerAssumption, LoggerInv, WrittenInv, NEW t \in Threads,
         NEW l \in Loggers, NEW level \in {0, 1}, logger_stream(t, l, level)
  PROVE  WrittenInv'
<1> DEFINE new == [logger |-> l, enabled |-> level >= loggers[l]["level"],
                   been_used |-> FALSE, number |-> statements + 1, items |-> 0]
<1>1. /\ UNCHANGED <<m, loggers, thread_names, next_thread_name, hookbuf, written, hooked, life, overtaken>>
      /\ pc[t] = "idle" /\ l \in DOMAIN loggers /\ statements' = statements + 1
      /\ pc' = [pc EXCEPT ![t] = "stream"] /\ local' = [local EXCEPT ![t] = new]
  BY ZenonT(30) DEF logger_stream, output, names
<1>2. DOMAIN pc = Threads /\ DOMAIN local = Threads /\ statements \in Nat
  BY DEF LoggerInv, LoggerTypes, WrittenInv, WrittenTypes
<1>3. new \in Statements /\ new.logger = l /\ ~new.been_used /\ new.items = 0
  BY <1>2, SMT DEF Statements
<1> HIDE DEF new
<1>4. /\ pc'[t] = "stream" /\ local'[t] = new
      /\ \A u \in Threads : u # t => pc'[u] = pc[u] /\ local'[u] = local[u]
  BY <1>1, <1>2
<1>5. ~Writing(t) /\ ~Writing(t)'
  BY <1>1, <1>3, <1>4 DEF Writing
<1>6. \A u \in Threads : (Writing(u)' <=> Writing(u)) /\ (Writing(u) => u # t)
  BY <1>4, <1>5 DEF Writing
<1>7. LinesWhole' /\ HooksWhole'
  <2>1. \A u \in Threads : Writing(u) => local'[u] = local[u] /\ Log(u)' = Log(u) /\ (Odd(u)' <=> Odd(u))
    <3> SUFFICES ASSUME NEW u \in Threads, Writing(u)
                 PROVE  local'[u] = local[u] /\ Log(u)' = Log(u) /\ (Odd(u)' <=> Odd(u))
      OBVIOUS
    <3>1. local'[u] = local[u] /\ loggers' = loggers /\ overtaken' = overtaken
      BY <1>1, <1>4, <1>6
    <3> QED
      BY <3>1 DEF Log, Odd
  <2> QED
    BY <1>1, <1>6, <2>1, Undisturbed DEF output
<1>8. WrittenTypes'
  <2>1. statements' \in Nat
    BY <1>1, <1>2, SMT
  <2> QED
    BY <1>1, <2>1 DEF WrittenInv, WrittenTypes
<1>9. WritersLock'
  <2>1. \A u \in Threads : m' = u <=> Writing(u)'
    BY <1>1, <1>6 DEF WrittenInv, WritersLock
  <2>2. ASSUME NEW u \in Threads, pc'[u] = "stream"
        PROVE  /\ local'[u] \in Statements /\ local'[u].logger \in DOMAIN loggers'
               /\ local'[u].been_used => local'[u].enabled
               /\ ~local'[u].been_used => local'[u].items = 0
    <3>1. CASE u = t
      BY <1>1, <1>3, <1>4, <3>1
    <3>2. CASE u # t
      BY <1>1, <1>4, <2>2, <3>2 DEF WrittenInv, WritersLock
    <3> QED
      BY <3>1, <3>2
  <2> QED
    BY <1>1, <2>1, <2>2 DEF WrittenInv, WritersLock
<1>10. NamesApart'
  <2>1. Named' = Named /\ UNCHANGED <<names, life>>
    BY <1>1 DEF Named, names
  <2> QED
    BY <2>1, NamesStay DEF WrittenInv
<1> QED
  BY <1>7, <1>8, <1>9, <1>10 DEF WrittenInv

\* Who writes outside the lock is nobody: a thread in a statement that gets gd.m
\* is the only one to write.
LEMMA OnlyWriter ==
  ASSUME LoggerAssumption, WritersLock, NEW t \in Threads, m \in {NoThread, t}
  PROVE  \A u \in Threads : u # t => ~Writing(u)
BY DEF WritersLock, LoggerAssumption

\* A logger with a hook writes to hookbuf, and one without to a stream, unless
\* it was overtaken.
LEMMA HookOrStream ==
  ASSUME LoggerAssumption, LoggerInv, WritersLock, NEW t \in Threads, pc[t] = "stream", ~Odd(t)
  PROVE  Log(t).hook # 0 <=> Log(t).out = "hookbuf"
<1>1. local[t].logger \in DOMAIN loggers
  BY DEF WritersLock
<1> QED
  BY <1>1, LoggerInvIsEnough DEF LoggersAgree, Log, Odd

\* What a thread writes has its types, its statement and its thread.
LEMMA PieceIs ==
  ASSUME WrittenInv, NEW t \in Threads, pc[t] = "stream"
  PROVE  /\ \A what \in {"header", "item", "end"} :
              /\ Piece(t, what) \in Pieces /\ Piece(t, what).statement = local[t].number
              /\ Piece(t, what).what = what /\ Piece(t, what).odd = Odd(t)
         /\ Piece(t, "header").thread = <<t, life[t]>>
         /\ Piece(t, "header").name = get_thread_name(t)
<1>1. local[t] \in Statements /\ life[t] \in Nat /\ get_thread_name(t) \in Nat
  BY DEF WrittenInv, WrittenTypes, WritersLock, get_thread_name
<1>2. local[t].number \in Nat
  BY <1>1 DEF Statements
<1>3. ASSUME NEW what \in {"header", "item", "end"}
      PROVE  /\ Piece(t, what) \in Pieces /\ Piece(t, what).statement = local[t].number
             /\ Piece(t, what).what = what /\ Piece(t, what).odd = Odd(t)
  BY <1>1, <1>2, SMT DEF Piece, Pieces, Odd
<1>4. Piece(t, "header").thread = <<t, life[t]>> /\ Piece(t, "header").name = get_thread_name(t)
  BY DEF Piece
<1> QED
  BY <1>3, <1>4

\* A stream that nobody wrote to, and nobody goes on to write to.
LEMMA LineStays ==
  ASSUME NEW s \in Streams, Lines(written[s], s), written'[s] = written[s],
         \A u \in Threads : ~WritesTo(u, s) /\ ~WritesTo(u, s)'
  PROVE  Lines(written[s], s)'
BY DEF Lines, Follows

\* A stream after one more piece, by t or by somebody overtaken.
LEMMA LineWritten ==
  ASSUME NEW s \in Streams, NEW t \in Threads, NEW w \in Seq(Pieces), NEW p \in Pieces,
         \A k \in 1 .. Len(w) : Follows(w, k),
         \/ p.odd \/ (Len(w) > 0 /\ w[Len(w)].odd)
         \/ p.what = "header" /\ (Len(w) = 0 \/ w[Len(w)].what = "end")
         \/ p.what # "header" /\ Len(w) > 0 /\ w[Len(w)].statement = p.statement /\ w[Len(w)].what # "end",
         written'[s] = w \o <<p>>,
         \A u \in Threads : WritesTo(u, s)' => p.statement = local'[u].number /\ p.what # "end",
         p.odd \/ p.what = "end" \/ WritesTo(t, s)'
  PROVE  Lines(written[s], s)'
<1> DEFINE v == w \o <<p>>
<1>1. /\ v \in Seq(Pieces) /\ Len(v) = Len(w) + 1 /\ v[Len(w) + 1] = p
      /\ \A k \in 1 .. Len(v) : Follows(v, k)
  BY LineGrows
<1>2. Len(w) \in Nat /\ Len(w) + 1 > 0
  BY SMT
<1>3. written'[s] = v
  OBVIOUS
<1> HIDE DEF v
<1>4. Len(v) > 0 /\ v[Len(v)] = p
  BY <1>1, <1>2
<1>5. Len(v) = 0 \/ v[Len(v)].odd \/ v[Len(v)].what = "end" \/ \E u \in Threads : WritesTo(u, s)'
  BY <1>4
<1>6. \A u \in Threads : WritesTo(u, s)' =>
        Len(v) > 0 /\ v[Len(v)].statement = local'[u].number /\ v[Len(v)].what # "end"
  BY <1>4
<1> QED
  BY <1>1, <1>3, <1>5, <1>6, ZenonT(30) DEF Lines, Follows

\* What operator<< does to who writes.
LEMMA PutIs ==
  ASSUME LoggerAssumption, LoggerInv, WrittenInv, NEW t \in Threads, put(t)
  PROVE  /\ pc[t] = "stream" /\ local[t] \in Statements /\ local[t].enabled /\ m \in {NoThread, t} /\ m' = t
         /\ UNCHANGED <<loggers, overtaken, hooked, pc, statements, life>>
         /\ write(Log(t).out, ~local[t].been_used /\ Log(t).hook # 0,
                  (IF ~local[t].been_used /\ Log(t).hook = 0 THEN <<Piece(t, "header")>> ELSE <<>>)
                     \o <<Piece(t, "item")>>)
         /\ IF ~local[t].been_used /\ Log(t).hook = 0 THEN name_thread(t) ELSE UNCHANGED names
         /\ local'[t] \in Statements /\ local'[t].logger = local[t].logger /\ local'[t].number = local[t].number
         /\ local'[t].enabled = local[t].enabled /\ local'[t].been_used /\ local'[t].items = local[t].items + 1
         /\ \A u \in Threads : u # t => local'[u] = local[u] /\ ~Writing(u) /\ ~Writing(u)'
         /\ Writing(t)' /\ Log(t)' = Log(t) /\ (Odd(t)' <=> Odd(t))
<1>1. /\ pc[t] = "stream" /\ local[t].enabled /\ m \in {NoThread, t} /\ m' = t
      /\ UNCHANGED <<loggers, overtaken, hooked, pc, statements, life>>
      /\ local' = [local EXCEPT ![t].been_used = TRUE, ![t].items = @ + 1]
  BY DEF put, lock, bounds
<1>2. /\ write(Log(t).out, ~local[t].been_used /\ Log(t).hook # 0,
               (IF ~local[t].been_used /\ Log(t).hook = 0 THEN <<Piece(t, "header")>> ELSE <<>>)
                  \o <<Piece(t, "item")>>)
      /\ IF ~local[t].been_used /\ Log(t).hook = 0 THEN name_thread(t) ELSE UNCHANGED names
  BY DEF put, Log
<1>3. local[t] \in Statements /\ DOMAIN local = Threads
  BY <1>1 DEF WrittenInv, WritersLock, LoggerInv, LoggerTypes
<1>4. /\ local'[t] \in Statements /\ local'[t].logger = local[t].logger /\ local'[t].number = local[t].number
      /\ local'[t].enabled = local[t].enabled /\ local'[t].been_used /\ local'[t].items = local[t].items + 1
      /\ \A u \in Threads : u # t => local'[u] = local[u]
  BY <1>1, <1>3, SMT DEF Statements
<1>5. \A u \in Threads : u # t => ~Writing(u)
  BY <1>1, OnlyWriter DEF WrittenInv
<1>6. \A u \in Threads : u # t => ~Writing(u)'
  BY <1>1, <1>4, <1>5 DEF Writing
<1>7. Writing(t)' /\ Log(t)' = Log(t) /\ (Odd(t)' <=> Odd(t))
  <2>1. pc'[t] = "stream" /\ local'[t].been_used
    BY <1>1, <1>4
  <2>2. local'[t].logger = local[t].logger /\ loggers' = loggers /\ overtaken' = overtaken
    BY <1>1, <1>4
  <2>3. Writing(t)'
    BY <2>1 DEF Writing
  <2> QED
    BY <2>2, <2>3 DEF Log, Odd
<1> QED
  BY <1>1, <1>2, <1>3, <1>4, <1>5, <1>6, <1>7

\* The sequences that are appended.
LEMMA AppendedIs ==
  ASSUME NEW w \in Seq(Pieces), NEW h \in Pieces, NEW p \in Pieces
  PROVE  /\ <<>> \o <<p>> = <<p>> /\ <<p>> \in Seq(Pieces) /\ <<h>> \in Seq(Pieces)
         /\ w \o (<<h>> \o <<p>>) = (w \o <<h>>) \o <<p>>
         /\ w \o <<h>> \in Seq(Pieces)
<1>1. <<p>> \in Seq(Pieces) /\ <<h>> \in Seq(Pieces)
  BY SMT
<1>2. <<>> \o <<p>> = <<p>>
  BY <1>1, SMT
<1>3. w \o (<<h>> \o <<p>>) = (w \o <<h>>) \o <<p>>
  BY <1>1, SMT
<1>4. w \o <<h>> \in Seq(Pieces)
  BY <1>1, SeqJoin
<1> QED
  BY <1>1, <1>2, <1>3, <1>4

\* An item follows its header or an item of the same statement.
LEMMA PutLines ==
  ASSUME LoggerAssumption, LoggerInv, WrittenInv, NEW t \in Threads, put(t)
  PROVE  LinesWhole'
<1> SUFFICES ASSUME NEW s \in Streams PROVE Lines(written[s], s)'
  BY ZenonT(30) DEF LinesWhole
<1> DEFINE h == Piece(t, "header")
           i == Piece(t, "item")
           w == written[s]
           header == ~local[t].been_used /\ Log(t).hook = 0
           new == (IF header THEN <<h>> ELSE <<>>) \o <<i>>
<1>1. pc[t] = "stream" /\ \A u \in Threads : u # t => ~Writing(u) /\ ~Writing(u)'
  BY PutIs
<1>2. Writing(t)' /\ Log(t)' = Log(t) /\ (Odd(t)' <=> Odd(t)) /\ local'[t].number = local[t].number
  BY PutIs
<1>3. write(Log(t).out, ~local[t].been_used /\ Log(t).hook # 0, new)
  BY PutIs
<1>4. /\ h \in Pieces /\ h.statement = local[t].number /\ h.what = "header" /\ h.odd = Odd(t)
      /\ i \in Pieces /\ i.statement = local[t].number /\ i.what = "item" /\ i.odd = Odd(t)
  <2>1. /\ h \in Pieces /\ h.statement = local[t].number /\ h.what = "header" /\ h.odd = Odd(t)
    BY <1>1, PieceIs
  <2>2. /\ i \in Pieces /\ i.statement = local[t].number /\ i.what = "item" /\ i.odd = Odd(t)
    BY <1>1, PieceIs
  <2> QED
    BY <2>1, <2>2
<1>5. /\ w \in Seq(Pieces) /\ written \in [Streams -> Seq(Pieces)] /\ Lines(w, s)
      /\ local[t].been_used \in BOOLEAN /\ "hookbuf" \notin Streams
  <2>1. local[t] \in Statements
    BY PutIs
  <2> QED
    BY <2>1 DEF WrittenInv, WrittenTypes, LinesWhole, Statements, LoggerAssumption
<1>6. \A u \in Threads : (WritesTo(u, s) => u = t) /\ (WritesTo(u, s)' => u = t)
  BY <1>1 DEF WritesTo
<1>7. CASE Log(t).out # s
  <2>1. written'[s] = written[s]
    BY <1>3, <1>5, <1>7 DEF write
  <2>2. \A u \in Threads : ~WritesTo(u, s) /\ ~WritesTo(u, s)'
    BY <1>2, <1>6, <1>7 DEF WritesTo
  <2> QED
    BY <1>5, <2>1, <2>2, LineStays
<1>8. CASE Log(t).out = s
  <2>1. written'[s] = w \o new
    <3>1. Log(t).out # "hookbuf"
      BY <1>5, <1>8
    <3>2. written' = [written EXCEPT ![s] = @ \o new]
      BY <1>3, <1>8, <3>1 DEF write
    <3> HIDE DEF new
    <3> QED
      BY <1>5, <3>2
  <2>2. <<>> \o <<i>> = <<i>> /\ w \o (<<h>> \o <<i>>) = (w \o <<h>>) \o <<i>>
    BY <1>4, <1>5, AppendedIs
  <2>3. WritesTo(t, s)' <=> ~Odd(t) /\ Log(t).hook = 0
    BY <1>2, <1>8 DEF WritesTo
  <2>4. \A u \in Threads : WritesTo(u, s)' => i.statement = local'[u].number /\ i.what # "end"
    BY <1>2, <1>4, <1>6, ZenonT(30)
  <2>5. ~Odd(t) => Log(t).hook = 0
    BY <1>1, <1>5, <1>8, HookOrStream DEF WrittenInv
  <2>6. i.odd \/ i.what = "end" \/ WritesTo(t, s)'
    BY <1>4, <2>3, <2>5
  <2>7. \A k \in 1 .. Len(w) : Follows(w, k)
    BY <1>5 DEF Lines
  <2>8. CASE header
    <3>1. written'[s] = (w \o <<h>>) \o <<i>>
      BY <2>1, <2>2, <2>8
    <3>2. h.odd \/ Len(w) = 0 \/ w[Len(w)].odd \/ w[Len(w)].what = "end"
      <4>1. ~Writing(t)
        BY <2>8 DEF Writing
      <4>2. ~\E u \in Threads : WritesTo(u, s)
        BY <1>6, <4>1 DEF WritesTo
      <4> QED
        BY <1>5, <4>2 DEF Lines
    <3>3. \/ h.odd \/ (Len(w) > 0 /\ w[Len(w)].odd)
          \/ h.what = "header" /\ (Len(w) = 0 \/ w[Len(w)].what = "end")
      <4>1. Len(w) = 0 \/ Len(w) > 0
        BY <1>5, SMT
      <4> QED
        BY <1>4, <3>2, <4>1, ZenonT(30)
    <3> DEFINE v == w \o <<h>>
    <3>4. /\ v \in Seq(Pieces) /\ Len(v) = Len(w) + 1 /\ v[Len(w) + 1] = h
          /\ \A k \in 1 .. Len(v) : Follows(v, k)
      <4> HIDE DEF h, w
      <4> QED
        BY <1>4, <1>5, <2>7, <3>3, LineGrows
    <3>5. Len(w) \in Nat
      BY <1>5, SMT
    <3> HIDE DEF v, h, i, w
    <3>6. Len(v) > 0 /\ v[Len(v)] = h
      BY <3>4, <3>5, SMT
    <3>7. i.what # "header" /\ v[Len(v)].statement = i.statement /\ v[Len(v)].what # "end"
      BY <1>4, <3>6
    <3>8. written'[s] = v \o <<i>>
      BY <3>1 DEF v
    <3> QED
      BY <1>4, <2>4, <2>6, <3>4, <3>6, <3>7, <3>8, LineWritten
  <2>9. CASE ~header
    <3>1. written'[s] = w \o <<i>>
      BY <2>1, <2>2, <2>9
    <3>2. \/ i.odd
          \/ i.what # "header" /\ Len(w) > 0 /\ w[Len(w)].statement = i.statement /\ w[Len(w)].what # "end"
      <4>1. CASE Odd(t)
        BY <1>4, <4>1, ZenonT(30)
      <4>2. CASE ~Odd(t)
        <5>1. Writing(t)
          BY <1>1, <1>5, <2>5, <2>9, <4>2 DEF Writing
        <5>2. WritesTo(t, s)
          BY <1>8, <2>5, <4>2, <5>1 DEF WritesTo
        <5>3. Len(w) > 0 /\ w[Len(w)].statement = local[t].number /\ w[Len(w)].what # "end"
          BY <1>5, <5>2 DEF Lines
        <5>4. i.what # "header"
          BY <1>4
        <5> QED
          BY <1>4, <5>3, <5>4
      <4> QED
        BY <4>1, <4>2
    <3> HIDE DEF i, w
    <3> QED
      BY <1>4, <1>5, <2>4, <2>6, <2>7, <3>1, <3>2, LineWritten
  <2> QED
    BY <2>8, <2>9
<1> QED
  BY <1>7, <1>8

\* A statement of a logger with a hook clears hookbuf, and has it for itself.
LEMMA PutHooks ==
  ASSUME LoggerAssumption, LoggerInv, WrittenInv, NEW t \in Threads, put(t)
  PROVE  HooksWhole'
<1> DEFINE i == Piece(t, "item")
<1>1. pc[t] = "stream" /\ local[t] \in Statements /\ UNCHANGED hooked
      /\ \A u \in Threads : u # t => ~Writing(u) /\ ~Writing(u)'
  BY PutIs, ZenonT(30)
<1>2. /\ Log(t)' = Log(t) /\ (Odd(t)' <=> Odd(t)) /\ local'[t].number = local[t].number
      /\ local'[t].items = local[t].items + 1
  BY PutIs
<1>3. i \in Pieces /\ i.statement = local[t].number
  BY <1>1, PieceIs
<1>4. \A k \in 1 .. Len(hooked') : ~hooked'[k].call.odd =>
        Len(hooked'[k].message) = 2 /\ OfStatement(hooked'[k].message, hooked'[k].call.statement)
  BY <1>1, ZenonT(30) DEF WrittenInv, HooksWhole
<1>5. ASSUME WritesToHook(t)'
      PROVE  Len(hookbuf') = local'[t].items /\ OfStatement(hookbuf', local'[t].number)
  <2>1. ~Odd(t) /\ Log(t).hook # 0
    BY <1>2, <1>5 DEF WritesToHook
  <2>2. Log(t).out = "hookbuf"
    BY <1>1, <2>1, HookOrStream DEF WrittenInv
  <2>3. local[t].been_used \in BOOLEAN /\ local[t].items \in Nat /\ local[t].number \in Nat
        /\ hookbuf \in Seq(Pieces)
    BY <1>1 DEF Statements, WrittenInv, WrittenTypes
  <2>4. write(Log(t).out, ~local[t].been_used /\ Log(t).hook # 0,
              (IF ~local[t].been_used /\ Log(t).hook = 0 THEN <<Piece(t, "header")>> ELSE <<>>) \o <<i>>)
    BY PutIs
  <2>5. <<>> \o <<i>> = <<i>>
    BY <1>3, <2>3, AppendedIs
  <2>6. hookbuf' = (IF ~local[t].been_used THEN <<>> ELSE hookbuf) \o <<i>>
    BY <2>1, <2>2, <2>4, <2>5 DEF write
  <2> HIDE DEF i
  <2>7. CASE local[t].been_used
    <3>1. WritesToHook(t)
      BY <1>1, <2>1, <2>7 DEF WritesToHook, Writing
    <3>2. Len(hookbuf) = local[t].items /\ OfStatement(hookbuf, local[t].number)
      BY <3>1 DEF WrittenInv, HooksWhole
    <3>3. hookbuf' = hookbuf \o <<i>>
      BY <2>6, <2>7
    <3>4. /\ Len(hookbuf \o <<i>>) = Len(hookbuf) + 1 /\ (hookbuf \o <<i>>)[Len(hookbuf) + 1] = i
          /\ \A k \in 1 .. Len(hookbuf) : (hookbuf \o <<i>>)[k] = hookbuf[k]
      BY <1>3, <2>3, SMT
    <3>5. \A k \in 1 .. Len(hookbuf') : k \in 1 .. Len(hookbuf) \/ k = Len(hookbuf) + 1
      BY <2>3, <3>3, <3>4, SMT
    <3>6. \A k \in 1 .. Len(hookbuf') : hookbuf'[k].statement = local[t].number
      BY <1>3, <3>2, <3>3, <3>4, <3>5 DEF OfStatement
    <3> QED
      BY <1>2, <3>2, <3>3, <3>4, <3>6 DEF OfStatement
  <2>8. CASE ~local[t].been_used
    <3>1. local[t].items = 0
      BY <1>1, <2>8 DEF WrittenInv, WritersLock
    <3>2. hookbuf' = <<i>>
      BY <2>5, <2>6, <2>8
    <3>3. Len(hookbuf') = 1 /\ \A k \in 1 .. 1 : hookbuf'[k] = i
      BY <3>2, SMT
    <3>4. local'[t].items = 1
      BY <1>2, <3>1, SMT
    <3> QED
      BY <1>2, <1>3, <3>3, <3>4 DEF OfStatement
  <2> QED
    BY <2>3, <2>7, <2>8
<1>6. \A u \in Threads : WritesToHook(u)' => u = t
  BY <1>1 DEF WritesToHook
<1> QED
  BY <1>4, <1>5, <1>6 DEF HooksWhole, OfStatement

\* What is appended to a stream or to hookbuf.
LEMMA WriteTypes ==
  ASSUME WrittenTypes, NEW to, NEW cleared, NEW new \in Seq(Pieces), write(to, cleared, new)
  PROVE  /\ hookbuf' \in Seq(Pieces) /\ written' \in [Streams -> Seq(Pieces)]
         /\ \A s \in Streams : Range(written'[s]) \subseteq Range(written[s]) \cup Range(new)
<1>1. hookbuf \in Seq(Pieces) /\ written \in [Streams -> Seq(Pieces)] /\ <<>> \in Seq(Pieces)
  BY SMT DEF WrittenTypes
<1>2. \A w \in Seq(Pieces) : w \o new \in Seq(Pieces)
  BY SeqJoin
<1>3. hookbuf' \in Seq(Pieces)
  BY <1>1, <1>2 DEF write
<1>4. written' = written \/ written' = [written EXCEPT ![to] = written[to] \o new]
  BY DEF write
<1>5. \A s \in Streams : written'[s] = written[s] \/ written'[s] = written[s] \o new
  BY <1>1, <1>4
<1>6. DOMAIN written' = Streams /\ written' = [s \in Streams |-> written'[s]]
  BY <1>1, <1>4
<1>7. \A s \in Streams : written[s] \in Seq(Pieces)
  BY <1>1
<1>8. \A s \in Streams : written'[s] \in Seq(Pieces)
  BY <1>2, <1>5, <1>7
<1>9. written' \in [Streams -> Seq(Pieces)]
  BY <1>6, <1>8
<1>10. ASSUME NEW w \in Seq(Pieces) PROVE Range(w \o new) \subseteq Range(w) \cup Range(new)
  <2> SUFFICES ASSUME NEW k \in DOMAIN (w \o new) PROVE (w \o new)[k] \in Range(w) \cup Range(new)
    BY DEF Range
  <2>1. Len(w) \in Nat /\ Len(new) \in Nat /\ k \in 1 .. Len(w) + Len(new)
        /\ DOMAIN w = 1 .. Len(w) /\ DOMAIN new = 1 .. Len(new)
    BY SMT
  <2>2. (w \o new)[k] = IF k <= Len(w) THEN w[k] ELSE new[k - Len(w)]
    BY <2>1, SeqJoin
  <2>3. CASE k <= Len(w)
    <3>1. k \in DOMAIN w /\ (w \o new)[k] = w[k]
      BY <2>1, <2>2, <2>3, SMT
    <3> QED
      BY <3>1 DEF Range
  <2>4. CASE ~(k <= Len(w))
    <3>1. k - Len(w) \in DOMAIN new /\ (w \o new)[k] = new[k - Len(w)]
      BY <2>1, <2>2, <2>4, SMT
    <3> QED
      BY <3>1 DEF Range
  <2> QED
    BY <2>3, <2>4
<1>11. \A s \in Streams : Range(written'[s]) \subseteq Range(written[s]) \cup Range(new)
  BY <1>5, <1>7, <1>10
<1> QED
  BY <1>3, <1>9, <1>11

\* Of what is written, headers have names.
LEMMA NamedWhenWritten ==
  ASSUME UNCHANGED hooked, NEW S,
         \A s \in Streams : Range(written'[s]) \subseteq Range(written[s]) \cup S
  PROVE  Named' \subseteq Named \cup {p \in S : p.what = "header"}
BY ZenonT(30) DEF Named

\* operator<<.
LEMMA PutWrittenInv ==
  ASSUME LoggerAssumption, LoggerInv, WrittenInv, NEW t \in Threads, put(t)
  PROVE  WrittenInv'
<1> DEFINE h == Piece(t, "header")
           i == Piece(t, "item")
           header == ~local[t].been_used /\ Log(t).hook = 0
           new == (IF header THEN <<h>> ELSE <<>>) \o <<i>>
           S == IF header THEN {h, i} ELSE {i}
<1>1. pc[t] = "stream" /\ local[t].enabled /\ m' = t
      /\ UNCHANGED <<loggers, overtaken, hooked, pc, statements, life>>
      /\ write(Log(t).out, ~local[t].been_used /\ Log(t).hook # 0, new)
      /\ IF header THEN name_thread(t) ELSE UNCHANGED names
  BY PutIs, ZenonT(30)
<1>2. /\ local'[t] \in Statements /\ local'[t].logger = local[t].logger
      /\ local'[t].enabled = local[t].enabled /\ local'[t].been_used
      /\ \A u \in Threads : u # t => local'[u] = local[u] /\ ~Writing(u)'
      /\ Writing(t)'
  BY PutIs
<1>3. h \in Pieces /\ i \in Pieces /\ i.what = "item" /\ h.thread = <<t, life[t]>> /\ h.name = get_thread_name(t)
  BY <1>1, PieceIs
<1>4. new \in Seq(Pieces) /\ Range(new) \subseteq S
  <2> HIDE DEF h, i
  <2>1. CASE header
    <3>1. new = <<h>> \o <<i>> /\ S = {h, i}
      BY <2>1
    <3>2. <<h>> \in Seq(Pieces) /\ <<i>> \in Seq(Pieces) /\ Len(<<h>>) = 1 /\ Len(<<i>>) = 1
          /\ <<h>>[1] = h /\ <<i>>[1] = i
      BY <1>3, SMT
    <3> HIDE DEF new, S
    <3>3. new \in Seq(Pieces) /\ \A k \in DOMAIN new : new[k] \in {h, i}
      BY <3>1, <3>2, SeqJoin, SMT
    <3> QED
      BY <3>1, <3>3 DEF Range
  <2>2. CASE ~header
    <3>1. new = <<>> \o <<i>> /\ S = {i}
      BY <2>2
    <3> HIDE DEF new, S
    <3>2. new = <<i>>
      BY <3>1, SMT
    <3>3. new \in Seq(Pieces) /\ \A k \in DOMAIN new : new[k] = i
      BY <1>3, <3>2, SMT
    <3> QED
      BY <3>1, <3>3 DEF Range
  <2> QED
    BY <2>1, <2>2
<1> HIDE DEF h, i, new
<1>5. /\ hookbuf' \in Seq(Pieces) /\ written' \in [Streams -> Seq(Pieces)]
      /\ \A s \in Streams : Range(written'[s]) \subseteq Range(written[s]) \cup S
  <2>1. /\ hookbuf' \in Seq(Pieces) /\ written' \in [Streams -> Seq(Pieces)]
        /\ \A s \in Streams : Range(written'[s]) \subseteq Range(written[s]) \cup Range(new)
    <3>1. WrittenTypes
      BY DEF WrittenInv
    <3> QED
      BY <1>1, <1>4, <3>1, WriteTypes
  <2> QED
    BY <1>4, <2>1, ZenonT(30)
<1>6. Named' \subseteq Named \cup {p \in S : p.what = "header"}
  <2> HIDE DEF S
  <2> QED
    BY <1>1, <1>5, NamedWhenWritten
<1>7. NamesApart' /\ next_thread_name' \in Nat /\ DOMAIN thread_names' \subseteq Threads
      /\ \A u \in DOMAIN thread_names' : thread_names'[u] \in Nat
  <2>1. CASE header
    <3>1. Named' \subseteq Named \cup {h}
      BY <1>3, <1>6, <2>1
    <3>2. name_thread(t) /\ UNCHANGED life /\ h.name = get_thread_name(t) /\ h.thread = <<t, life[t]>>
      BY <1>1, <1>3, <2>1
    <3> HIDE DEF header
    <3> QED
      BY <3>1, <3>2, NamesGiven DEF WrittenInv
  <2>2. CASE ~header
    <3>1. Named' \subseteq Named
      BY <1>3, <1>6, <2>2
    <3>2. UNCHANGED names /\ UNCHANGED life
      BY <1>1, <2>2
    <3>3. NamesApart'
      BY <3>1, <3>2, NamesStay DEF WrittenInv
    <3> QED
      BY <3>2, <3>3 DEF names, WrittenInv, WrittenTypes
  <2> QED
    BY <2>1, <2>2
<1>8. WrittenTypes'
  BY <1>1, <1>5, <1>7 DEF WrittenInv, WrittenTypes
<1>9. WritersLock'
  <2>1. \A u \in Threads : m' = u <=> Writing(u)'
    BY <1>1, <1>2
  <2>2. ASSUME NEW u \in Threads, pc'[u] = "stream"
        PROVE  /\ local'[u] \in Statements /\ local'[u].logger \in DOMAIN loggers'
               /\ local'[u].been_used => local'[u].enabled
               /\ ~local'[u].been_used => local'[u].items = 0
    <3>1. pc[u] = "stream" /\ loggers' = loggers
      BY <1>1, <2>2
    <3>2. CASE u = t
      <4>1. local[t].logger \in DOMAIN loggers
        BY <1>1 DEF WrittenInv, WritersLock
      <4>2. local'[u].enabled /\ local'[u].been_used
        BY <1>1, <1>2, <3>2
      <4> QED
        BY <1>2, <3>1, <3>2, <4>1, <4>2
    <3>3. CASE u # t
      BY <1>2, <3>1, <3>3 DEF WrittenInv, WritersLock
    <3> QED
      BY <3>2, <3>3
  <2> QED
    BY <1>1, <2>1, <2>2 DEF WritersLock
<1>10. LinesWhole' /\ HooksWhole'
  BY PutLines, PutHooks
<1> QED
  BY <1>7, <1>8, <1>9, <1>10 DEF WrittenInv

\* ~logger_stream, of a statement that has written something.
LEMMA EndIs ==
  ASSUME LoggerAssumption, LoggerInv, WrittenInv, NEW t \in Threads, end_statement(t), local[t].been_used
  PROVE  /\ pc[t] = "stream" /\ Writing(t) /\ m' = NoThread /\ local[t].items = 2
         /\ UNCHANGED <<loggers, overtaken, statements, life>>
         /\ IF Log(t).hook = 0
            THEN write(Log(t).out, FALSE, <<Piece(t, "end")>>) /\ UNCHANGED <<hooked, names>>
            ELSE /\ hooked' = Append(hooked, [call |-> [Piece(t, "header") EXCEPT !.what = "hook"],
                                              message |-> hookbuf])
                 /\ name_thread(t) /\ UNCHANGED <<hookbuf, written>>
         /\ \A u \in Threads : u # t => ~Writing(u) /\ pc'[u] = pc[u] /\ local'[u] = local[u]
         /\ \A u \in Threads : ~Writing(u)'
         /\ pc'[t] = "idle"
<1>1. /\ pc[t] = "stream" /\ m' = NoThread /\ (local[t].enabled => local[t].items = 2)
      /\ UNCHANGED <<loggers, overtaken, statements, life>>
      /\ pc' = [pc EXCEPT ![t] = "idle"] /\ local' = [local EXCEPT ![t] = Idle]
  BY DEF end_statement, bounds
<1>2. IF Log(t).hook = 0
      THEN write(Log(t).out, FALSE, <<Piece(t, "end")>>) /\ UNCHANGED <<hooked, names>>
      ELSE /\ hooked' = Append(hooked, [call |-> [Piece(t, "header") EXCEPT !.what = "hook"],
                                        message |-> hookbuf])
           /\ name_thread(t) /\ UNCHANGED <<hookbuf, written>>
  BY DEF end_statement, Log
<1>3. Writing(t) /\ local[t].enabled /\ DOMAIN pc = Threads /\ DOMAIN local = Threads
  BY <1>1 DEF Writing, WrittenInv, WritersLock, LoggerInv, LoggerTypes
<1>4. m = t
  BY <1>3 DEF WrittenInv, WritersLock
<1>5. \A u \in Threads : u # t => ~Writing(u)
  BY <1>4, OnlyWriter DEF WrittenInv
<1>6. pc'[t] = "idle" /\ \A u \in Threads : u # t => pc'[u] = pc[u] /\ local'[u] = local[u]
  BY <1>1, <1>3
<1>7. \A u \in Threads : u # t => ~Writing(u)'
  BY <1>5, <1>6 DEF Writing
<1>8. ~Writing(t)'
  BY <1>6 DEF Writing
<1> QED
  BY <1>1, <1>2, <1>3, <1>5, <1>6, <1>7, <1>8, ZenonT(30)

\* The line ends, or was written to hookbuf.
LEMMA EndLines ==
  ASSUME LoggerAssumption, LoggerInv, WrittenInv, NEW t \in Threads, end_statement(t), local[t].been_used
  PROVE  LinesWhole'
<1> SUFFICES ASSUME NEW s \in Streams PROVE Lines(written[s], s)'
  BY DEF LinesWhole
<1> DEFINE e == Piece(t, "end")
           w == written[s]
<1>1. /\ pc[t] = "stream" /\ Writing(t) /\ \A u \in Threads : u # t => ~Writing(u)
      /\ \A u \in Threads : ~Writing(u)'
      /\ IF Log(t).hook = 0 THEN write(Log(t).out, FALSE, <<e>>) ELSE UNCHANGED written
  BY EndIs
<1>2. e \in Pieces /\ e.statement = local[t].number /\ e.what = "end" /\ e.odd = Odd(t)
  BY <1>1, PieceIs
<1>3. w \in Seq(Pieces) /\ written \in [Streams -> Seq(Pieces)] /\ Lines(w, s) /\ "hookbuf" \notin Streams
  BY DEF WrittenInv, WrittenTypes, LinesWhole, LoggerAssumption
<1>4. \A u \in Threads : (WritesTo(u, s) => u = t) /\ ~WritesTo(u, s)'
  BY <1>1 DEF WritesTo
<1>5. CASE Log(t).out # s \/ Log(t).hook # 0
  <2>1. written'[s] = written[s]
    BY <1>1, <1>3, <1>5 DEF write
  <2>2. \A u \in Threads : ~WritesTo(u, s) /\ ~WritesTo(u, s)'
    BY <1>4, <1>5, ZenonT(30) DEF WritesTo
  <2> QED
    BY <1>3, <2>1, <2>2, LineStays
<1>6. CASE Log(t).out = s /\ Log(t).hook = 0
  <2>1. written'[s] = w \o <<e>>
    <3>1. Log(t).out # "hookbuf"
      BY <1>3, <1>6
    <3>2. written' = [written EXCEPT ![s] = @ \o <<e>>]
      BY <1>1, <1>6, <3>1 DEF write
    <3> HIDE DEF e
    <3> QED
      BY <1>3, <3>2
  <2>2. \A k \in 1 .. Len(w) : Follows(w, k)
    BY <1>3 DEF Lines
  <2>3. \/ e.odd
        \/ e.what # "header" /\ Len(w) > 0 /\ w[Len(w)].statement = e.statement /\ w[Len(w)].what # "end"
    <3>1. CASE Odd(t)
      BY <1>2, <3>1
    <3>2. CASE ~Odd(t)
      <4>1. WritesTo(t, s)
        BY <1>1, <1>6, <3>2 DEF WritesTo
      <4>2. Len(w) > 0 /\ w[Len(w)].statement = local[t].number /\ w[Len(w)].what # "end"
        BY <1>3, <4>1 DEF Lines
      <4>3. e.what # "header"
        BY <1>2
      <4> QED
        BY <1>2, <4>2, <4>3
    <3> QED
      BY <3>1, <3>2
  <2> HIDE DEF e, w
  <2> QED
    BY <1>2, <1>3, <1>4, <2>1, <2>2, <2>3, LineWritten
<1> QED
  BY <1>5, <1>6

\* The hook is called with the whole message.
LEMMA EndHooks ==
  ASSUME LoggerAssumption, LoggerInv, WrittenInv, NEW t \in Threads, end_statement(t), local[t].been_used
  PROVE  HooksWhole'
<1> DEFINE Whole(c) == ~c.call.odd => Len(c.message) = 2 /\ OfStatement(c.message, c.call.statement)
           called == [call |-> [Piece(t, "header") EXCEPT !.what = "hook"], message |-> hookbuf]
<1>1. /\ pc[t] = "stream" /\ Writing(t) /\ \A u \in Threads : ~Writing(u)'
      /\ local[t].items = 2
      /\ hooked' = hooked \/ (Log(t).hook # 0 /\ hooked' = Append(hooked, called))
  BY EndIs
<1>2. \A u \in Threads : ~WritesToHook(u)'
  BY <1>1 DEF WritesToHook
<1>3. \A k \in 1 .. Len(hooked) : Whole(hooked[k])
  BY DEF WrittenInv, HooksWhole
<1>4. ASSUME Log(t).hook # 0 PROVE Whole(called)
  <2>1. Piece(t, "header").odd = Odd(t) /\ Piece(t, "header").statement = local[t].number
        /\ Piece(t, "header") \in Pieces
    BY <1>1, PieceIs
  <2>2. called.call.odd = Odd(t) /\ called.call.statement = local[t].number /\ called.message = hookbuf
    BY <2>1 DEF Pieces
  <2>3. CASE ~Odd(t)
    <3>1. WritesToHook(t)
      BY <1>1, <1>4, <2>3 DEF WritesToHook
    <3>2. Len(hookbuf) = 2 /\ OfStatement(hookbuf, local[t].number)
      BY <1>1, <3>1 DEF WrittenInv, HooksWhole
    <3> HIDE DEF called
    <3> QED
      BY <2>2, <3>2
  <2> HIDE DEF called
  <2> QED
    BY <2>2, <2>3
<1> HIDE DEF Whole, called
<1>5. \A k \in 1 .. Len(hooked') : Whole(hooked'[k])
  <2>1. CASE hooked' = hooked
    BY <1>3, <2>1
  <2>2. CASE Log(t).hook # 0 /\ hooked' = Append(hooked, called)
    <3> DEFINE H == [call : Pieces, message : Seq(Pieces)]
    <3>1. hooked \in Seq(H)
      BY DEF WrittenInv, WrittenTypes
    <3> HIDE DEF H
    <3>2. /\ Len(hooked) \in Nat /\ Len(Append(hooked, called)) = Len(hooked) + 1
          /\ Append(hooked, called)[Len(hooked) + 1] = called
          /\ \A k \in 1 .. Len(hooked) : Append(hooked, called)[k] = hooked[k]
      BY <3>1, SMT
    <3>3. \A k \in 1 .. Len(hooked) + 1 : k \in 1 .. Len(hooked) \/ k = Len(hooked) + 1
      BY <3>2, SMT
    <3> QED
      BY <1>3, <1>4, <2>2, <3>2, <3>3
  <2> QED
    BY <1>1, <2>1, <2>2
<1>6. \A k \in 1 .. Len(hooked') : ~hooked'[k].call.odd =>
        Len(hooked'[k].message) = 2 /\ OfStatement(hooked'[k].message, hooked'[k].call.statement)
  BY <1>5 DEF Whole
<1> QED
  BY <1>2, <1>6 DEF HooksWhole, OfStatement

\* ~logger_stream of a statement that was enabled.
LEMMA EndUsedWrittenInv ==
  ASSUME LoggerAssumption, LoggerInv, WrittenInv, NEW t \in Threads, end_statement(t), local[t].been_used
  PROVE  WrittenInv'
<1> DEFINE e == Piece(t, "end")
           call == [Piece(t, "header") EXCEPT !.what = "hook"]
<1>1. /\ pc[t] = "stream" /\ m' = NoThread /\ UNCHANGED <<loggers, statements, life>>
      /\ \A u \in Threads : ~Writing(u)'
      /\ pc'[t] = "idle" /\ \A u \in Threads : u # t => pc'[u] = pc[u] /\ local'[u] = local[u]
  BY EndIs
<1>2. \/ write(Log(t).out, FALSE, <<e>>) /\ UNCHANGED <<hooked, names>>
      \/ hooked' = Append(hooked, [call |-> call, message |-> hookbuf])
         /\ name_thread(t) /\ UNCHANGED <<hookbuf, written>>
  BY EndIs
<1>3. WrittenTypes /\ NamesApart
  BY DEF WrittenInv
<1>4. /\ NamesApart' /\ next_thread_name' \in Nat /\ DOMAIN thread_names' \subseteq Threads
      /\ \A u \in DOMAIN thread_names' : thread_names'[u] \in Nat
      /\ hookbuf' \in Seq(Pieces) /\ written' \in [Streams -> Seq(Pieces)]
      /\ hooked' \in Seq([call : Pieces, message : Seq(Pieces)])
  <2>1. CASE write(Log(t).out, FALSE, <<e>>) /\ UNCHANGED <<hooked, names>>
    <3>1. e \in Pieces /\ e.what = "end"
      BY <1>1, PieceIs
    <3> HIDE DEF e
    <3>2. <<e>> \in Seq(Pieces) /\ \A k \in DOMAIN <<e>> : <<e>>[k] = e
      BY <3>1, SMT
    <3>3. Range(<<e>>) \subseteq {e}
      BY <3>2, ZenonT(30) DEF Range
    <3>4. /\ hookbuf' \in Seq(Pieces) /\ written' \in [Streams -> Seq(Pieces)]
          /\ \A s \in Streams : Range(written'[s]) \subseteq Range(written[s]) \cup Range(<<e>>)
      BY <1>3, <2>1, <3>2, WriteTypes
    <3>5. \A s \in Streams : Range(written'[s]) \subseteq Range(written[s]) \cup {e}
      BY <3>3, <3>4
    <3>6. Named' \subseteq Named \cup {p \in {e} : p.what = "header"}
      BY <2>1, <3>5, NamedWhenWritten
    <3>7. e.what # "header"
      BY <3>1
    <3>8. Named' \subseteq Named
      BY <3>6, <3>7
    <3>9. NamesApart'
      BY <1>1, <1>3, <2>1, <3>8, NamesStay
    <3> QED
      BY <1>3, <2>1, <3>4, <3>9 DEF WrittenTypes, names
  <2>2. CASE hooked' = Append(hooked, [call |-> call, message |-> hookbuf])
             /\ name_thread(t) /\ UNCHANGED <<hookbuf, written>>
    <3>1. /\ Piece(t, "header") \in Pieces /\ Piece(t, "header").thread = <<t, life[t]>>
          /\ Piece(t, "header").name = get_thread_name(t)
      BY <1>1, PieceIs
    <3>2. call \in Pieces /\ call.thread = <<t, life[t]>> /\ call.name = get_thread_name(t)
      BY <3>1 DEF Pieces
    <3> HIDE DEF call
    <3> DEFINE H == [call : Pieces, message : Seq(Pieces)]
               called == [call |-> call, message |-> hookbuf]
    <3>3. hooked \in Seq(H) /\ hookbuf \in Seq(Pieces)
      BY <1>3 DEF WrittenTypes
    <3>4. called \in H /\ called.call = call
      BY <3>2, <3>3
    <3>5. hooked' = Append(hooked, called)
      BY <2>2
    <3> HIDE DEF H, called
    <3>6. /\ hooked' \in Seq(H) /\ Len(hooked') = Len(hooked) + 1 /\ hooked'[Len(hooked) + 1] = called
          /\ \A k \in 1 .. Len(hooked) : hooked'[k] = hooked[k]
      BY <3>3, <3>4, <3>5, SMT
    <3>7. \A k \in 1 .. Len(hooked') : k \in 1 .. Len(hooked) \/ k = Len(hooked) + 1
      BY <3>3, <3>6, SMT
    <3>8. {hooked'[k].call : k \in 1 .. Len(hooked')} \subseteq
             {hooked[k].call : k \in 1 .. Len(hooked)} \cup {call}
      BY <3>4, <3>6, <3>7
    <3>9. Named' \subseteq Named \cup {call}
      BY <2>2, <3>8 DEF Named
    <3>10. /\ NamesApart' /\ next_thread_name' \in Nat /\ DOMAIN thread_names' \subseteq Threads
           /\ \A u \in DOMAIN thread_names' : thread_names'[u] \in Nat
      <4>1. UNCHANGED life /\ name_thread(t)
        BY <1>1, <2>2
      <4> QED
        BY <1>3, <3>2, <3>9, <4>1, NamesGiven
    <3> QED
      BY <1>3, <2>2, <3>6, <3>10 DEF WrittenTypes, H
  <2> QED
    BY <1>2, <2>1, <2>2
<1>5. WrittenTypes'
  BY <1>1, <1>3, <1>4 DEF WrittenTypes
<1>6. WritersLock'
  <2>1. \A u \in Threads : m' = u <=> Writing(u)'
    BY <1>1 DEF LoggerAssumption
  <2>2. ASSUME NEW u \in Threads, pc'[u] = "stream"
        PROVE  /\ local'[u] \in Statements /\ local'[u].logger \in DOMAIN loggers'
               /\ local'[u].been_used => local'[u].enabled
               /\ ~local'[u].been_used => local'[u].items = 0
    <3>1. u # t
      BY <1>1, <2>2
    <3> QED
      BY <1>1, <2>2, <3>1 DEF WrittenInv, WritersLock
  <2> QED
    BY <1>1, <2>1, <2>2 DEF WritersLock
<1>7. LinesWhole' /\ HooksWhole'
  BY EndLines, EndHooks
<1> QED
  BY <1>4, <1>5, <1>6, <1>7 DEF WrittenInv

\* ~logger_stream of a statement that was not.
LEMMA EndUnusedWrittenInv ==
  ASSUME LoggerAssumption, LoggerInv, WrittenInv, NEW t \in Threads, end_statement(t), ~local[t].been_used
  PROVE  WrittenInv'
<1>1. /\ pc[t] = "stream" /\ DOMAIN pc = Threads /\ DOMAIN local = Threads
      /\ UNCHANGED <<m, output, names, loggers, overtaken, statements, life>>
      /\ pc' = [pc EXCEPT ![t] = "idle"] /\ local' = [local EXCEPT ![t] = Idle]
  BY DEF end_statement, bounds, LoggerInv, LoggerTypes
<1>2. pc'[t] = "idle" /\ \A u \in Threads : u # t => pc'[u] = pc[u] /\ local'[u] = local[u]
  BY <1>1
<1>3. ~Writing(t) /\ ~Writing(t)'
  BY <1>2 DEF Writing
<1>4. \A u \in Threads : (Writing(u)' <=> Writing(u)) /\ (Writing(u) => u # t)
  BY <1>2, <1>3 DEF Writing
<1>5. LinesWhole' /\ HooksWhole'
  <2>1. ASSUME NEW u \in Threads, Writing(u)
        PROVE  local'[u] = local[u] /\ Log(u)' = Log(u) /\ (Odd(u)' <=> Odd(u))
    <3>1. local'[u] = local[u] /\ loggers' = loggers /\ overtaken' = overtaken
      BY <1>1, <1>2, <1>4, <2>1
    <3> QED
      BY <3>1 DEF Log, Odd
  <2> QED
    BY <1>1, <1>4, <2>1, Undisturbed
<1>6. UNCHANGED <<hookbuf, written, hooked, thread_names, next_thread_name>>
  BY <1>1 DEF output, names
<1>7. WrittenTypes'
  BY <1>1, <1>6 DEF WrittenInv, WrittenTypes
<1>8. WritersLock'
  <2>1. \A u \in Threads : m' = u <=> Writing(u)'
    BY <1>1, <1>4 DEF WrittenInv, WritersLock
  <2>2. ASSUME NEW u \in Threads, pc'[u] = "stream"
        PROVE  /\ local'[u] \in Statements /\ local'[u].logger \in DOMAIN loggers'
               /\ local'[u].been_used => local'[u].enabled
               /\ ~local'[u].been_used => local'[u].items = 0
    <3>1. u # t
      BY <1>2, <2>2
    <3> QED
      BY <1>1, <1>2, <2>2, <3>1 DEF WrittenInv, WritersLock
  <2> QED
    BY <1>1, <2>1, <2>2 DEF WrittenInv, WritersLock
<1>9. NamesApart'
  <2>1. Named' = Named
    BY <1>6 DEF Named
  <2> QED
    BY <1>1, <2>1, NamesStay DEF WrittenInv
<1> QED
  BY <1>5, <1>7, <1>8, <1>9 DEF WrittenInv

\* Nothing is written, and main has the name 0.
LEMMA InitWrittenInv == LoggerAssumption /\ Init => WrittenInv
<1> SUFFICES ASSUME LoggerAssumption, Init PROVE WrittenInv
  OBVIOUS
<1>1. /\ m = NoThread /\ thread_names = [t \in {main} |-> 0] /\ next_thread_name = 1
      /\ hookbuf = <<>> /\ written = [s \in Streams |-> <<>>] /\ hooked = <<>>
      /\ pc = [t \in Threads |-> "idle"] /\ statements = 0 /\ life = [t \in Threads |-> 1]
  BY DEF Init
<1>2. main \in Threads /\ NoThread \notin Threads
  BY DEF LoggerAssumption
<1>3. WrittenTypes
  BY <1>1, <1>2, SMT DEF WrittenTypes
<1>4. \A t \in Threads : pc[t] = "idle" /\ ~Writing(t)
  BY <1>1 DEF Writing
<1>5. WritersLock
  BY <1>1, <1>2, <1>4 DEF WritersLock
<1>6. \A s \in Streams : written[s] = <<>> /\ Len(written[s]) = 0
  BY <1>1
<1>7. LinesWhole
  <2>1. \A s \in Streams : 1 .. Len(written[s]) = {}
    BY <1>6, SMT
  <2> QED
    BY <1>4, <1>6, <2>1, ZenonT(30) DEF LinesWhole, Lines, WritesTo
<1>8. 1 .. Len(hooked) = {}
  BY <1>1, SMT
<1>9. HooksWhole
  BY <1>4, <1>8 DEF HooksWhole, WritesToHook
<1>10. Named = {}
  <2>1. \A s \in Streams : Range(written[s]) = {}
    <3>1. DOMAIN <<>> = {}
      BY SMT
    <3> QED
      BY <1>6, <3>1 DEF Range
  <2> QED
    BY <1>8, <2>1 DEF Named
<1>11. NamesApart
  <2>1. /\ DOMAIN thread_names = {main} /\ thread_names[main] = 0 /\ 0 < 1
    BY <1>1, SMT
  <2> QED
    BY <1>1, <1>10, <2>1 DEF NamesApart
<1> QED
  BY <1>3, <1>5, <1>7, <1>9, <1>11 DEF WrittenInv

\* The inductive invariant says what MessagesWhole says.
LEMMA WrittenInvIsEnough == WrittenInv => MessagesWhole
<1> SUFFICES ASSUME WrittenInv PROVE MessagesWhole
  OBVIOUS
<1>1. \A s \in Streams : \A k \in 1 .. Len(written[s]) : Follows(written[s], k)
  BY DEF WrittenInv, LinesWhole, Lines
<1>2. \A k \in 1 .. Len(hooked) : ~hooked[k].call.odd =>
        /\ Len(hooked[k].message) = 2
        /\ \A i \in 1 .. 2 : hooked[k].message[i].statement = hooked[k].call.statement
  <2>1. \A k \in 1 .. Len(hooked) : ~hooked[k].call.odd =>
          Len(hooked[k].message) = 2 /\ OfStatement(hooked[k].message, hooked[k].call.statement)
    BY DEF WrittenInv, HooksWhole
  <2> QED
    BY <2>1 DEF OfStatement
<1>3. \A p, q \in Named :
        p.name = q.name => p.thread = q.thread \/ (p.thread[1] = q.thread[1] /\ p.thread[1] \in Plain)
  BY DEF WrittenInv, NamesApart, Same
<1> QED
  BY <1>1, <1>2, <1>3 DEF MessagesWhole, Follows, Named

-----------------------------------------------------------------------------
(* The theorems *)

INSTANCE WellFoundedInduction

\* There is a least number among any.
LEMMA NumbersHaveLeast == LeastNumbers
<1> SUFFICES ASSUME NEW S \in SUBSET Nat, S # {} PROVE \E x \in S : \A y \in S : x <= y
  BY DEF LeastNumbers
<1> DEFINE less == {ss \in Nat \X Nat : ss[1] < ss[2]}
<1>1. IsWellFoundedOn(less, Nat)
  BY NatLessThanWellFounded DEF OpToRel
<1> HIDE DEF less
<1>2. PICK x \in S : \A y \in S : ~(<<y, x>> \in less)
  BY <1>1, WFMin
<1>3. \A y \in S : x <= y
  <2> SUFFICES ASSUME NEW y \in S PROVE x <= y
    OBVIOUS
  <2>1. x \in Nat /\ y \in Nat
    OBVIOUS
  <2>2. ~(<<y, x>> \in less)
    BY <1>2
  <2> QED
    BY <2>1, <2>2, SMT DEF less
<1> QED
  BY <1>3

\* logger_kernel_1: whatever the threads, the loggers and their names, a logger
\* has the settings that gd's tables give to its name, whenever it was made and
\* whatever was set above and below it, unless a level or stream was set while
\* its constructor had let go of gd.m; and it has a hook exactly when it writes
\* to hookbuf.
THEOREM LoggersHaveTheirSettings == LoggerAssumption => (Spec => []LoggersAgree)
<1> SUFFICES ASSUME LoggerAssumption PROVE Spec => []LoggersAgree
  OBVIOUS
<1>1. Init => LoggerInv
  BY InitLoggerInv
<1>2. LoggerInv /\ [Next]_vars => LoggerInv'
  BY LoggerStep, NumbersHaveLeast
<1>3. LoggerInv => LoggersAgree
  BY LoggerInvIsEnough
<1> QED
  BY <1>1, <1>2, <1>3, PTL DEF Spec

\* logger_kernel_1: whatever the threads, loggers, hooks and streams, and
\* whatever is set or constructed meanwhile, the line of one statement is not
\* broken up by another one, a hook is given the whole of its message, and no
\* two threads that dlib made have the same name.
THEOREM MessagesAreWhole == LoggerAssumption => (Spec => []MessagesWhole)
<1> SUFFICES ASSUME LoggerAssumption PROVE Spec => []MessagesWhole
  OBVIOUS
<1>1. Init => LoggerInv /\ WrittenInv
  BY InitLoggerInv, InitWrittenInv
<1>2. LoggerInv /\ WrittenInv /\ [Next]_vars => (LoggerInv /\ WrittenInv)'
  <2> SUFFICES ASSUME LoggerInv, WrittenInv, [Next]_vars PROVE LoggerInv' /\ WrittenInv'
    OBVIOUS
  <2>1. LoggerInv'
    BY LoggerStep, NumbersHaveLeast
  <2>2. ASSUME NEW t \in Threads, NEW l \in Loggers, logger(t, l) \/ destroy(t, l) PROVE WrittenInv'
    BY <2>2, LockedWrittenInv
  <2>3. ASSUME NEW t \in Threads, init_level(t) \/ register(t) PROVE WrittenInv'
    BY <2>3, LockedWrittenInv
  <2>4. ASSUME NEW t \in Threads,
               set_level(t) \/ set_output_stream(t) \/ set_output_hook(t) \/ set_other(t)
        PROVE  WrittenInv'
    <3>1. \E n, new : set(t, n, new)
      BY <2>4 DEF set_level, set_output_stream, set_output_hook, set_other
    <3> QED
      BY <3>1, LockedWrittenInv
  <2>5. ASSUME NEW t \in Threads, thread_end(t) PROVE WrittenInv'
    BY <2>5, ThreadEndWrittenInv
  <2>6. ASSUME NEW t \in Threads, NEW l \in Loggers, NEW level \in {0, 1}, logger_stream(t, l, level)
        PROVE  WrittenInv'
    BY <2>6, LoggerStreamWrittenInv
  <2>7. ASSUME NEW t \in Threads, put(t) PROVE WrittenInv'
    BY <2>7, PutWrittenInv
  <2>8. ASSUME NEW t \in Threads, end_statement(t) PROVE WrittenInv'
    BY <2>8, EndUsedWrittenInv, EndUnusedWrittenInv
  <2>9. CASE UNCHANGED vars
    <3>1. UNCHANGED <<m, loggers, thread_names, next_thread_name, hookbuf, written, hooked, pc, local,
                      statements, life, overtaken>>
      BY <2>9 DEF vars
    <3>2. WrittenTypes' /\ WritersLock'
      BY <3>1 DEF WrittenInv, WrittenTypes, WritersLock, Writing
    <3>3. LinesWhole' /\ HooksWhole'
      <4>1. \A u \in Threads : (Writing(u)' <=> Writing(u)) /\ Log(u)' = Log(u) /\ (Odd(u)' <=> Odd(u))
        BY <3>1 DEF Writing, Log, Odd
      <4> QED
        BY <3>1, <4>1, Undisturbed DEF output
    <3>4. NamesApart'
      <4>1. Named' = Named /\ UNCHANGED <<names, life>>
        BY <3>1 DEF Named, names
      <4> QED
        BY <4>1, NamesStay DEF WrittenInv
    <3> QED
      BY <2>1, <3>2, <3>3, <3>4 DEF WrittenInv
  <2>10. WrittenInv'
    BY <2>2, <2>3, <2>4, <2>5, <2>6, <2>7, <2>8, <2>9 DEF Next
  <2> QED
    BY <2>1, <2>10
<1>3. WrittenInv => MessagesWhole
  BY WrittenInvIsEnough
<1> QED
  BY <1>1, <1>2, <1>3, PTL DEF Spec

=============================================================================
