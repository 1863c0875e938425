------------------------------- MODULE Logger -------------------------------
(***************************************************************************)
(* dlib's logger (logger/logger_kernel_1.h and .cpp), with which           *)
(* dlib-minimal writes its messages.  Loggers have dotted names.  What is  *)
(* set for a name holds for all loggers below it, those that exist and     *)
(* those that are made later: each logger carries a copy of its settings,  *)
(* and global_data has a table for each setting from which a new logger    *)
(* takes them.  gd.m protects all of it, and is held from the first << of  *)
(* a statement to the end of its line; but the constructor takes it three  *)
(* times, and lets go in between.                                          *)
(***************************************************************************)
EXTENDS Naturals, Sequences, Functions

CONSTANTS Threads,      \* ids of threads, which the system uses again
          Plain,        \* of which these were not made by dlib
          main,         \* the thread that made global_data
          Loggers,      \* logger objects
          name,         \* the name of each: a sequence of words
          Settings,     \* of auto_flush and header, what is looked at
          Streams,      \* what loggers can be told to write to; cout is one
          NoThread,
          MaxSets, MaxStatements, MaxLives      \* bounds on what is watched

LoggerAssumption ==
    /\ main \in Plain /\ Plain \subseteq Threads /\ NoThread \notin Threads
    /\ \A l \in Loggers : name[l] \in Seq(STRING) /\ name[l] # <<>>
    /\ Settings \subseteq {"auto_flush", "header"}
    /\ "cout" \in Streams /\ "hookbuf" \notin Streams

VARIABLES m,                    \* gd.m: its owner
          tables,               \* gd's tables, one for each setting
          loggers,              \* gd.loggers, with the settings each one carries
          thread_names, next_thread_name,
          hookbuf, written,     \* what was written to hookbuf, to each stream
          hooked,               \* the messages that a hook was called with
          pc, local,            \* of each thread
          sets, statements,     \* how many there were
          life,                 \* how many threads have had this id
          overtaken             \* settings that a logger under construction read too early

vars == <<m, tables, loggers, thread_names, next_thread_name, hookbuf, written, hooked,
          pc, local, sets, statements, life, overtaken>>

-----------------------------------------------------------------------------
(* The tables.  A table is a tree of values, here a function on the names  *)
(* of its nodes, the root being the empty name.                            *)

Fields == {"level", "out", "hook"} \cup Settings

\* Node n is p or above it.
IsAbove(n, p) == Len(n) <= Len(p) /\ \A j \in 1 .. Len(n) : n[j] = p[j]

\* search_tables goes down as far as there are nodes.
search_tables(c, n) ==
    LET on == {p \in DOMAIN c : IsAbove(p, n)}
    IN c[CHOOSE p \in on : \A q \in on : Len(q) <= Len(p)]

\* Mutant: what is below n stays.
assign_keeps_children(c, n, val) ==
    [p \in DOMAIN c \cup {SubSeq(n, 1, k) : k \in 0 .. Len(n)} |->
        IF p = n THEN val ELSE search_tables(c, p)]

\* assign_tables removes what is below n; nodes that it has to make on the way
\* to n get the value of the node above them.
assign_tables(c, n, val) ==
    [p \in {q \in DOMAIN c : ~IsAbove(n, q)} \cup {SubSeq(n, 1, k) : k \in 0 .. Len(n)} |->
        IF p = n THEN val ELSE search_tables(c, p)]

\* LERROR, cout, no hook, print_default_logger_header and auto_flush are the
\* defaults; 0 stands for those that have no name here.
default == [f \in Fields |-> IF f = "out" THEN "cout" ELSE 0]

-----------------------------------------------------------------------------
Idle == [logger |-> "none"]

Init ==
    /\ m = NoThread
    /\ tables = [f \in Fields |-> [n \in {<<>>} |-> default[f]]]
    /\ loggers = [l \in {} |-> default]
    /\ thread_names = [t \in {main} |-> 0] /\ next_thread_name = 1
    /\ hookbuf = <<>> /\ written = [s \in Streams |-> <<>>] /\ hooked = <<>>
    /\ pc = [t \in Threads |-> "idle"] /\ local = [t \in Threads |-> Idle]
    /\ sets = 0 /\ statements = 0 /\ life = [t \in Threads |-> 1]
    /\ overtaken = {}

output == <<hookbuf, written, hooked>>
names == <<thread_names, next_thread_name>>
bounds == <<sets, statements, life>>

\* auto_mutex waits for gd.m; what follows it in a step is done under the lock.
lock(t) == m \in {NoThread, t}

-----------------------------------------------------------------------------
(* The constructor: output_streambuf, level, and the rest under one lock. *)

Used == {local[t].logger : t \in Threads}

\* out(gd.output_streambuf(logger_name))
logger(t, l) ==
    /\ pc[t] = "idle" /\ l \notin DOMAIN loggers \cup Used
    /\ lock(t)
    /\ pc' = [pc EXCEPT ![t] = "level"]
    /\ local' = [local EXCEPT ![t] =
                    [logger |-> l, out |-> search_tables(tables["out"], name[l])]]
    /\ UNCHANGED <<m, tables, loggers, names, output, bounds, overtaken>>

\* cur_level(gd.level(logger_name))
init_level(t) ==
    /\ pc[t] = "level"
    /\ lock(t)
    /\ pc' = [pc EXCEPT ![t] = "register"]
    /\ local' = [local EXCEPT ![t] =
                    [logger |-> local[t].logger, out |-> local[t].out,
                     level |-> search_tables(tables["level"], name[local[t].logger])]]
    /\ UNCHANGED <<m, tables, loggers, names, output, bounds, overtaken>>

\* gd.loggers.add, and the settings that are read with it.
register(t) ==
    /\ pc[t] = "register"
    /\ lock(t)
    /\ LET l == local[t].logger
           new == [f \in Fields |-> IF f \in {"out", "level"} THEN local[t][f]
                                    ELSE search_tables(tables[f], name[l])]
       IN loggers' = [k \in DOMAIN loggers \cup {l} |-> IF k = l THEN new ELSE loggers[k]]
    /\ pc' = [pc EXCEPT ![t] = "idle"]
    /\ local' = [local EXCEPT ![t] = Idle]
    /\ UNCHANGED <<m, tables, names, output, bounds, overtaken>>

\* ~logger.  logger_kernel_1.cpp has a logger of its own, so that this is never
\* the last one before the program ends.
destroy(t, l) ==
    /\ pc[t] = "idle" /\ l \in DOMAIN loggers \ Used
    /\ lock(t)
    /\ loggers' = [k \in DOMAIN loggers \ {l} |-> loggers[k]]
    /\ overtaken' = {o \in overtaken : o[1] # l}
    /\ UNCHANGED <<m, tables, names, output, pc, local, bounds>>

-----------------------------------------------------------------------------
(* Settings *)

\* The settings in new are given to every logger at or below n, and to the
\* tables.  A constructor that has read one of them has read it too early.
set(t, n, new) ==
    /\ pc[t] = "idle" /\ sets < MaxSets
    /\ lock(t)
    /\ loggers' = [l \in DOMAIN loggers |->
                      [f \in Fields |-> IF IsAbove(n, name[l]) /\ f \in DOMAIN new THEN new[f]
                                        ELSE loggers[l][f]]]
    /\ tables' = [f \in Fields |-> IF f \in DOMAIN new THEN assign_tables(tables[f], n, new[f])
                                   ELSE tables[f]]
    /\ overtaken' =
          {o \in overtaken : ~(o[1] \in DOMAIN loggers /\ IsAbove(n, name[o[1]]) /\ o[2] \in DOMAIN new)}
          \cup UNION {{<<local[u].logger, f>> : f \in DOMAIN new \cap DOMAIN local[u]} :
                         u \in {v \in Threads : /\ pc[v] \in {"level", "register"}
                                                /\ IsAbove(n, name[local[v].logger])}}
    /\ sets' = sets + 1
    /\ UNCHANGED <<m, names, output, pc, local, statements, life>>

\* A method of a logger sets for its name, the functions set_all_... for all.
Places == {<<>>} \cup {name[l] : l \in DOMAIN loggers}

set_level(t) ==
    \E n \in Places, v \in {0, 1} : set(t, n, [f \in {"level"} |-> v])

set_output_stream(t) ==
    \E n \in Places, s \in Streams :
        set(t, n, [f \in {"out", "hook"} |-> IF f = "out" THEN s ELSE 0])

set_output_hook(t) ==
    \E n \in Places :
        set(t, n, [f \in {"out", "hook"} |-> IF f = "out" THEN "hookbuf" ELSE 1])

\* set_auto_flush and set_logger_header, which have no form for all loggers.
set_other(t) ==
    \E n \in Places \ {<<>>}, f \in Settings, v \in {0, 1} : set(t, n, [g \in {f} |-> v])

-----------------------------------------------------------------------------
(* Names of threads *)

\* get_thread_name, with m locked.
get_thread_name(t) == IF t \in DOMAIN thread_names THEN thread_names[t] ELSE next_thread_name

name_thread(t) ==
    IF t \in DOMAIN thread_names THEN UNCHANGED names
    ELSE /\ thread_names' = [u \in DOMAIN thread_names \cup {t} |-> get_thread_name(u)]
         /\ next_thread_name' = next_thread_name + 1

\* Mutant: no handler is registered.
thread_end_unseen(t) ==
    /\ pc[t] = "idle" /\ t # main /\ life[t] < MaxLives
    /\ life' = [life EXCEPT ![t] = @ + 1]
    /\ UNCHANGED <<m, tables, loggers, names, output, pc, local, sets, statements, overtaken>>

\* A thread ends, and another one gets its id.  get_thread_name has registered
\* thread_end_handler for a thread that dlib made, and for no other.
thread_end(t) ==
    /\ pc[t] = "idle" /\ t # main /\ life[t] < MaxLives
    /\ IF t \in DOMAIN thread_names /\ t \notin Plain
       THEN /\ lock(t)
            /\ thread_names' = [u \in DOMAIN thread_names \ {t} |-> thread_names[u]]
       ELSE UNCHANGED thread_names
    /\ life' = [life EXCEPT ![t] = @ + 1]
    /\ UNCHANGED <<m, tables, loggers, next_thread_name, output, pc, local, sets, statements, overtaken>>

-----------------------------------------------------------------------------
(* A statement: log << level << item << item. *)

\* logger_stream's constructor reads cur_level without the lock.
logger_stream(t, l, level) ==
    /\ pc[t] = "idle" /\ l \in DOMAIN loggers /\ statements < MaxStatements
    /\ pc' = [pc EXCEPT ![t] = "stream"]
    /\ local' = [local EXCEPT ![t] =
                    [logger |-> l, enabled |-> level >= loggers[l]["level"],
                     been_used |-> FALSE, number |-> statements + 1, items |-> 0]]
    /\ statements' = statements + 1
    /\ UNCHANGED <<m, tables, loggers, names, output, sets, life, overtaken>>

\* What thread t writes to log.out: for each piece, the statement, what it is,
\* and for a header the thread and the name it was given.
Piece(t, what) ==
    [statement |-> local[t].number, what |-> what, thread |-> <<t, life[t]>>,
     name |-> IF what = "header" THEN get_thread_name(t) ELSE 0,
     odd |-> <<local[t].logger, "out">> \in overtaken]

write(to, cleared, pieces) ==
    IF to = "hookbuf"
    THEN /\ hookbuf' = (IF cleared THEN <<>> ELSE hookbuf) \o pieces
         /\ UNCHANGED written
    ELSE /\ hookbuf' = IF cleared THEN <<>> ELSE hookbuf
         /\ written' = [written EXCEPT ![to] = @ \o pieces]

\* operator<<: the first one locks m, and prints the header or clears hookbuf.
put(t) ==
    /\ pc[t] = "stream" /\ local[t].enabled /\ local[t].items < 2
    /\ lock(t)
    /\ LET log == loggers[local[t].logger]
           first == ~local[t].been_used
           header == first /\ log.hook = 0
       IN /\ write(log.out, first /\ log.hook # 0,
                   (IF header THEN <<Piece(t, "header")>> ELSE <<>>) \o <<Piece(t, "item")>>)
          /\ IF header THEN name_thread(t) ELSE UNCHANGED names
    /\ m' = t
    /\ local' = [local EXCEPT ![t].been_used = TRUE, ![t].items = @ + 1]
    /\ UNCHANGED <<tables, loggers, hooked, pc, bounds, overtaken>>

\* ~logger_stream: print_end_of_line ends the line or calls the hook, and
\* unlocks m, unless the statement was not enabled.
end_statement(t) ==
    /\ pc[t] = "stream"
    /\ local[t].enabled => local[t].items = 2
    /\ LET log == loggers[local[t].logger]
       IN IF ~local[t].been_used THEN UNCHANGED <<m, names, output>>
          ELSE /\ m' = NoThread
               /\ IF log.hook = 0
                  THEN /\ write(log.out, FALSE, <<Piece(t, "end")>>)
                       /\ UNCHANGED <<hooked, names>>
                  ELSE /\ hooked' = Append(hooked, [call |-> [Piece(t, "header") EXCEPT !.what = "hook"],
                                                    message |-> hookbuf])
                       /\ name_thread(t)
                       /\ UNCHANGED <<hookbuf, written>>
    /\ pc' = [pc EXCEPT ![t] = "idle"]
    /\ local' = [local EXCEPT ![t] = Idle]
    /\ UNCHANGED <<tables, loggers, bounds, overtaken>>

-----------------------------------------------------------------------------
Next == \E t \in Threads :
    \/ \E l \in Loggers : logger(t, l) \/ destroy(t, l)
    \/ init_level(t) \/ register(t)
    \/ set_level(t) \/ set_output_stream(t) \/ set_output_hook(t) \/ set_other(t)
    \/ thread_end(t)
    \/ \E l \in Loggers, level \in {0, 1} : logger_stream(t, l, level)
    \/ put(t) \/ end_statement(t)

Spec == Init /\ [][Next]_vars

-----------------------------------------------------------------------------
\* A logger has the settings that the tables say loggers of its name are
\* supposed to have, whenever it was made and whatever was set above and below
\* it, and it has a hook exactly when it writes to hookbuf, as would a new
\* logger; except that a level or a stream that was set while its constructor
\* ran does not reach it, until it is set again.
LoggersAgree ==
    /\ \A l \in DOMAIN loggers, f \in Fields :
          <<l, f>> \notin overtaken => loggers[l][f] = search_tables(tables[f], name[l])
    /\ \A l \in DOMAIN loggers :
          <<l, "out">> \notin overtaken => (loggers[l].hook # 0 <=> loggers[l].out = "hookbuf")
    /\ \A l \in Loggers :
          search_tables(tables.hook, name[l]) # 0 <=> search_tables(tables.out, name[l]) = "hookbuf"

\* A message is not broken up by those of other threads, and a hook is given
\* the whole of its message and nothing of another one, also when hooks and
\* streams are set between the statements; two threads never have the same
\* name, even with the same id, unless it is one of threads that dlib did not
\* make.  Nothing is said of a logger whose stream was set while its constructor
\* ran: its messages do go astray, see HookMeansHookbuf.
MessagesWhole ==
    /\ \A s \in Streams : \A k \in 1 .. Len(written[s]) :
          LET p == written[s][k]
              q == written[s][k - 1]
          IN IF p.odd \/ (k > 1 /\ written[s][k - 1].odd) THEN TRUE
             ELSE IF p.what = "header" THEN k = 1 \/ q.what = "end"
             ELSE k > 1 /\ q.statement = p.statement /\ q.what # "end"
    /\ \A k \in 1 .. Len(hooked) : ~hooked[k].call.odd =>
          /\ Len(hooked[k].message) = 2
          /\ \A i \in 1 .. 2 : hooked[k].message[i].statement = hooked[k].call.statement
    /\ LET named == {hooked[k].call : k \in 1 .. Len(hooked)} \cup
                    {p \in UNION {Range(written[s]) : s \in Streams} : p.what = "header"}
       IN \A p, q \in named :
             p.name = q.name => p.thread = q.thread \/ (p.thread[1] = q.thread[1] /\ p.thread[1] \in Plain)

\* logger_kernel_1.h 99: if a logger has a hook, "out.rdbuf() == &gd.hookbuf":
\* what is written to it is what its hook will be called with.
HookMeansHookbuf ==
    \A l \in DOMAIN loggers : loggers[l].hook # 0 => loggers[l].out = "hookbuf"
=============================================================================
