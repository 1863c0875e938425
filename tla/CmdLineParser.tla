---------------------------- MODULE CmdLineParser ----------------------------
(***************************************************************************)
(* dlib's cmd_line_parser (cmd_line_parser/cmd_line_parser_kernel_1.h),    *)
(* which dlib-minimal reads its command line with.  What was typed is      *)
(* divided into options, their arguments and other arguments.  A piece of  *)
(* text is known by where it was typed: the whole of argv[p] is <<p>>, and *)
(* what is attached to the option in argv[p], after a = or after k         *)
(* letters, is <<p, k>>.                                                   *)
(***************************************************************************)
EXTENDS Naturals, Sequences, FiniteSets, Functions

CONSTANTS Names,                \* names of options: single letters
          number_of_arguments,  \* of each
          Strings,              \* what can be typed
          MaxStrings            \* bound: what is typed for all calls of parse

\* A string is "--" (escape), "-" (dash), a word without - in front, --name
\* with nothing, = or =text after it, or - and letters.
CmdLineParserAssumption ==
    /\ MaxStrings \in Nat /\ \A n \in Names : number_of_arguments[n] \in Nat
    /\ \A s \in Strings :
          \/ s.kind \in {"escape", "dash", "word"}
          \/ s.kind = "long" /\ s.name \in STRING /\ s.after \in {"", "=", "=text"}
          \/ s.kind = "short" /\ s.letters \in Seq(STRING) /\ s.letters # <<>>

VARIABLES options,              \* of each option added: how often it was given, with what
          words,                \* this->argv
          have_parsed_line,
          line, i, k, escape,   \* of a call of parse: argv from 1 on, and its variables
          pc,
          error,                \* what the last call threw
          typed                 \* how much was typed so far

vars == <<options, words, have_parsed_line, line, i, k, escape, pc, error, typed>>

Fresh == [num_present |-> 0, options |-> <<>>]
NoError == [type |-> "none", name |-> "", at |-> 0]

Init ==
    /\ options = [n \in {} |-> Fresh] /\ words = <<>> /\ have_parsed_line = FALSE
    /\ line = <<>> /\ i = 0 /\ k = 0 /\ escape = FALSE
    /\ pc = "user" /\ error = NoError /\ typed = 0

\* The variables of the last call of parse are gone.
Forgotten == line' = <<>> /\ i' = 0 /\ k' = 0 /\ escape' = FALSE /\ error' = NoError

\* Its contract allows add_option before a line was parsed, once for a name.
add_option(n) ==
    /\ pc = "user" /\ ~have_parsed_line /\ n \notin DOMAIN options
    /\ options' = [o \in DOMAIN options \cup {n} |-> IF o = n THEN Fresh ELSE options[o]]
    /\ Forgotten
    /\ UNCHANGED <<words, have_parsed_line, pc, typed>>

clear ==
    /\ pc = "user"
    /\ have_parsed_line' = FALSE /\ words' = <<>> /\ options' = [n \in {} |-> Fresh]
    /\ Forgotten
    /\ UNCHANGED <<pc, typed>>

-----------------------------------------------------------------------------
(* parse *)

Cleared == [n \in DOMAIN options |-> Fresh]

\* Mutant: options keep what the last line gave them.
parse_on(l) ==
    /\ pc = "user"
    /\ words' = <<>>
    /\ line' = l /\ i' = 1 /\ k' = 0 /\ escape' = FALSE
    /\ pc' = "parse" /\ error' = NoError /\ typed' = typed + Len(l)
    /\ UNCHANGED <<options, have_parsed_line>>

parse(l) ==
    /\ pc = "user"
    /\ words' = <<>>
    /\ options' = IF have_parsed_line THEN Cleared ELSE options
    /\ line' = l /\ i' = 1 /\ k' = 0 /\ escape' = FALSE
    /\ pc' = "parse" /\ error' = NoError /\ typed' = typed + Len(l)
    /\ UNCHANGED have_parsed_line

\* argc counts the name of the program, argv[0].
argc == Len(line) + 1
Looking == pc = "parse" /\ i < argc
IsOption == line[i].kind # "word" /\ ~escape

\* catch (...)
throw(type, n) ==
    /\ have_parsed_line' = FALSE /\ options' = Cleared
    /\ error' = [type |-> type, name |-> n, at |-> i]
    /\ pc' = "user"
    /\ UNCHANGED <<words, line, i, k, escape, typed>>

\* Option n is there once more.  Its arguments are the text attached to it, if
\* extra is 1, and the strings that follow.
give(n, extra, text) ==
    LET need == number_of_arguments[n]
        args == [j \in 1 .. need |-> IF j <= extra THEN text ELSE <<i + j - extra>>]
    IN options' = [options EXCEPT
          ![n].num_present = @ + 1,
          ![n].options = IF need > 0 THEN Append(@, args) ELSE @]

\* --name, --name= and --name=text
long_option ==
    /\ Looking /\ IsOption /\ line[i].kind = "long"
    /\ LET n == line[i].name
           given == IF line[i].after = "" THEN 0 ELSE 1
           extra == IF line[i].after = "=text" THEN 1 ELSE 0
           need == number_of_arguments[n]
       IN IF n \notin DOMAIN options THEN throw("EINVALID_OPTION", n)
          ELSE IF \/ argc + given <= need + i
                  \/ line[i].after = "=" /\ argc = need + i
          THEN throw("ETOO_FEW_ARGS", n)
          ELSE IF extra = 1 /\ need = 0 THEN throw("ETOO_MANY_ARGS", n)
          ELSE /\ give(n, extra, <<i, 0>>)
               /\ i' = i + need - extra + 1
               /\ UNCHANGED <<words, have_parsed_line, line, k, escape, pc, error, typed>>

\* -- alone, which no option is called
escape_option ==
    /\ Looking /\ IsOption /\ line[i].kind = "escape"
    /\ escape' = TRUE /\ i' = i + 1
    /\ UNCHANGED <<options, words, have_parsed_line, line, k, pc, error, typed>>

dash_option ==
    /\ Looking /\ IsOption /\ line[i].kind = "dash"
    /\ throw("none", "-")

\* One letter after -: an option.  The letters after it are its argument if it
\* takes one, and options otherwise.
short_option ==
    /\ Looking /\ IsOption /\ line[i].kind = "short"
    /\ LET letters == line[i].letters
           n == letters[k + 1]
           delta == IF Len(letters) # k + 1 THEN 1 ELSE 0
           need == number_of_arguments[n]
       IN IF n \notin DOMAIN options THEN throw("EINVALID_OPTION", n)
          ELSE IF argc + delta <= need + i THEN throw("ETOO_FEW_ARGS", n)
          ELSE /\ give(n, delta, <<i, k + 1>>)
               /\ IF need = 0 /\ delta = 1 THEN k' = k + 1 /\ i' = i
                  ELSE k' = 0 /\ i' = i + 1 + (IF need = 0 THEN 0 ELSE need - delta)
               /\ UNCHANGED <<words, have_parsed_line, line, escape, pc, error, typed>>

argument ==
    /\ Looking /\ ~IsOption
    /\ words' = Append(words, <<i>>) /\ i' = i + 1
    /\ UNCHANGED <<options, have_parsed_line, line, k, escape, pc, error, typed>>

parsed ==
    /\ pc = "parse" /\ i >= argc
    /\ have_parsed_line' = TRUE /\ pc' = "user"
    /\ UNCHANGED <<options, words, line, i, k, escape, error, typed>>

Lines == UNION {[1 .. n -> Strings] : n \in 0 .. MaxStrings - typed}

Next ==
    \/ \E n \in Names : add_option(n)
    \/ \E l \in Lines : parse(l)
    \/ clear
    \/ long_option \/ escape_option \/ dash_option \/ short_option \/ argument \/ parsed

Spec == Init /\ [][Next]_vars

-----------------------------------------------------------------------------
(* What a line means *)

\* Where the arguments of options and the words were typed.
Arguments == UNION {UNION {Range(a) : a \in Range(options[n].options)} : n \in DOMAIN options}
Whole == {p[1] : p \in {q \in Arguments \cup Range(words) : Len(q) = 1}}

\* The options in the string at p: all letters up to the first that takes an
\* argument, and how much text is attached to the last one.
OptionsAt(p) ==
    CASE line[p].kind = "long" -> <<line[p].name>>
      [] line[p].kind = "short" ->
            LET takes == {j \in DOMAIN line[p].letters : number_of_arguments[line[p].letters[j]] > 0}
                end == IF takes = {} THEN Len(line[p].letters)
                       ELSE CHOOSE j \in takes : \A q \in takes : j <= q
            IN SubSeq(line[p].letters, 1, end)
      [] OTHER -> <<>>

Attached(p) ==
    IF \/ line[p].kind = "long" /\ line[p].after = "=text"
       \/ line[p].kind = "short" /\ Len(line[p].letters) > Len(OptionsAt(p))
    THEN 1 ELSE 0

\* Each string typed is one thing: an option, the first --, an argument of the
\* option before it, or a word; none is passed over, taken twice or read beyond
\* the end.  An option is counted as often as it was typed in this line, each
\* time with its number of arguments, those that followed it.  When parse
\* throws, all counts are 0, and if it says that there are too few arguments
\* there were.
LineIsDivided ==
    pc = "user" /\ line # <<>> =>
        LET rest == (1 .. Len(line)) \ Whole
            opts == {p \in rest : line[p].kind \in {"long", "short"}}
        IN IF have_parsed_line
           THEN /\ Whole \subseteq 1 .. Len(line)
                /\ \A p \in rest \ opts : line[p].kind = "escape" /\ \A q \in rest : q <= p
                /\ \A p \in Range(words) :
                      /\ p \notin Arguments
                      /\ line[p[1]].kind = "word" \/ \E q \in rest \ opts : q < p[1]
                /\ \A j \in 2 .. Len(words) : words[j - 1][1] < words[j][1]
                /\ \A n \in DOMAIN options :
                      /\ options[n].num_present =
                            Cardinality(UNION {{<<p, j>> : j \in {x \in DOMAIN OptionsAt(p) : OptionsAt(p)[x] = n}} :
                                                  p \in opts})
                      /\ IsInjective(options[n].options)
                      /\ number_of_arguments[n] > 0 =>
                            Len(options[n].options) = options[n].num_present
                      /\ \A a \in Range(options[n].options) :
                            \E p \in opts :
                               /\ n = OptionsAt(p)[Len(OptionsAt(p))] /\ Len(a) = number_of_arguments[n]
                               /\ Attached(p) = 1 => a[1][1] = p /\ Len(a[1]) = 2
                               /\ \A j \in Attached(p) + 1 .. Len(a) : a[j] = <<p + j - Attached(p)>>
           ELSE /\ \A n \in DOMAIN options : options[n] = Fresh
                /\ error.type = "ETOO_FEW_ARGS" =>
                      Len(line) - error.at + Attached(error.at) < number_of_arguments[error.name]
=============================================================================
