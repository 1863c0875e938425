---------------------------- MODULE CountsProofs ----------------------------
(***************************************************************************)
(* Two programs that count.  cmd_line_parser counts the options of a line  *)
(* and divides the line as it should, for any options with any number of   *)
(* arguments and lines of any length.  libmill/test.c counts its           *)
(* connections, for any number of them.                                    *)
(***************************************************************************)
EXTENDS CmdLineParser, Coroutines, TLAPS

\* Most steps are about sets and functions; those with arithmetic cite SMT.
USE Zenon

\* How elements are counted (proved below, where it is used for every theorem).
Counting ==
  /\ IsFiniteSet({}) /\ Cardinality({}) = 0
  /\ \A S, x : IsFiniteSet(S) /\ x \notin S =>
       IsFiniteSet(S \cup {x}) /\ Cardinality(S \cup {x}) = Cardinality(S) + 1

-----------------------------------------------------------------------------
(* Sequences *)

\* A sequence is a function on 1 .. Len.
LEMMA SeqLength ==
  ASSUME NEW S, NEW s \in Seq(S)
  PROVE  Len(s) \in Nat /\ DOMAIN s = 1 .. Len(s) /\ s \in [1 .. Len(s) -> S]
BY SMT

\* What is in a sequence is of its type.
LEMMA SeqElement ==
  ASSUME NEW S, NEW s \in Seq(S), NEW j \in 1 .. Len(s)
  PROVE  s[j] \in S
BY SMT

\* The empty sequence is of every type, and no other has length 0.
LEMMA SeqEmpty ==
  ASSUME NEW S
  PROVE  /\ <<>> \in Seq(S) /\ Len(<<>>) = 0
         /\ \A s \in Seq(S) : s # <<>> => Len(s) \in Nat \ {0}
BY SMT

\* A part of a sequence.
LEMMA SeqCut ==
  ASSUME NEW S, NEW s, NEW a \in Int, NEW b \in Int, \A j \in a .. b : s[j] \in S
  PROVE  /\ SubSeq(s, a, b) \in Seq(S) /\ Len(SubSeq(s, a, b)) = IF a <= b THEN b - a + 1 ELSE 0
         /\ \A j \in 1 .. b - a + 1 : SubSeq(s, a, b)[j] = s[a + j - 1]
BY SMT

\* The first element of a sequence, and the others.
LEMMA SeqTail ==
  ASSUME NEW S, NEW s \in Seq(S), s # <<>>
  PROVE  /\ Head(s) \in S /\ Tail(s) \in Seq(S) /\ Len(Tail(s)) = Len(s) - 1
         /\ \A j \in 1 .. Len(Tail(s)) : Tail(s)[j] = s[j + 1]
BY SMT

\* One more element at the end.
LEMMA SeqAppend ==
  ASSUME NEW S, NEW s \in Seq(S), NEW x \in S
  PROVE  /\ Append(s, x) \in Seq(S) /\ Append(s, x) # <<>> /\ Len(Append(s, x)) = Len(s) + 1
         /\ (\A j \in 1 .. Len(s) : Append(s, x)[j] = s[j]) /\ Append(s, x)[Len(s) + 1] = x
BY SMT

-----------------------------------------------------------------------------
(* What was divided so far *)

Texts == Seq(Nat)
Given == [num_present : Nat, options : Seq(Seq(Texts))]

ParserTypes ==
  /\ DOMAIN options \subseteq Names /\ \A n \in DOMAIN options : options[n] \in Given
  /\ words \in Seq(Texts) /\ line \in Seq(Strings) /\ pc \in {"user", "parse"}
  /\ i \in Nat /\ k \in Nat /\ escape \in BOOLEAN /\ have_parsed_line \in BOOLEAN /\ typed \in Nat

\* Of the strings before argv[i], those that are options and the first --, and
\* those that are options.
Rest == (1 .. i - 1) \ Whole
Opts == {p \in Rest : line[p].kind \in {"long", "short"}}

\* Where option n was typed, up to letter k of argv[i].
At(n, p) == {<<p, j>> : j \in {x \in DOMAIN OptionsAt(p) : OptionsAt(p)[x] = n}}
LettersAt(n) == {<<i, j>> : j \in {x \in 1 .. k : line[i].letters[x] = n}}
Typed(n) == (UNION {At(n, p) : p \in Opts}) \cup LettersAt(n)

\* a is what option n was given at p.
GivenAt(a, n, p) ==
  /\ n = OptionsAt(p)[Len(OptionsAt(p))] /\ Len(a) = number_of_arguments[n]
  /\ Attached(p) = 1 => a[1][1] = p /\ Len(a[1]) = 2
  /\ \A j \in Attached(p) + 1 .. Len(a) : a[j] = <<p + j - Attached(p)>>

\* Where parse is: at a string, or after the first letters of one, which take
\* no arguments.
Place ==
  /\ i >= 1 /\ i <= Len(line) + 1
  /\ k > 0 => /\ i <= Len(line) /\ line[i].kind = "short" /\ ~escape /\ k < Len(line[i].letters)
              /\ \A j \in 1 .. k : number_of_arguments[line[i].letters[j]] = 0

\* What was taken is before argv[i].
TakenBefore ==
  /\ \A q \in Arguments : q[1] \in Nat /\ q[1] < i
  /\ Whole \subseteq 1 .. i - 1

EscapeIsLast ==
  /\ \A p \in Rest \ Opts : line[p].kind = "escape" /\ \A q \in Rest : q <= p
  /\ escape <=> \E p \in Rest : p \notin Opts

WordsAre ==
  /\ \A p \in Range(words) :
       /\ Len(p) = 1 /\ p[1] < i /\ p \notin Arguments
       /\ line[p[1]].kind = "word" \/ \E q \in Rest \ Opts : q < p[1]
  /\ \A j \in 2 .. Len(words) : words[j - 1][1] < words[j][1]

OptionIs(n) ==
  /\ IsFiniteSet(Typed(n)) /\ options[n].num_present = Cardinality(Typed(n))
  /\ number_of_arguments[n] > 0 => Len(options[n].options) = options[n].num_present
  /\ IsInjective(options[n].options)
  /\ \A a \in Range(options[n].options) : \E p \in Opts : GivenAt(a, n, p)

Divided ==
  Place /\ TakenBefore /\ EscapeIsLast /\ WordsAre /\ \A n \in DOMAIN options : OptionIs(n)

ParserInv ==
  /\ ParserTypes
  /\ pc = "parse" => Divided
  /\ pc = "user" /\ ~have_parsed_line =>
       /\ \A n \in DOMAIN options : options[n] = Fresh
       /\ line # <<>> /\ error.type = "ETOO_FEW_ARGS" =>
            Len(line) - error.at + Attached(error.at) < number_of_arguments[error.name]
  /\ pc = "user" /\ have_parsed_line /\ line # <<>> => Divided /\ i = argc /\ k = 0

-----------------------------------------------------------------------------
(* Lines and options *)

\* A string of the line is one of those that can be typed.
LEMMA StringAt ==
  ASSUME CmdLineParserAssumption, ParserTypes, NEW p \in 1 .. Len(line)
  PROVE  \/ line[p].kind \in {"escape", "dash", "word"}
         \/ line[p].kind = "long" /\ line[p].after \in {"", "=", "=text"}
         \/ /\ line[p].kind = "short" /\ line[p].letters \in Seq(STRING)
            /\ Len(line[p].letters) \in Nat /\ Len(line[p].letters) > 0
  <1>1. line[p] \in Strings
    BY SeqElement DEF ParserTypes
  <1>2. \A s \in Seq(STRING) : s # <<>> => Len(s) \in Nat /\ Len(s) > 0
    BY SeqEmpty, SMT
  <1> QED
    BY <1>1, <1>2 DEF CmdLineParserAssumption

\* --name is one option.
LEMMA LongOptionAt ==
  ASSUME NEW p, line[p].kind = "long"
  PROVE  /\ Len(OptionsAt(p)) = 1 /\ DOMAIN OptionsAt(p) = {1} /\ OptionsAt(p)[1] = line[p].name
         /\ Attached(p) = IF line[p].after = "=text" THEN 1 ELSE 0
  <1>1. OptionsAt(p) = <<line[p].name>>
    BY DEF OptionsAt
  <1> QED
    BY <1>1, SMT DEF Attached

\* Letters that take no arguments are options up to the first that does or the
\* last of all, which is the option that text is attached to.
LEMMA ShortOptionAt ==
  ASSUME CmdLineParserAssumption, ParserTypes, NEW p \in 1 .. Len(line), line[p].kind = "short",
         NEW c \in Nat, c < Len(line[p].letters),
         \A j \in 1 .. c : number_of_arguments[line[p].letters[j]] = 0,
         \/ number_of_arguments[line[p].letters[c + 1]] > 0
         \/ c + 1 = Len(line[p].letters) /\ number_of_arguments[line[p].letters[c + 1]] = 0
  PROVE  /\ Len(OptionsAt(p)) = c + 1 /\ DOMAIN OptionsAt(p) = 1 .. c + 1
         /\ \A j \in 1 .. c + 1 : OptionsAt(p)[j] = line[p].letters[j]
         /\ Attached(p) = IF Len(line[p].letters) # c + 1 THEN 1 ELSE 0
  <1> DEFINE letters == line[p].letters
             takes == {j \in DOMAIN letters : number_of_arguments[letters[j]] > 0}
             end == IF takes = {} THEN Len(letters) ELSE CHOOSE j \in takes : \A q \in takes : j <= q
  <1>1. letters \in Seq(STRING) /\ Len(letters) \in Nat /\ DOMAIN letters = 1 .. Len(letters)
    <2>1. letters \in Seq(STRING)
      BY StringAt
    <2> HIDE DEF letters
    <2> QED
      BY <2>1, SeqLength
  <1>2. OptionsAt(p) = SubSeq(letters, 1, end)
    BY DEF OptionsAt
  <1>3. end = c + 1
    <2>1. CASE number_of_arguments[letters[c + 1]] > 0
      <3>1. c + 1 \in takes
        BY <1>1, <2>1, SMT
      <3>2. \A q \in takes : c + 1 <= q
        <4> SUFFICES ASSUME NEW q \in takes, q <= c PROVE FALSE
          BY <1>1, SMT
        <4>1. q \in 1 .. c /\ number_of_arguments[letters[q]] > 0
          BY <1>1, SMT
        <4> QED
          BY <4>1, SMT
      <3>3. takes \subseteq Nat
        BY <1>1, SMT
      <3> HIDE DEF takes
      <3>4. \A j \in takes : (\A q \in takes : j <= q) => j = c + 1
        BY <3>1, <3>2, <3>3, SMT
      <3>5. (CHOOSE j \in takes : \A q \in takes : j <= q) \in takes
            /\ \A q \in takes : (CHOOSE j \in takes : \A r \in takes : j <= r) <= q
        BY <3>1, <3>2
      <3> QED
        BY <3>1, <3>4, <3>5
    <2>2. CASE c + 1 = Len(letters) /\ number_of_arguments[letters[c + 1]] = 0
      <3>1. takes = {}
        <4> SUFFICES ASSUME NEW q \in takes PROVE FALSE
          OBVIOUS
        <4>1. q \in 1 .. c + 1 /\ number_of_arguments[letters[q]] > 0
          BY <1>1, <2>2
        <4>2. q \in 1 .. c \/ q = c + 1
          BY <4>1, SMT
        <4> QED
          BY <4>1, <4>2, <2>2, SMT
      <3> QED
        BY <3>1, <2>2
    <2> QED
      BY <2>1, <2>2
  <1> HIDE DEF end
  <1>4. OptionsAt(p) = SubSeq(letters, 1, c + 1)
    BY <1>2, <1>3
  <1>5. \A j \in 1 .. c + 1 : letters[j] \in STRING
    BY <1>1, SeqElement, SMT
  <1> HIDE DEF letters
  <1>6. /\ OptionsAt(p) \in Seq(STRING) /\ Len(OptionsAt(p)) = c + 1
        /\ \A j \in 1 .. c + 1 : OptionsAt(p)[j] = letters[j]
    <2>1. /\ SubSeq(letters, 1, c + 1) \in Seq(STRING)
          /\ Len(SubSeq(letters, 1, c + 1)) = IF 1 <= c + 1 THEN c + 1 - 1 + 1 ELSE 0
          /\ \A j \in 1 .. c + 1 - 1 + 1 : SubSeq(letters, 1, c + 1)[j] = letters[1 + j - 1]
      BY <1>5, SeqCut, SMT
    <2> QED
      BY <2>1, <1>4, SMT
  <1>7. DOMAIN OptionsAt(p) = 1 .. c + 1
    BY <1>6, SeqLength
  <1> QED
    BY <1>1, <1>6, <1>7, SMT DEF Attached, letters

\* What a string means depends on the line only.
LEMMA SameLine ==
  ASSUME line' = line, NEW p
  PROVE  /\ OptionsAt(p)' = OptionsAt(p) /\ Attached(p)' = Attached(p)
         /\ \A n : At(n, p)' = At(n, p)
         /\ \A a, n : GivenAt(a, n, p)' <=> GivenAt(a, n, p)
  <1>1. OptionsAt(p)' = OptionsAt(p)
    BY SMT DEF OptionsAt
  <1>2. Attached(p)' = Attached(p)
    BY <1>1 DEF Attached
  <1> QED
    BY <1>1, <1>2 DEF At, GivenAt

-----------------------------------------------------------------------------
(* An option is given *)

ArgsOf(n, e, text) ==
  [j \in 1 .. number_of_arguments[n] |-> IF j <= e THEN text ELSE <<i + j - e>>]

\* The number of arguments of an option that was added is a number.
LEMMA NeedIsNat ==
  ASSUME CmdLineParserAssumption, ParserTypes, NEW n \in DOMAIN options
  PROVE  number_of_arguments[n] \in Nat
  BY DEF CmdLineParserAssumption, ParserTypes

\* The arguments are texts.
LEMMA ArgsAre ==
  ASSUME CmdLineParserAssumption, ParserTypes, NEW n \in DOMAIN options,
         NEW e \in {0, 1}, NEW text \in Texts
  PROVE  /\ ArgsOf(n, e, text) \in Seq(Texts) /\ Len(ArgsOf(n, e, text)) = number_of_arguments[n]
         /\ DOMAIN ArgsOf(n, e, text) = 1 .. number_of_arguments[n]
         /\ \A j \in 1 .. number_of_arguments[n] :
              ArgsOf(n, e, text)[j] = IF j <= e THEN text ELSE <<i + j - e>>
  <1>1. number_of_arguments[n] \in Nat /\ i \in Nat
    BY NeedIsNat DEF ParserTypes
  <1>2. \A j \in 1 .. number_of_arguments[n] : ~(j <= e) => i + j - e \in Nat
    BY <1>1, SMT
  <1>3. \A x \in Nat : <<x>> \in Texts
    BY SMT DEF Texts
  <1>4. \A j \in 1 .. number_of_arguments[n] : (IF j <= e THEN text ELSE <<i + j - e>>) \in Texts
    BY <1>2, <1>3
  <1>5. ArgsOf(n, e, text) \in [1 .. number_of_arguments[n] -> Texts]
    BY <1>4 DEF ArgsOf
  <1>6. ArgsOf(n, e, text) \in Seq(Texts) /\ Len(ArgsOf(n, e, text)) = number_of_arguments[n]
    BY <1>1, <1>5, SMT
  <1> QED
    BY <1>5, <1>6 DEF ArgsOf

\* give counts the option once more and keeps its arguments, if it takes any.
LEMMA GiveDoes ==
  ASSUME CmdLineParserAssumption, ParserTypes, NEW n \in DOMAIN options,
         NEW e \in {0, 1}, NEW text \in Texts, give(n, e, text)
  PROVE  /\ DOMAIN options' = DOMAIN options /\ \A m \in DOMAIN options : options'[m] \in Given
         /\ \A m \in DOMAIN options : m # n => options'[m] = options[m]
         /\ options'[n].num_present = options[n].num_present + 1
         /\ number_of_arguments[n] = 0 => options'[n].options = options[n].options
         /\ number_of_arguments[n] > 0 =>
              options'[n].options = Append(options[n].options, ArgsOf(n, e, text))
  <1>1. ArgsOf(n, e, text) \in Seq(Texts) /\ number_of_arguments[n] \in Nat
    BY ArgsAre, NeedIsNat
  <1>2. options[n] \in Given
    BY DEF ParserTypes
  <1>3. options' = [options EXCEPT
            ![n].num_present = @ + 1,
            ![n].options = IF number_of_arguments[n] > 0 THEN Append(@, ArgsOf(n, e, text)) ELSE @]
    BY DEF give, ArgsOf
  <1> DEFINE new == IF number_of_arguments[n] > 0 THEN Append(options[n].options, ArgsOf(n, e, text))
                    ELSE options[n].options
  <1>4. options[n].options \in Seq(Seq(Texts)) /\ options[n].num_present \in Nat
    BY <1>2 DEF Given
  <1>5. new \in Seq(Seq(Texts))
    BY <1>1, <1>4, SeqAppend
  <1>6. /\ DOMAIN options' = DOMAIN options
        /\ \A m \in DOMAIN options : m # n => options'[m] = options[m]
        /\ options'[n] = [options[n] EXCEPT !.num_present = options[n].num_present + 1, !.options = new]
    BY <1>2, <1>3 DEF Given
  <1>7. options'[n] = [num_present |-> options[n].num_present + 1, options |-> new]
    BY <1>2, <1>6 DEF Given
  <1>8. options'[n] \in Given
    BY <1>4, <1>5, <1>7, SMT DEF Given
  <1>9. \A m \in DOMAIN options : options'[m] \in Given
    BY <1>6, <1>8 DEF ParserTypes
  <1>10. options'[n].num_present = options[n].num_present + 1 /\ options'[n].options = new
    BY <1>7, SMT
  <1> QED
    BY <1>1, <1>6, <1>9, <1>10, SMT

\* The arguments of the options are texts.
LEMMA ArgumentsAre ==
  ASSUME ParserTypes
  PROVE  /\ Arguments \subseteq Texts /\ Range(words) \subseteq Texts
         /\ \A n \in DOMAIN options : \A j \in DOMAIN options[n].options :
              options[n].options[j] \in Seq(Texts)
  <1>1. \A n \in DOMAIN options : options[n].options \in Seq(Seq(Texts))
    BY DEF ParserTypes, Given
  <1>2. \A n \in DOMAIN options : \A j \in DOMAIN options[n].options :
           options[n].options[j] \in Seq(Texts)
    BY <1>1, SeqLength, SeqElement
  <1>3. \A a \in Seq(Texts) : \A j \in DOMAIN a : a[j] \in Texts
    BY SeqLength, SeqElement
  <1>4. Range(words) \subseteq Texts
    BY <1>3 DEF Range, ParserTypes
  <1> QED
    BY <1>2, <1>3, <1>4, SMT DEF Arguments, Range

\* What is kept in options is an argument.
LEMMA ArgumentsHold ==
  ASSUME NEW n \in DOMAIN options, NEW j \in DOMAIN options[n].options,
         NEW x \in DOMAIN options[n].options[j]
  PROVE  options[n].options[j][x] \in Arguments
  BY SMT DEF Arguments, Range

\* The arguments of the option are added to those before.
LEMMA ArgumentsGrow ==
  ASSUME CmdLineParserAssumption, ParserTypes, NEW n \in DOMAIN options,
         NEW e \in {0, 1}, NEW text \in Texts, give(n, e, text)
  PROVE  Arguments' = Arguments \cup Range(ArgsOf(n, e, text))
  <1> DEFINE args == ArgsOf(n, e, text)
             old == options[n].options
  <1>1. /\ DOMAIN options' = DOMAIN options
        /\ \A m \in DOMAIN options : m # n => options'[m] = options[m]
        /\ number_of_arguments[n] = 0 => options'[n].options = old
        /\ number_of_arguments[n] > 0 => options'[n].options = Append(old, args)
    BY GiveDoes
  <1>2. number_of_arguments[n] \in Nat /\ args \in Seq(Texts) /\ DOMAIN args = 1 .. number_of_arguments[n]
    BY NeedIsNat, ArgsAre
  <1>3. old \in Seq(Seq(Texts))
    BY DEF ParserTypes, Given
  <1>4. \A q : q \in Arguments <=> \E m \in DOMAIN options : \E a \in Range(options[m].options) : q \in Range(a)
    <2> DEFINE U(m) == UNION {Range(a) : a \in Range(options[m].options)}
    <2>1. Arguments = UNION {U(m) : m \in DOMAIN options}
      BY DEF Arguments
    <2>2. \A m, q : q \in U(m) <=> \E a \in Range(options[m].options) : q \in Range(a)
      OBVIOUS
    <2> HIDE DEF U
    <2>3. \A q : q \in Arguments <=> \E m \in DOMAIN options : q \in U(m)
      BY <2>1
    <2> QED
      BY <2>2, <2>3
  <1>5. \A q : q \in Arguments' <=> \E m \in DOMAIN options : \E a \in Range(options'[m].options) : q \in Range(a)
    <2> DEFINE U(m) == UNION {Range(a) : a \in Range(options'[m].options)}
    <2>1. Arguments' = UNION {U(m) : m \in DOMAIN options}
      BY <1>1 DEF Arguments
    <2>2. \A m, q : q \in U(m) <=> \E a \in Range(options'[m].options) : q \in Range(a)
      OBVIOUS
    <2> HIDE DEF U
    <2>3. \A q : q \in Arguments' <=> \E m \in DOMAIN options : q \in U(m)
      BY <2>1
    <2> QED
      BY <2>2, <2>3
  <1>6. CASE number_of_arguments[n] = 0
    <2>1. Range(args) = {}
      BY <1>2, <1>6, SMT DEF Range
    <2>2. \A m \in DOMAIN options : options'[m].options = options[m].options
      BY <1>1, <1>6
    <2>3. \A q : q \in Arguments' <=> q \in Arguments
      BY <1>4, <1>5, <2>2
    <2> QED
      BY <2>1, <2>3
  <1>7. CASE number_of_arguments[n] > 0
    <2>1. Range(Append(old, args)) = Range(old) \cup {args}
      <3> HIDE DEF old, args
      <3>1. /\ Append(old, args) \in Seq(Seq(Texts)) /\ Len(Append(old, args)) = Len(old) + 1
            /\ \A j \in 1 .. Len(old) : Append(old, args)[j] = old[j]
            /\ Append(old, args)[Len(old) + 1] = args /\ Len(old) \in Nat
        BY <1>2, <1>3, SeqAppend, SMT
      <3>2. DOMAIN Append(old, args) = 1 .. Len(old) + 1 /\ DOMAIN old = 1 .. Len(old)
        <4>1. DOMAIN old = 1 .. Len(old)
          BY <1>3, SeqLength
        <4>2. DOMAIN Append(old, args) = 1 .. Len(Append(old, args))
          BY <3>1, SeqLength
        <4> QED
          BY <3>1, <4>1, <4>2
      <3>3. ASSUME NEW q, q \in Range(Append(old, args)) PROVE q \in Range(old) \/ q = args
        <4>1. PICK j \in 1 .. Len(old) + 1 : q = Append(old, args)[j]
          BY <3>2, <3>3 DEF Range
        <4>2. j \in 1 .. Len(old) \/ j = Len(old) + 1
          BY <3>1, SMT
        <4> QED
          BY <3>1, <3>2, <4>1, <4>2 DEF Range
      <3>4. ASSUME NEW q, q \in Range(old) PROVE q \in Range(Append(old, args))
        <4>1. PICK j \in 1 .. Len(old) : q = old[j]
          BY <3>2, <3>4 DEF Range
        <4>2. j \in 1 .. Len(old) + 1
          BY <3>1, SMT
        <4> QED
          BY <3>1, <3>2, <4>1, <4>2 DEF Range
      <3>5. args \in Range(Append(old, args))
        <4>1. Len(old) + 1 \in 1 .. Len(old) + 1
          BY <3>1, SMT
        <4> QED
          BY <3>1, <3>2, <4>1 DEF Range
      <3> QED
        BY <3>3, <3>4, <3>5
    <2>2. Range(options'[n].options) = Range(options[n].options) \cup {args}
      BY <1>1, <1>7, <2>1
    <2>3. \A m \in DOMAIN options : m # n => Range(options'[m].options) = Range(options[m].options)
      BY <1>1
    <2> HIDE DEF old, args
    <2>4. \A q : q \in Arguments' => q \in Arguments \cup Range(args)
      <3> SUFFICES ASSUME NEW q \in Arguments' PROVE q \in Arguments \cup Range(args)
        OBVIOUS
      <3>1. PICK m \in DOMAIN options : \E a \in Range(options'[m].options) : q \in Range(a)
        BY <1>5
      <3>2. PICK a \in Range(options'[m].options) : q \in Range(a)
        BY <3>1
      <3>3. a \in Range(options[m].options) \/ a = args
        BY <2>2, <2>3, <3>2
      <3> QED
        BY <1>4, <3>2, <3>3
    <2>5. \A q : q \in Arguments => q \in Arguments'
      <3> SUFFICES ASSUME NEW q \in Arguments PROVE q \in Arguments'
        OBVIOUS
      <3>1. PICK m \in DOMAIN options : \E a \in Range(options[m].options) : q \in Range(a)
        BY <1>4
      <3>2. PICK a \in Range(options[m].options) : q \in Range(a)
        BY <3>1
      <3>3. a \in Range(options'[m].options)
        BY <2>2, <2>3, <3>2
      <3> QED
        BY <1>5, <3>2, <3>3
    <2>6. \A q : q \in Range(args) => q \in Arguments'
      BY <1>5, <2>2
    <2>7. Arguments' = Arguments \cup Range(args)
      BY <2>4, <2>5, <2>6
    <2> QED
      BY <2>7 DEF args
  <1> QED
    BY <1>2, <1>6, <1>7, SMT

\* Where an option was typed: in one of the options before, or in the letters
\* that were read.
LEMMA TypedIs ==
  ASSUME NEW n, NEW x
  PROVE  x \in Typed(n) <=> (\E p \in Opts : x \in At(n, p)) \/ x \in LettersAt(n)
  <1> DEFINE A(p) == At(n, p)
  <1>1. Typed(n) = (UNION {A(p) : p \in Opts}) \cup LettersAt(n)
    BY DEF Typed
  <1>2. \A p : A(p) = At(n, p)
    OBVIOUS
  <1> HIDE DEF A
  <1>3. x \in UNION {A(p) : p \in Opts} <=> \E p \in Opts : x \in A(p)
    OBVIOUS
  <1>4. (\E p \in Opts : x \in A(p)) <=> \E p \in Opts : x \in At(n, p)
    BY <1>2
  <1>5. x \in Typed(n) <=> x \in UNION {A(p) : p \in Opts} \/ x \in LettersAt(n)
    BY <1>1
  <1> QED
    BY <1>3, <1>4, <1>5

\* The same after a step.
LEMMA TypedIsNext ==
  ASSUME NEW n, NEW x
  PROVE  x \in Typed(n)' <=> (\E p \in Opts' : x \in At(n, p)') \/ x \in LettersAt(n)'
  <1> DEFINE A(p) == At(n, p)'
  <1>1. Typed(n)' = (UNION {A(p) : p \in Opts'}) \cup LettersAt(n)'
    BY DEF Typed
  <1>2. \A p : A(p) = At(n, p)'
    OBVIOUS
  <1> HIDE DEF A
  <1>3. x \in UNION {A(p) : p \in Opts'} <=> \E p \in Opts' : x \in A(p)
    OBVIOUS
  <1>4. (\E p \in Opts' : x \in A(p)) <=> \E p \in Opts' : x \in At(n, p)'
    BY <1>2
  <1>5. x \in Typed(n)' <=> x \in UNION {A(p) : p \in Opts'} \/ x \in LettersAt(n)'
    BY <1>1
  <1> QED
    BY <1>3, <1>4, <1>5

\* A string was taken whole when it is an argument or a word.
LEMMA WholeIs ==
  ASSUME NEW p
  PROVE  p \in Whole <=> \E q \in Arguments \cup Range(words) : Len(q) = 1 /\ q[1] = p
  BY DEF Whole

\* When an option is typed in one more place and given what it was not given
\* before, the books of all options are right again.
LEMMA OptionCounted ==
  ASSUME Counting, CmdLineParserAssumption, ParserTypes, \A m \in DOMAIN options : OptionIs(m),
         NEW n \in DOMAIN options, NEW e \in {0, 1}, NEW text \in Texts, give(n, e, text),
         line' = line, Opts \subseteq Opts', NEW place, place \notin Typed(n),
         Typed(n)' = Typed(n) \cup {place},
         \A m \in DOMAIN options : m # n => Typed(m)' = Typed(m),
         number_of_arguments[n] > 0 =>
            /\ ArgsOf(n, e, text) \notin Range(options[n].options)
            /\ \E p \in Opts' : GivenAt(ArgsOf(n, e, text), n, p)
  PROVE  \A m \in DOMAIN options' : OptionIs(m)'
  <1> DEFINE args == ArgsOf(n, e, text)
             old == options[n].options
             new == options'[n].options
  <1>1. /\ DOMAIN options' = DOMAIN options /\ \A m \in DOMAIN options : options'[m] \in Given
        /\ \A m \in DOMAIN options : m # n => options'[m] = options[m]
        /\ options'[n].num_present = options[n].num_present + 1
        /\ number_of_arguments[n] = 0 => new = old
        /\ number_of_arguments[n] > 0 => new = Append(old, args)
    BY GiveDoes
  <1>2. \A m \in DOMAIN options : \A a \in Range(options[m].options) : \E p \in Opts' : GivenAt(a, m, p)'
    <2> SUFFICES ASSUME NEW m \in DOMAIN options, NEW a \in Range(options[m].options)
                 PROVE  \E p \in Opts' : GivenAt(a, m, p)'
      OBVIOUS
    <2>1. PICK p \in Opts : GivenAt(a, m, p)
      BY DEF OptionIs
    <2>2. p \in Opts'
      OBVIOUS
    <2>3. GivenAt(a, m, p)'
      BY <2>1, SameLine
    <2> QED
      BY <2>2, <2>3
  <1>3. ASSUME NEW m \in DOMAIN options, m # n PROVE OptionIs(m)'
    <2>1. options'[m] = options[m] /\ Typed(m)' = Typed(m)
      BY <1>1, <1>3
    <2>2. OptionIs(m)
      OBVIOUS
    <2> QED
      BY <1>2, <2>1, <2>2 DEF OptionIs
  <1>4. OptionIs(n)'
    <2>1. OptionIs(n) /\ number_of_arguments[n] \in Nat
      BY NeedIsNat
    <2>2. IsFiniteSet(Typed(n)') /\ Cardinality(Typed(n)') = Cardinality(Typed(n)) + 1
      <3>1. IsFiniteSet(Typed(n))
        BY <2>1 DEF OptionIs
      <3>2. /\ IsFiniteSet(Typed(n) \cup {place})
            /\ Cardinality(Typed(n) \cup {place}) = Cardinality(Typed(n)) + 1
        BY <3>1 DEF Counting
      <3> QED
        BY <3>2
    <2>3. options'[n].num_present = Cardinality(Typed(n)')
      BY <1>1, <2>1, <2>2 DEF OptionIs
    <2>4. old \in Seq(Seq(Texts)) /\ args \in Seq(Texts)
      BY ArgsAre DEF ParserTypes, Given
    <2>5. CASE number_of_arguments[n] = 0
      <3>1. new = old
        BY <1>1, <2>5
      <3>2. IsInjective(new)
        BY <2>1, <3>1 DEF OptionIs
      <3>3. \A a \in Range(new) : \E p \in Opts' : GivenAt(a, n, p)'
        BY <1>2, <3>1
      <3> QED
        BY <2>2, <2>3, <2>5, <3>2, <3>3, SMT DEF OptionIs
    <2>6. CASE number_of_arguments[n] > 0
      <3>1. new = Append(old, args) /\ Len(old) = options[n].num_present
        BY <1>1, <2>1, <2>6 DEF OptionIs
      <3>2. args \notin Range(old)
        BY <2>6
      <3>3. ASSUME NEW a, a = args PROVE \E p \in Opts' : GivenAt(a, n, p)'
        <4>1. PICK p \in Opts' : GivenAt(a, n, p)
          BY <2>6, <3>3
        <4> QED
          BY <4>1, SameLine
      <3>4. IsInjective(old)
        BY <2>1 DEF OptionIs
      <3>5. \A a \in Range(old) : \E p \in Opts' : GivenAt(a, n, p)'
        BY <1>2
      <3> HIDE DEF old, args, new
      <3>6. /\ Append(old, args) \in Seq(Seq(Texts)) /\ Len(Append(old, args)) = Len(old) + 1
            /\ \A j \in 1 .. Len(old) : Append(old, args)[j] = old[j]
            /\ Append(old, args)[Len(old) + 1] = args /\ Len(old) \in Nat
        <4>1. Len(old) \in Nat
          BY <2>4, SeqLength
        <4>2. Append(old, args) \in Seq(Seq(Texts)) /\ Len(Append(old, args)) = Len(old) + 1
          BY <2>4, SeqAppend, ZenonT(30)
        <4>3. \A j \in 1 .. Len(old) : Append(old, args)[j] = old[j]
          BY <2>4, SeqAppend, SMT
        <4>4. Append(old, args)[Len(old) + 1] = args
          BY <2>4, SeqAppend, SMT
        <4> QED
          BY <4>1, <4>2, <4>3, <4>4
      <3>7. DOMAIN new = 1 .. Len(old) + 1 /\ DOMAIN old = 1 .. Len(old)
        BY <2>4, <3>1, <3>6, SeqLength
      <3>8. \A j \in DOMAIN new : (j \in DOMAIN old /\ new[j] = old[j]) \/ (j = Len(old) + 1 /\ new[j] = args)
        <4> TAKE j \in DOMAIN new
        <4>1. j \in 1 .. Len(old) \/ j = Len(old) + 1
          BY <3>6, <3>7, SMT
        <4>2. j \in 1 .. Len(old) => new[j] = old[j]
          BY <3>1, <3>6
        <4>3. new[Len(old) + 1] = args
          BY <3>1, <3>6
        <4>4. CASE j \in 1 .. Len(old)
          BY <4>2, <4>4, <3>7
        <4>5. CASE j = Len(old) + 1
          BY <4>3, <4>5
        <4> QED
          BY <4>1, <4>4, <4>5
      <3>9. \A j \in DOMAIN old : old[j] # args
        BY <3>2 DEF Range
      <3>10. IsInjective(new)
        BY <3>4, <3>8, <3>9 DEF IsInjective
      <3>11. \A a \in Range(new) : a \in Range(old) \/ a = args
        BY <3>8 DEF Range
      <3>12. Len(new) = options'[n].num_present
        BY <1>1, <3>1, <3>6
      <3>13. \A a \in Range(new) : \E p \in Opts' : GivenAt(a, n, p)'
        BY <3>3, <3>5, <3>11
      <3> QED
        BY <2>2, <2>3, <3>10, <3>12, <3>13 DEF OptionIs, new
    <2> QED
      BY <2>1, <2>5, <2>6, SMT
  <1> QED
    BY <1>1, <1>3, <1>4

\* The arguments of an option at argv[i] are text of argv[i], and the strings
\* after it.
LEMMA ArgsFollow ==
  ASSUME CmdLineParserAssumption, ParserTypes, NEW n \in DOMAIN options,
         NEW e \in {0, 1}, NEW x \in Nat, e <= number_of_arguments[n]
  PROVE  /\ <<i, x>> \in Texts
         /\ \A q \in Range(ArgsOf(n, e, <<i, x>>)) :
              q = <<i, x>> \/ \E j \in 1 .. number_of_arguments[n] - e : q = <<i + j>>
         /\ \A j \in 1 .. number_of_arguments[n] - e : <<i + j>> \in Range(ArgsOf(n, e, <<i, x>>))
  <1> DEFINE args == ArgsOf(n, e, <<i, x>>)
             need == number_of_arguments[n]
  <1>1. <<i, x>> \in Texts /\ need \in Nat /\ i \in Nat
    BY NeedIsNat, SMT DEF ParserTypes, Texts
  <1>2. /\ DOMAIN args = 1 .. need
        /\ \A j \in 1 .. need : args[j] = IF j <= e THEN <<i, x>> ELSE <<i + j - e>>
    BY <1>1, ArgsAre
  <1> HIDE DEF args
  <1>3. ASSUME NEW j \in 1 .. need PROVE args[j] = <<i, x>> \/ \E y \in 1 .. need - e : args[j] = <<i + y>>
    <2>1. CASE j <= e
      BY <1>2, <2>1
    <2>2. CASE j > e
      <3>1. args[j] = <<i + j - e>> /\ j - e \in 1 .. need - e /\ i + j - e = i + (j - e)
        <4>0. ~(j <= e)
          BY <1>1, <2>2, SMT
        <4>1. args[j] = <<i + j - e>>
          BY <1>2, <4>0
        <4>2. j - e \in 1 .. need - e
          BY <1>1, <2>2, SMT
        <4> QED
          BY <1>1, <4>1, <4>2
      <3> QED
        BY <3>1
    <2> QED
      BY <1>1, <2>1, <2>2, SMT
  <1>4. ASSUME NEW j \in 1 .. need - e PROVE \E y \in 1 .. need : args[y] = <<i + j>>
    <2>1. j + e \in 1 .. need /\ ~(j + e <= e) /\ i + (j + e) - e = i + j
      BY <1>1, SMT
    <2>2. args[j + e] = <<i + (j + e) - e>>
      BY <1>2, <2>1
    <2> QED
      BY <2>1, <2>2
  <1>5. /\ \A q \in Range(args) : q = <<i, x>> \/ \E j \in 1 .. need - e : q = <<i + j>>
        /\ \A j \in 1 .. need - e : <<i + j>> \in Range(args)
    <2> HIDE DEF need
    <2>1. Range(args) = {args[j] : j \in 1 .. need}
      BY <1>2 DEF Range
    <2>2. \A q \in Range(args) : q = <<i, x>> \/ \E j \in 1 .. need - e : q = <<i + j>>
      BY <1>3, <2>1
    <2>3. \A j \in 1 .. need - e : <<i + j>> \in Range(args)
      BY <1>4, <2>1
    <2> QED
      BY <2>2, <2>3
  <1> QED
    BY <1>1, <1>5 DEF args

\* What is given now was not given before: it was typed at argv[i] or later.
LEMMA ArgsAreNew ==
  ASSUME CmdLineParserAssumption, ParserTypes, TakenBefore, NEW n \in DOMAIN options,
         NEW e \in {0, 1}, NEW x \in Nat, e <= number_of_arguments[n], number_of_arguments[n] > 0
  PROVE  ArgsOf(n, e, <<i, x>>) \notin Range(options[n].options)
  <1> DEFINE args == ArgsOf(n, e, <<i, x>>)
             need == number_of_arguments[n]
  <1>1. need \in Nat /\ DOMAIN args = 1 .. need /\ i \in Nat
    BY NeedIsNat, ArgsAre, ArgsFollow, ZenonT(30) DEF ParserTypes
  <1>2. args[need] \in Range(args)
    <2> HIDE DEF args
    <2>1. need \in DOMAIN args
      BY <1>1, SMT
    <2> QED
      BY <2>1 DEF Range
  <1>3. args[need] = <<i, x>> \/ \E j \in 1 .. need - e : args[need] = <<i + j>>
    BY <1>2, ArgsFollow, SMT
  <1>4. ~(args[need][1] < i)
    BY <1>1, <1>3, SMT
  <1>5. args \in Range(options[n].options) => args[need] \in Arguments
    BY <1>2, SMT DEF Arguments, Range
  <1> QED
    BY <1>4, <1>5 DEF TakenBefore

-----------------------------------------------------------------------------
(* One string, or one letter of it, at a time *)

\* What an option is at, when its letters are read one by one.
LEMMA AtIs ==
  ASSUME NEW m, NEW p, NEW c \in Nat, DOMAIN OptionsAt(p) = 1 .. c, NEW y
  PROVE  y \in At(m, p) <=> \E j \in 1 .. c : y = <<p, j>> /\ OptionsAt(p)[j] = m
  BY DEF At

\* Option n ends argv[i].  e texts of argv[i] are attached to it and the next d
\* strings follow it.
Ends(n, e, d, x) ==
  /\ i <= Len(line) /\ ~escape /\ line[i].kind \in {"long", "short"}
  /\ number_of_arguments[n] = e + d /\ give(n, e, <<i, x>>)
  /\ i' = i + 1 + d /\ i' <= Len(line) + 1 /\ k' = 0
  /\ UNCHANGED <<words, line, escape>>
  /\ Len(OptionsAt(i)) = k + 1 /\ DOMAIN OptionsAt(i) = 1 .. k + 1 /\ OptionsAt(i)[k + 1] = n
  /\ \A j \in 1 .. k : OptionsAt(i)[j] = line[i].letters[j]
  /\ e + d > 0 => Attached(i) = e

\* Such an option leaves the line divided up to the string after its arguments.
LEMMA OptionGiven ==
  ASSUME Counting, CmdLineParserAssumption, ParserTypes, Divided,
         NEW n \in DOMAIN options, NEW e \in {0, 1}, NEW d \in Nat, NEW x \in Nat, Ends(n, e, d, x)
  PROVE  Divided'
  <1> DEFINE args == ArgsOf(n, e, <<i, x>>)
  <1>a. number_of_arguments[n] = e + d /\ give(n, e, <<i, x>>)
    BY DEF Ends
  <1>b. i' = i + 1 + d /\ i' <= Len(line) + 1 /\ k' = 0 /\ line' = line /\ words' = words /\ escape' = escape
    BY DEF Ends
  <1>c. i <= Len(line) /\ ~escape /\ line[i].kind \in {"long", "short"}
    BY DEF Ends
  <1>1. /\ i \in Nat /\ i >= 1 /\ k \in Nat /\ Len(line) \in Nat /\ <<i, x>> \in Texts /\ e \in Nat
        /\ e <= number_of_arguments[n] /\ number_of_arguments[n] - e = d
    <2>1. i \in Nat /\ i >= 1 /\ k \in Nat /\ Len(line) \in Nat
      BY SeqLength DEF ParserTypes, Divided, Place
    <2>2. <<i, x>> \in Texts
      BY <2>1, SMT DEF Texts
    <2> QED
      BY <1>a, <2>1, <2>2, SMT
  <1>2. Arguments' = Arguments \cup Range(args)
    BY <1>a, <1>1, ArgumentsGrow
  <1>3. /\ \A q \in Range(args) : q = <<i, x>> \/ \E j \in 1 .. d : q = <<i + j>>
        /\ \A j \in 1 .. d : <<i + j>> \in Range(args)
    <2>1. /\ \A q \in Range(args) : q = <<i, x>> \/ \E j \in 1 .. number_of_arguments[n] - e : q = <<i + j>>
          /\ \A j \in 1 .. number_of_arguments[n] - e : <<i + j>> \in Range(args)
      BY <1>1, ArgsFollow, SMT
    <2> QED
      BY <1>1, <2>1
  <1>4. DOMAIN options' = DOMAIN options
    BY <1>a, <1>1, GiveDoes
  <1>5. /\ DOMAIN args = 1 .. e + d /\ Len(args) = e + d
        /\ \A j \in 1 .. e + d : args[j] = IF j <= e THEN <<i, x>> ELSE <<i + j - e>>
    <2>1. DOMAIN args = 1 .. e + d /\ Len(args) = e + d
      BY <1>a, <1>1, ArgsAre
    <2>2. \A j \in 1 .. e + d : args[j] = IF j <= e THEN <<i, x>> ELSE <<i + j - e>>
      BY <1>a DEF ArgsOf
    <2> QED
      BY <2>1, <2>2
  <1> HIDE DEF args
  <1>6. \A p : p \in Whole' <=> p \in Whole \/ p \in i + 1 .. i + d
    <2> TAKE p
    <2>1. p \in Whole' <=> \E q \in Arguments' \cup Range(words) : Len(q) = 1 /\ q[1] = p
      BY <1>b DEF Whole
    <2>2. p \in Whole <=> \E q \in Arguments \cup Range(words) : Len(q) = 1 /\ q[1] = p
      BY WholeIs
    <2>3. ASSUME NEW q \in Range(args), Len(q) = 1, q[1] = p PROVE p \in i + 1 .. i + d
      <3>1. PICK j \in 1 .. d : q = <<i + j>>
        BY <1>3, <2>3, SMT
      <3>2. p = i + j
        BY <2>3, <3>1
      <3> QED
        BY <1>1, <3>2, SMT
    <2>4. ASSUME p \in i + 1 .. i + d PROVE \E q \in Range(args) : Len(q) = 1 /\ q[1] = p
      <3>1. p - i \in 1 .. d /\ i + (p - i) = p
        BY <1>1, <2>4, SMT
      <3>2. <<p>> \in Range(args)
        BY <1>3, <3>1
      <3> QED
        BY <3>2
    <2> QED
      BY <1>2, <2>1, <2>2, <2>3, <2>4
  <1>7. Whole \subseteq 1 .. i - 1
    BY DEF Divided, TakenBefore
  <1>8. Rest' = Rest \cup {i}
    <2>1. Rest' = (1 .. i' - 1) \ Whole'
      BY <1>b DEF Rest
    <2>2. \A p : p \in 1 .. i' - 1 <=> p \in 1 .. i - 1 \/ p = i \/ p \in i + 1 .. i + d
      <3> TAKE p
      <3>1. p \in 1 .. i' - 1 <=> p \in 1 .. i + d
        BY <1>b, <1>1, SMT
      <3>2. p \in 1 .. i + d <=> p \in 1 .. i - 1 \/ p = i \/ p \in i + 1 .. i + d
        BY <1>1, SMT
      <3> QED
        BY <3>1, <3>2
    <2>3. \A p : p \in 1 .. i - 1 => p # i /\ p \notin i + 1 .. i + d
      BY <1>1, SMT
    <2>4. i \notin i + 1 .. i + d
      BY <1>1, SMT
    <2> QED
      BY <1>6, <1>7, <2>1, <2>2, <2>3, <2>4 DEF Rest
  <1>9. Opts' = Opts \cup {i}
    BY <1>b, <1>c, <1>8 DEF Opts
  <1>10. Rest = Opts /\ i \notin Opts
    <2>1. Rest = Opts
      BY <1>c DEF Divided, EscapeIsLast, Opts
    <2>2. i \notin Rest
      BY <1>1, SMT DEF Rest
    <2> QED
      BY <2>1, <2>2
  <1>11. Place'
    BY <1>b, <1>1, SMT DEF Place
  <1>12. TakenBefore'
    <2>1. ASSUME NEW q \in Arguments' PROVE q[1] \in Nat /\ q[1] < i'
      <3>1. CASE q \in Arguments
        <4>1. q[1] < i
          BY <3>1 DEF Divided, TakenBefore
        <4>2. q[1] \in Nat
          BY <3>1 DEF Divided, TakenBefore
        <4> QED
          BY <1>b, <1>1, <4>1, <4>2, SMT
      <3>2. CASE q = <<i, x>>
        BY <1>b, <1>1, <3>2, SMT
      <3>3. CASE \E j \in 1 .. d : q = <<i + j>>
        BY <1>b, <1>1, <3>3, SMT
      <3> QED
        BY <1>2, <1>3, <3>1, <3>2, <3>3
    <2>2. Whole' \subseteq 1 .. i' - 1
      <3>1. i' - 1 = i + d
        BY <1>b, <1>1, SMT
      <3>2. \A p : p \in 1 .. i - 1 \/ p \in i + 1 .. i + d => p \in 1 .. i + d
        BY <1>1, SMT
      <3> QED
        BY <1>6, <1>7, <3>1, <3>2
    <2> QED
      BY <2>1, <2>2 DEF TakenBefore
  <1>13. EscapeIsLast'
    <2>1. Rest' = Opts'
      BY <1>8, <1>9, <1>10
    <2>2. escape' = FALSE
      BY <1>b, <1>c DEF ParserTypes
    <2> QED
      BY <2>1, <2>2 DEF EscapeIsLast
  <1>14. WordsAre'
    <2>1. ASSUME NEW p \in Range(words)
          PROVE  Len(p) = 1 /\ p[1] < i' /\ p \notin Arguments' /\ line[p[1]].kind = "word"
      <3>1. Len(p) = 1 /\ p[1] < i /\ p \notin Arguments /\ line[p[1]].kind = "word"
        BY <1>10 DEF Divided, WordsAre
      <3>2. p[1] \in Nat
        <4>1. p \in Texts
          BY ArgumentsAre
        <4>2. 1 \in 1 .. Len(p)
          BY <3>1, SMT
        <4> QED
          BY <4>1, <4>2, SeqElement DEF Texts
      <3>3. p \notin Range(args)
        <4>1. \A j \in 1 .. d : p # <<i + j>>
          BY <1>1, <3>1, <3>2, SMT
        <4>2. p # <<i, x>>
          BY <3>1, <3>2, <1>1, SMT
        <4> QED
          BY <1>3, <4>1, <4>2
      <3> QED
        BY <1>b, <1>1, <1>2, <3>1, <3>2, <3>3, SMT
    <2>2. \A j \in 2 .. Len(words) : words[j - 1][1] < words[j][1]
      BY DEF Divided, WordsAre
    <2> QED
      BY <1>b, <2>1, <2>2 DEF WordsAre
  <1>15. \A m \in DOMAIN options' : OptionIs(m)'
    <2>1. \A m, y : y \in At(m, i) <=> y \in LettersAt(m) \/ (m = n /\ y = <<i, k + 1>>)
      <3> TAKE m, y
      <3>1. y \in At(m, i) <=> \E j \in 1 .. k + 1 : y = <<i, j>> /\ OptionsAt(i)[j] = m
        <4>1. k + 1 \in Nat /\ DOMAIN OptionsAt(i) = 1 .. k + 1
          BY <1>1, SMT DEF Ends
        <4> QED
          BY <4>1, AtIs, SMT
      <3>2. y \in LettersAt(m) <=> \E j \in 1 .. k : y = <<i, j>> /\ OptionsAt(i)[j] = m
        BY DEF LettersAt, Ends
      <3>3. \A j : j \in 1 .. k + 1 <=> j \in 1 .. k \/ j = k + 1
        BY <1>1, SMT
      <3>4. OptionsAt(i)[k + 1] = n
        BY DEF Ends
      <3> QED
        BY <3>1, <3>2, <3>3, <3>4
    <2>2. \A m : LettersAt(m)' = {}
      BY <1>b, SMT DEF LettersAt
    <2>3. \A m, y : y \in Typed(m)' <=> y \in Typed(m) \/ (m = n /\ y = <<i, k + 1>>)
      <3> TAKE m, y
      <3>1. y \in Typed(m)' <=> \E p \in Opts' : y \in At(m, p)'
        BY <2>2, TypedIsNext
      <3>2. \A p : At(m, p)' = At(m, p)
        BY <1>b, SameLine
      <3>3. y \in Typed(m) <=> (\E p \in Opts : y \in At(m, p)) \/ y \in LettersAt(m)
        BY TypedIs
      <3> QED
        BY <1>9, <2>1, <3>1, <3>2, <3>3
    <2>4. <<i, k + 1>> \notin Typed(n)
      <3>1. <<i, k + 1>> \notin LettersAt(n)
        BY <1>1, SMT DEF LettersAt
      <3>2. \A p \in Opts : <<i, k + 1>> \notin At(n, p)
        BY <1>10 DEF At
      <3> QED
        BY <3>1, <3>2, TypedIs
    <2>5. Typed(n)' = Typed(n) \cup {<<i, k + 1>>} /\ \A m : m # n => Typed(m)' = Typed(m)
      BY <2>3, SMT
    <2>6. ASSUME e + d > 0 PROVE args \notin Range(options[n].options) /\ \E p \in Opts' : GivenAt(args, n, p)
      <3>1. args \notin Range(options[n].options)
        BY <1>a, <1>1, <2>6, ArgsAreNew DEF args, Divided
      <3>2. GivenAt(args, n, i)
        <4>1. n = OptionsAt(i)[Len(OptionsAt(i))] /\ Len(args) = number_of_arguments[n]
          BY <1>a, <1>5 DEF Ends
        <4>2. Attached(i) = e
          BY <2>6 DEF Ends
        <4>3. e = 1 => args[1][1] = i /\ Len(args[1]) = 2
          <5>1. e = 1 => args[1] = <<i, x>>
            BY <1>1, <1>5, <2>6, SMT
          <5> QED
            BY <5>1, SMT
        <4>4. ASSUME NEW j \in e + 1 .. e + d PROVE args[j] = <<i + j - e>>
          <5>1. j \in 1 .. e + d /\ ~(j <= e)
            BY <1>1, SMT
          <5> QED
            BY <1>5, <5>1
        <4> QED
          BY <1>5, <4>1, <4>2, <4>3, <4>4 DEF GivenAt
      <3> QED
        BY <1>9, <3>1, <3>2
    <2>7. line' = line /\ Opts \subseteq Opts' /\ \A m \in DOMAIN options : OptionIs(m)
      BY <1>b, <1>9 DEF Divided
    <2> QED
      BY <1>a, <1>1, <2>4, <2>5, <2>6, <2>7, OptionCounted DEF args
  <1> QED
    BY <1>11, <1>12, <1>13, <1>14, <1>15 DEF Divided

\* Option n is a letter of argv[i] that takes no argument and is followed by
\* other letters.
Continues(n) ==
  /\ i <= Len(line) /\ ~escape /\ line[i].kind = "short"
  /\ n = line[i].letters[k + 1] /\ number_of_arguments[n] = 0 /\ k + 1 < Len(line[i].letters)
  /\ give(n, 1, <<i, k + 1>>) /\ k' = k + 1 /\ i' = i
  /\ UNCHANGED <<words, line, escape>>

\* Such a letter leaves the line divided up to the next letter.
LEMMA LetterGiven ==
  ASSUME Counting, CmdLineParserAssumption, ParserTypes, Divided, NEW n \in DOMAIN options, Continues(n)
  PROVE  Divided'
  <1> DEFINE args == ArgsOf(n, 1, <<i, k + 1>>)
  <1>a. number_of_arguments[n] = 0 /\ give(n, 1, <<i, k + 1>>)
    BY DEF Continues
  <1>b. k' = k + 1 /\ i' = i /\ line' = line /\ words' = words /\ escape' = escape
    BY DEF Continues
  <1>1. i \in Nat /\ i >= 1 /\ k \in Nat /\ Len(line) \in Nat /\ <<i, k + 1>> \in Texts /\ 1 \in {0, 1}
    <2>1. i \in Nat /\ i >= 1 /\ k \in Nat /\ Len(line) \in Nat
      BY SeqLength DEF ParserTypes, Divided, Place
    <2> QED
      BY <2>1, SMT DEF Texts
  <1>2. Arguments' = Arguments
    <2>1. Arguments' = Arguments \cup Range(args)
      BY <1>a, <1>1, ArgumentsGrow
    <2>2. DOMAIN args = 1 .. 0
      BY <1>a, <1>1, ArgsAre
    <2>3. Range(args) = {}
      BY <2>2, SMT DEF Range
    <2> QED
      BY <2>1, <2>3
  <1>3. DOMAIN options' = DOMAIN options
    BY <1>a, <1>1, GiveDoes
  <1>4. Whole' = Whole
    BY <1>b, <1>2 DEF Whole
  <1>5. Rest' = Rest
    BY <1>b, <1>4 DEF Rest
  <1>6. Opts' = Opts
    BY <1>b, <1>5 DEF Opts
  <1>7. Place'
    <2>1. i >= 1 /\ i <= Len(line) + 1
      BY DEF Divided, Place
    <2>2. i <= Len(line) /\ line[i].kind = "short" /\ ~escape /\ k + 1 < Len(line[i].letters)
      BY DEF Continues
    <2>3. number_of_arguments[line[i].letters[k + 1]] = 0
      BY DEF Continues
    <2>4. \A j \in 1 .. k : number_of_arguments[line[i].letters[j]] = 0
      BY <1>1, SMT DEF Divided, Place
    <2>5. \A j \in 1 .. k + 1 : j \in 1 .. k \/ j = k + 1
      BY <1>1, SMT
    <2>6. \A j \in 1 .. k + 1 : number_of_arguments[line[i].letters[j]] = 0
      BY <2>3, <2>4, <2>5
    <2> QED
      BY <1>b, <2>1, <2>2, <2>6 DEF Place
  <1>8. TakenBefore' /\ EscapeIsLast' /\ WordsAre'
    BY <1>b, <1>2, <1>4, <1>5, <1>6 DEF Divided, TakenBefore, EscapeIsLast, WordsAre
  <1>9. \A m \in DOMAIN options' : OptionIs(m)'
    <2>1. \A m, y : y \in LettersAt(m)' <=> y \in LettersAt(m) \/ (m = n /\ y = <<i, k + 1>>)
      <3> TAKE m, y
      <3>1. y \in LettersAt(m)' <=> \E j \in 1 .. k + 1 : y = <<i, j>> /\ line[i].letters[j] = m
        BY <1>b DEF LettersAt
      <3>2. y \in LettersAt(m) <=> \E j \in 1 .. k : y = <<i, j>> /\ line[i].letters[j] = m
        BY DEF LettersAt
      <3>3. \A j : j \in 1 .. k + 1 <=> j \in 1 .. k \/ j = k + 1
        BY <1>1, SMT
      <3>4. line[i].letters[k + 1] = n
        BY DEF Continues
      <3> QED
        BY <3>1, <3>2, <3>3, <3>4
    <2>2. \A m, y : y \in Typed(m)' <=> y \in Typed(m) \/ (m = n /\ y = <<i, k + 1>>)
      <3> TAKE m, y
      <3>1. y \in Typed(m)' <=> (\E p \in Opts : y \in At(m, p)') \/ y \in LettersAt(m)'
        BY <1>6, TypedIsNext
      <3>2. \A p : At(m, p)' = At(m, p)
        BY <1>b, SameLine
      <3>3. y \in Typed(m) <=> (\E p \in Opts : y \in At(m, p)) \/ y \in LettersAt(m)
        BY TypedIs
      <3> QED
        BY <2>1, <3>1, <3>2, <3>3
    <2>3. <<i, k + 1>> \notin Typed(n)
      <3>1. <<i, k + 1>> \notin LettersAt(n)
        BY <1>1, SMT DEF LettersAt
      <3>2. i \notin Opts
        BY <1>1, SMT DEF Opts, Rest
      <3>3. \A p \in Opts : <<i, k + 1>> \notin At(n, p)
        BY <3>2 DEF At
      <3> QED
        BY <3>1, <3>3, TypedIs
    <2>4. Typed(n)' = Typed(n) \cup {<<i, k + 1>>} /\ \A m : m # n => Typed(m)' = Typed(m)
      <3>1. \A y : y \in Typed(n)' <=> y \in Typed(n) \/ y = <<i, k + 1>>
        BY <2>2
      <3>2. \A m, y : m # n => (y \in Typed(m)' <=> y \in Typed(m))
        BY <2>2
      <3>3. Typed(n)' = Typed(n) \cup {<<i, k + 1>>}
        BY <3>1
      <3> QED
        BY <3>2, <3>3
    <2>5. line' = line /\ Opts \subseteq Opts' /\ \A m \in DOMAIN options : OptionIs(m)
      BY <1>b, <1>6 DEF Divided
    <2>6. ~(number_of_arguments[n] > 0)
      BY <1>a, SMT
    <2> QED
      BY <1>a, <1>1, <2>3, <2>4, <2>5, <2>6, OptionCounted
  <1> QED
    BY <1>7, <1>8, <1>9 DEF Divided

\* When nothing is given to options, their books stay as they are.
LEMMA NothingGiven ==
  ASSUME \A m \in DOMAIN options : OptionIs(m), options' = options, line' = line,
         Opts' = Opts, (k = 0 /\ k' = 0) \/ (k' = k /\ i' = i)
  PROVE  \A m \in DOMAIN options' : OptionIs(m)'
  <1> SUFFICES ASSUME NEW m \in DOMAIN options PROVE OptionIs(m)'
    OBVIOUS
  <1>1. LettersAt(m)' = LettersAt(m)
    BY SMT DEF LettersAt
  <1>2. \A p : At(m, p)' = At(m, p)
    BY SameLine
  <1>3. \A y : y \in Typed(m)' <=> y \in Typed(m)
    BY <1>1, <1>2, TypedIs, TypedIsNext, ZenonT(30)
  <1>4. Typed(m)' = Typed(m)
    BY <1>3 DEF Typed
  <1>5. \A a \in Range(options[m].options) : \E p \in Opts : GivenAt(a, m, p)'
    BY SameLine DEF OptionIs
  <1>6. OptionIs(m)
    OBVIOUS
  <1> QED
    BY <1>4, <1>5, <1>6 DEF OptionIs

\* A word is one string more that was taken.
LEMMA WordTaken ==
  ASSUME CmdLineParserAssumption, ParserTypes, Divided, argument
  PROVE  Divided'
  <1>1. i \in Nat /\ i >= 1 /\ k \in Nat /\ Len(line) \in Nat /\ words \in Seq(Texts) /\ <<i>> \in Texts
    <2>1. i \in Nat /\ i >= 1 /\ k \in Nat /\ Len(line) \in Nat /\ words \in Seq(Texts)
      BY SeqLength DEF ParserTypes, Divided, Place
    <2> QED
      BY <2>1, SMT DEF Texts
  <1>2. /\ i < Len(line) + 1 /\ (line[i].kind = "word" \/ escape)
        /\ words' = Append(words, <<i>>) /\ i' = i + 1
        /\ options' = options /\ line' = line /\ k' = k /\ escape' = escape
    BY DEF argument, Looking, IsOption, argc
  <1>3. k = 0
    BY <1>1, <1>2, SMT DEF Divided, Place
  <1>4. /\ words' \in Seq(Texts) /\ Len(words') = Len(words) + 1 /\ Len(words) \in Nat
        /\ \A j \in 1 .. Len(words) : words'[j] = words[j]
        /\ words'[Len(words) + 1] = <<i>>
        /\ DOMAIN words' = 1 .. Len(words) + 1 /\ DOMAIN words = 1 .. Len(words)
    <2>1. /\ Append(words, <<i>>) \in Seq(Texts) /\ Len(Append(words, <<i>>)) = Len(words) + 1
          /\ \A j \in 1 .. Len(words) : Append(words, <<i>>)[j] = words[j]
          /\ Append(words, <<i>>)[Len(words) + 1] = <<i>>
      BY <1>1, SeqAppend, SMT
    <2>2. Len(words) \in Nat /\ DOMAIN words = 1 .. Len(words)
      BY <1>1, SeqLength
    <2>3. DOMAIN Append(words, <<i>>) = 1 .. Len(words) + 1
      BY <2>1, SeqLength
    <2> QED
      BY <1>2, <2>1, <2>2, <2>3
  <1>5. \A p : p \in Range(words') <=> p \in Range(words) \/ p = <<i>>
    <2>1. \A j : j \in 1 .. Len(words) + 1 <=> j \in 1 .. Len(words) \/ j = Len(words) + 1
      BY <1>4, SMT
    <2> QED
      BY <1>4, <2>1 DEF Range
  <1>6. Arguments' = Arguments
    BY <1>2 DEF Arguments
  <1>7. \A p : p \in Whole' <=> p \in Whole \/ p = i
    <2> TAKE p
    <2>1. p \in Whole' <=> \E q \in Arguments \cup Range(words') : Len(q) = 1 /\ q[1] = p
      BY <1>6 DEF Whole
    <2>2. p \in Whole <=> \E q \in Arguments \cup Range(words) : Len(q) = 1 /\ q[1] = p
      BY WholeIs
    <2>3. Len(<<i>>) = 1 /\ <<i>>[1] = i
      OBVIOUS
    <2> QED
      BY <1>5, <2>1, <2>2, <2>3
  <1>8. Whole \subseteq 1 .. i - 1 /\ \A q \in Arguments : q[1] \in Nat /\ q[1] < i
    BY DEF Divided, TakenBefore
  <1>9. Rest' = Rest
    <2>1. Rest' = (1 .. i' - 1) \ Whole'
      BY DEF Rest
    <2>2. \A p : p \in 1 .. i' - 1 <=> p \in 1 .. i - 1 \/ p = i
      BY <1>1, <1>2, SMT
    <2>3. i \notin 1 .. i - 1
      BY <1>1, SMT
    <2> QED
      BY <1>7, <2>1, <2>2, <2>3 DEF Rest
  <1>10. Opts' = Opts
    BY <1>2, <1>9 DEF Opts
  <1>11. Place'
    BY <1>1, <1>2, <1>3, SMT DEF Place
  <1>12. TakenBefore'
    <2>1. \A q \in Arguments' : q[1] \in Nat /\ q[1] < i'
      BY <1>1, <1>2, <1>6, <1>8, SMT
    <2>2. \A p : p \in 1 .. i - 1 \/ p = i => p \in 1 .. i' - 1
      BY <1>1, <1>2, SMT
    <2> QED
      BY <1>7, <1>8, <2>1, <2>2 DEF TakenBefore
  <1>13. EscapeIsLast'
    BY <1>2, <1>9, <1>10 DEF EscapeIsLast, Divided
  <1>14. WordsAre'
    <2>1. ASSUME NEW p \in Range(words)
          PROVE  /\ Len(p) = 1 /\ p[1] < i /\ p \notin Arguments /\ p[1] \in Nat
                 /\ line[p[1]].kind = "word" \/ \E q \in Rest \ Opts : q < p[1]
      <3>1. /\ Len(p) = 1 /\ p[1] < i /\ p \notin Arguments
            /\ line[p[1]].kind = "word" \/ \E q \in Rest \ Opts : q < p[1]
        BY DEF Divided, WordsAre
      <3>2. p \in Seq(Nat) /\ 1 \in 1 .. Len(p)
        BY <3>1, ArgumentsAre, SMT DEF Texts
      <3>3. p[1] \in Nat
        BY <3>2, SeqElement
      <3> QED
        BY <3>1, <3>3
    <2>2. <<i>> \notin Arguments
      BY <1>1, <1>8, SMT
    <2>3. line[i].kind = "word" \/ \E q \in Rest \ Opts : q < i
      <3>1. CASE escape
        <4>1. PICK q \in Rest : q \notin Opts
          BY <3>1 DEF Divided, EscapeIsLast
        <4>2. q < i
          BY <1>1, SMT DEF Rest
        <4> QED
          BY <4>1, <4>2
      <3> QED
        BY <1>2, <3>1
    <2>4. ASSUME NEW p \in Range(words')
          PROVE  /\ Len(p) = 1 /\ p[1] < i' /\ p \notin Arguments'
                 /\ line[p[1]].kind = "word" \/ \E q \in Rest' \ Opts' : q < p[1]
      <3>1. CASE p \in Range(words)
        BY <1>1, <1>2, <1>6, <1>9, <1>10, <2>1, <3>1, SMT
      <3>2. CASE p = <<i>>
        BY <1>1, <1>2, <1>6, <1>9, <1>10, <2>2, <2>3, <3>2, SMT
      <3> QED
        BY <1>5, <3>1, <3>2
    <2>5. ASSUME NEW j \in 2 .. Len(words') PROVE words'[j - 1][1] < words'[j][1]
      <3>1. CASE j \in 2 .. Len(words)
        <4>1. words[j - 1][1] < words[j][1]
          BY <3>1 DEF Divided, WordsAre
        <4>2. j \in 1 .. Len(words) /\ j - 1 \in 1 .. Len(words)
          BY <1>4, <3>1, SMT
        <4> QED
          BY <1>4, <4>1, <4>2
      <3>2. CASE j = Len(words) + 1
        <4>1. j - 1 \in 1 .. Len(words)
          BY <1>4, <3>2, SMT
        <4>2. words[j - 1] \in Range(words)
          BY <1>4, <4>1 DEF Range
        <4>3. words'[j - 1] = words[j - 1] /\ words'[j] = <<i>>
          BY <1>4, <3>2, <4>1
        <4> QED
          BY <2>1, <4>2, <4>3, SMT
      <3> QED
        BY <1>4, <3>1, <3>2, SMT
    <2> QED
      BY <1>2, <2>4, <2>5 DEF WordsAre
  <1>15. \A m \in DOMAIN options' : OptionIs(m)'
    BY <1>2, <1>3, <1>10, NothingGiven DEF Divided
  <1> QED
    BY <1>11, <1>12, <1>13, <1>14, <1>15 DEF Divided

\* The first -- is neither an option nor taken, and the last such string.
LEMMA EscapeTaken ==
  ASSUME CmdLineParserAssumption, ParserTypes, Divided, escape_option
  PROVE  Divided'
  <1>1. i \in Nat /\ i >= 1 /\ k \in Nat /\ Len(line) \in Nat
    BY SeqLength DEF ParserTypes, Divided, Place
  <1>2. /\ i < Len(line) + 1 /\ line[i].kind = "escape" /\ ~escape
        /\ escape' = TRUE /\ i' = i + 1
        /\ options' = options /\ words' = words /\ line' = line /\ k' = k
    BY DEF escape_option, Looking, IsOption, argc
  <1>3. k = 0
    BY <1>1, <1>2, SMT DEF Divided, Place
  <1>4. Arguments' = Arguments /\ Whole' = Whole
    BY <1>2 DEF Arguments, Whole
  <1>5. Whole \subseteq 1 .. i - 1 /\ \A q \in Arguments : q[1] \in Nat /\ q[1] < i
    BY DEF Divided, TakenBefore
  <1>6. \A p : p \in 1 .. i' - 1 <=> p \in 1 .. i - 1 \/ p = i
    BY <1>1, <1>2, SMT
  <1>7. i \notin 1 .. i - 1
    BY <1>1, SMT
  <1>8. Rest' = Rest \cup {i}
    BY <1>4, <1>5, <1>6, <1>7 DEF Rest
  <1>9. Opts' = Opts
    BY <1>2, <1>8 DEF Opts
  <1>10. Rest = Opts /\ i \notin Opts
    <2>1. Rest = Opts
      BY <1>2 DEF Divided, EscapeIsLast, Opts
    <2> QED
      BY <2>1, <1>7 DEF Rest
  <1>11. Place'
    BY <1>1, <1>2, <1>3, SMT DEF Place
  <1>12. TakenBefore'
    <2>1. \A q \in Arguments' : q[1] \in Nat /\ q[1] < i'
      BY <1>1, <1>2, <1>4, <1>5, SMT
    <2> QED
      BY <1>4, <1>5, <1>6, <2>1 DEF TakenBefore
  <1>13. EscapeIsLast'
    <2>1. Rest' \ Opts' = {i}
      BY <1>8, <1>9, <1>10
    <2>2. \A q \in Rest' : q <= i
      BY <1>1, <1>8, SMT DEF Rest
    <2>3. \A p \in Rest' \ Opts' : line[p].kind = "escape" /\ \A q \in Rest' : q <= p
      BY <1>2, <2>1, <2>2
    <2>4. \E p \in Rest' : p \notin Opts'
      BY <2>1
    <2> QED
      BY <1>2, <2>3, <2>4 DEF EscapeIsLast
  <1>14. WordsAre'
    <2>1. ASSUME NEW p \in Range(words)
          PROVE  Len(p) = 1 /\ p[1] < i' /\ p \notin Arguments' /\ line[p[1]].kind = "word"
      <3>1. Len(p) = 1 /\ p[1] < i /\ p \notin Arguments /\ line[p[1]].kind = "word"
        BY <1>10 DEF Divided, WordsAre
      <3>2. p \in Seq(Nat) /\ 1 \in 1 .. Len(p)
        BY <3>1, ArgumentsAre, SMT DEF Texts
      <3>3. p[1] \in Nat
        BY <3>2, SeqElement
      <3> QED
        BY <1>1, <1>2, <1>4, <3>1, <3>3, SMT
    <2>2. \A j \in 2 .. Len(words) : words[j - 1][1] < words[j][1]
      BY DEF Divided, WordsAre
    <2> QED
      BY <1>2, <2>1, <2>2 DEF WordsAre
  <1>15. \A m \in DOMAIN options' : OptionIs(m)'
    BY <1>2, <1>3, <1>9, NothingGiven DEF Divided
  <1> QED
    BY <1>11, <1>12, <1>13, <1>14, <1>15 DEF Divided

-----------------------------------------------------------------------------
(* The calls *)

\* Before the first string nothing was typed, given or taken.
LEMMA StartDivided ==
  ASSUME Counting, \A n \in DOMAIN options' : options'[n] = Fresh,
         words' = <<>>, i' = 1, k' = 0, escape' = FALSE, line' \in Seq(Strings)
  PROVE  Divided'
  <1>1. \A n \in DOMAIN options' : options'[n].options = <<>> /\ options'[n].num_present = 0
    BY SMT DEF Fresh
  <1>2. Range(<<>>) = {}
    BY SMT DEF Range
  <1>3. Arguments' = {}
    BY <1>1, <1>2 DEF Arguments
  <1>4. Whole' = {}
    BY <1>2, <1>3 DEF Whole
  <1>5. Rest' = {} /\ Opts' = {}
    BY SMT DEF Rest, Opts
  <1>6. Len(line') \in Nat
    BY SeqLength
  <1>7. Place'
    BY <1>6, SMT DEF Place
  <1>8. TakenBefore' /\ EscapeIsLast'
    BY <1>3, <1>4, <1>5 DEF TakenBefore, EscapeIsLast
  <1>9. WordsAre'
    BY <1>2, SMT DEF WordsAre
  <1>10. ASSUME NEW n \in DOMAIN options' PROVE OptionIs(n)'
    <2>1. LettersAt(n)' = {}
      BY SMT DEF LettersAt
    <2>2. Typed(n)' = {}
      <3>1. \A y : y \notin Typed(n)'
        BY <1>5, <2>1, TypedIsNext
      <3> QED
        BY <3>1 DEF Typed
    <2>3. IsFiniteSet(Typed(n)') /\ Cardinality(Typed(n)') = 0
      BY <2>2 DEF Counting
    <2>4. IsInjective(<<>>) /\ Len(<<>>) = 0
      BY SMT DEF IsInjective
    <2> QED
      BY <1>1, <1>2, <1>10, <2>3, <2>4 DEF OptionIs
  <1> QED
    BY <1>7, <1>8, <1>9, <1>10 DEF Divided

\* An option that was not given has its type.
LEMMA FreshIsGiven == Fresh \in Given
  <1>1. <<>> \in Seq(Seq(Texts))
    BY SeqEmpty
  <1> QED
    BY <1>1 DEF Fresh, Given

\* What is thrown leaves all options cleared, and says what is so.
LEMMA ThrowKeeps ==
  ASSUME ParserTypes, NEW type, NEW n, throw(type, n),
         type = "ETOO_FEW_ARGS" => Len(line) - i + Attached(i) < number_of_arguments[n]
  PROVE  ParserInv'
  <1>1. /\ have_parsed_line' = FALSE /\ options' = Cleared /\ pc' = "user"
        /\ error'.type = type /\ error'.name = n /\ error'.at = i
        /\ words' = words /\ line' = line /\ i' = i /\ k' = k /\ escape' = escape /\ typed' = typed
    BY DEF throw
  <1>2. DOMAIN options' = DOMAIN options /\ \A m \in DOMAIN options' : options'[m] = Fresh
    BY <1>1 DEF Cleared
  <1>3. ParserTypes'
    BY <1>1, <1>2, FreshIsGiven DEF ParserTypes
  <1>4. Attached(i)' = Attached(i)
    BY <1>1 DEF Attached, OptionsAt
  <1>5. error'.type = "ETOO_FEW_ARGS" =>
          Len(line') - error'.at + Attached(error.at)' < number_of_arguments[error'.name]
    <2>1. Attached(error.at)' = Attached(i)
      BY <1>1 DEF Attached, OptionsAt
    <2> QED
      BY <1>1, <2>1
  <1> QED
    BY <1>1, <1>2, <1>3, <1>5 DEF ParserInv

\* Giving an option keeps the types.
LEMMA GiveTypes ==
  ASSUME CmdLineParserAssumption, ParserTypes, NEW n \in DOMAIN options,
         NEW e \in {0, 1}, NEW text \in Texts, give(n, e, text), i' \in Nat, k' \in Nat,
         UNCHANGED <<words, have_parsed_line, line, escape, pc, typed>>
  PROVE  ParserTypes'
  <1>1. DOMAIN options' = DOMAIN options /\ \A m \in DOMAIN options : options'[m] \in Given
    BY GiveDoes
  <1> QED
    BY <1>1 DEF ParserTypes

\* --name, with or without text after it.
LEMMA LongOptionKeeps ==
  ASSUME Counting, CmdLineParserAssumption, ParserInv, long_option
  PROVE  ParserInv'
  <1> DEFINE n == line[i].name
             given == IF line[i].after = "" THEN 0 ELSE 1
             e == IF line[i].after = "=text" THEN 1 ELSE 0
             need == number_of_arguments[n]
  <1>1. ParserTypes /\ Divided /\ pc = "parse"
    BY DEF ParserInv, long_option, Looking
  <1>2. i \in Nat /\ i >= 1 /\ i <= Len(line) /\ k \in Nat /\ Len(line) \in Nat
    <2>1. i \in Nat /\ i >= 1 /\ k \in Nat /\ Len(line) \in Nat
      BY <1>1, SeqLength DEF ParserTypes, Divided, Place
    <2>2. i < Len(line) + 1
      BY DEF long_option, Looking, argc
    <2> QED
      BY <2>1, <2>2, SMT
  <1>3. line[i].kind = "long" /\ ~escape
    BY DEF long_option, IsOption
  <1>4. line[i].after \in {"", "=", "=text"}
    <2>1. i \in 1 .. Len(line)
      BY <1>2, SMT
    <2> QED
      BY <1>1, <1>3, <2>1, StringAt
  <1>5. /\ Len(OptionsAt(i)) = 1 /\ DOMAIN OptionsAt(i) = {1} /\ OptionsAt(i)[1] = n
        /\ Attached(i) = e
    BY <1>3, LongOptionAt
  <1>6. k = 0
    BY <1>1, <1>2, <1>3, SMT DEF Divided, Place
  <1>7. \/ line[i].after # "=" /\ given = 0 /\ e = 0
        \/ line[i].after = "=" /\ given = 1 /\ e = 0
        \/ line[i].after # "=" /\ given = 1 /\ e = 1
    <2>1. CASE line[i].after = ""
      BY <2>1
    <2>2. CASE line[i].after = "="
      BY <2>2
    <2>3. CASE line[i].after = "=text"
      BY <2>3
    <2> QED
      BY <1>4, <2>1, <2>2, <2>3
  <1>8. CASE n \notin DOMAIN options
    <2>1. throw("EINVALID_OPTION", n)
      BY <1>8 DEF long_option
    <2> QED
      BY <1>1, <2>1, ThrowKeeps
  <1>9. CASE n \in DOMAIN options
    <2>1. need \in Nat
      BY <1>1, <1>9, NeedIsNat
    <2>2. CASE argc + given <= need + i \/ (line[i].after = "=" /\ argc = need + i)
      <3>1. throw("ETOO_FEW_ARGS", n)
        BY <1>9, <2>2 DEF long_option
      <3>2. Len(line) - i + Attached(i) < number_of_arguments[n]
        <4>1. e <= given /\ e \in {0, 1} /\ given \in {0, 1} /\ (line[i].after = "=" => e = 0)
          <5> HIDE DEF e, given
          <5> QED
            BY <1>7, SMT
        <4> HIDE DEF e, given, need
        <4>2. Len(line) - i + e < need
          BY <1>2, <2>1, <2>2, <4>1, SMT DEF argc
        <4> QED
          BY <1>5, <4>2 DEF need
      <3> QED
        BY <1>1, <3>1, <3>2, ThrowKeeps
    <2>3. CASE /\ ~(argc + given <= need + i) /\ ~(line[i].after = "=" /\ argc = need + i)
               /\ e = 1 /\ need = 0
      <3>1. throw("ETOO_MANY_ARGS", n)
        BY <1>9, <2>3, ZenonT(30) DEF long_option
      <3> QED
        BY <1>1, <3>1, ThrowKeeps
    <2>4. CASE /\ ~(argc + given <= need + i) /\ ~(line[i].after = "=" /\ argc = need + i)
               /\ ~(e = 1 /\ need = 0)
      <3>1. /\ give(n, e, <<i, 0>>) /\ i' = i + need - e + 1
            /\ UNCHANGED <<words, have_parsed_line, line, k, escape, pc, error, typed>>
        BY <1>9, <2>4 DEF long_option
      <3>2. e \in {0, 1} /\ given \in {0, 1} /\ (given = 1 /\ e = 0 => line[i].after = "=")
            /\ (line[i].after = "=" => given = 1 /\ e = 0) /\ e <= given
        <4> HIDE DEF e, given
        <4> QED
          BY <1>7, SMT
      <3> HIDE DEF e, given, need
      <3>3. need - e \in Nat /\ need = e + (need - e) /\ i' = i + 1 + (need - e) /\ i' <= Len(line) + 1
        <4>1. ~(Len(line) + 1 + given <= need + i) /\ ~(line[i].after = "=" /\ Len(line) + 1 = need + i)
          BY <2>4 DEF argc
        <4>2. i' = i + need - e + 1 /\ ~(e = 1 /\ need = 0)
          BY <2>4, <3>1
        <4>3. CASE line[i].after # "=" /\ given = 0 /\ e = 0
          BY <1>2, <2>1, <4>1, <4>2, <4>3, SMT
        <4>4. CASE line[i].after = "=" /\ given = 1 /\ e = 0
          BY <1>2, <2>1, <4>1, <4>2, <4>4, SMT
        <4>5. CASE line[i].after # "=" /\ given = 1 /\ e = 1
          BY <1>2, <2>1, <4>1, <4>2, <4>5, SMT
        <4> QED
          BY <1>7, <4>3, <4>4, <4>5
      <3>4. Ends(n, e, need - e, 0)
        <4>1. /\ i <= Len(line) /\ ~escape /\ line[i].kind \in {"long", "short"}
              /\ give(n, e, <<i, 0>>) /\ k' = 0 /\ UNCHANGED <<words, line, escape>>
          BY <1>2, <1>3, <1>6, <3>1
        <4>2. /\ Len(OptionsAt(i)) = k + 1 /\ DOMAIN OptionsAt(i) = 1 .. k + 1
              /\ OptionsAt(i)[k + 1] = n /\ Attached(i) = e
          <5>1. 1 .. 0 + 1 = {1} /\ 0 + 1 = 1
            BY SMT
          <5> QED
            BY <1>5, <1>6, <5>1
        <4>3. \A j \in 1 .. k : OptionsAt(i)[j] = line[i].letters[j]
          BY <1>6, SMT
        <4>4. number_of_arguments[n] = e + (need - e) /\ i' = i + 1 + (need - e) /\ i' <= Len(line) + 1
          BY <3>3 DEF need
        <4> QED
          BY <4>1, <4>2, <4>3, <4>4 DEF Ends
      <3>5. Divided'
        BY <1>1, <1>9, <3>2, <3>3, <3>4, OptionGiven
      <3>6. ParserTypes'
        <4>1. <<i, 0>> \in Texts
          BY <1>2, SMT DEF Texts
        <4>2. i' \in Nat /\ k' \in Nat
          BY <1>2, <3>1, <3>3, SMT
        <4> QED
          BY <1>1, <1>9, <3>1, <3>2, <4>1, <4>2, GiveTypes
      <3> QED
        BY <1>1, <3>1, <3>5, <3>6 DEF ParserInv
    <2> QED
      BY <2>2, <2>3, <2>4
  <1> QED
    BY <1>8, <1>9

\* One letter.
LEMMA ShortOptionKeeps ==
  ASSUME Counting, CmdLineParserAssumption, ParserInv, short_option
  PROVE  ParserInv'
  <1> DEFINE letters == line[i].letters
             n == letters[k + 1]
             delta == IF Len(letters) # k + 1 THEN 1 ELSE 0
             need == number_of_arguments[n]
  <1>1. ParserTypes /\ Divided /\ pc = "parse"
    BY DEF ParserInv, short_option, Looking
  <1>2. i \in Nat /\ i >= 1 /\ i <= Len(line) /\ k \in Nat /\ Len(line) \in Nat /\ i \in 1 .. Len(line)
    <2>1. i \in Nat /\ i >= 1 /\ k \in Nat /\ Len(line) \in Nat
      BY <1>1, SeqLength DEF ParserTypes, Divided, Place
    <2>2. i < Len(line) + 1
      BY DEF short_option, Looking, argc
    <2> QED
      BY <2>1, <2>2, SMT
  <1>3. line[i].kind = "short" /\ ~escape
    BY DEF short_option, IsOption
  <1>4. Len(letters) \in Nat /\ k < Len(letters)
    <2>1. Len(letters) \in Nat /\ Len(letters) > 0
      BY <1>1, <1>2, <1>3, StringAt
    <2>2. k > 0 => k < Len(letters)
      BY <1>1 DEF Divided, Place
    <2> QED
      BY <1>2, <2>1, <2>2, SMT
  <1>5. \A j \in 1 .. k : number_of_arguments[letters[j]] = 0
    BY <1>1, <1>2, SMT DEF Divided, Place
  <1>6. delta \in {0, 1} /\ (delta = 0 <=> Len(letters) = k + 1)
    BY SMT
  <1>7. ASSUME need > 0 \/ (need = 0 /\ delta = 0)
        PROVE  /\ Len(OptionsAt(i)) = k + 1 /\ DOMAIN OptionsAt(i) = 1 .. k + 1
               /\ \A j \in 1 .. k + 1 : OptionsAt(i)[j] = letters[j]
               /\ Attached(i) = delta
    <2>1. need > 0 \/ (k + 1 = Len(letters) /\ need = 0)
      BY <1>6, <1>7
    <2> QED
      BY <1>1, <1>2, <1>3, <1>4, <1>5, <2>1, ShortOptionAt
  <1>8. CASE n \notin DOMAIN options
    <2>1. throw("EINVALID_OPTION", n)
      BY <1>8 DEF short_option
    <2> QED
      BY <1>1, <2>1, ThrowKeeps
  <1>9. CASE n \in DOMAIN options
    <2>1. need \in Nat
      BY <1>1, <1>9, NeedIsNat
    <2>2. CASE argc + delta <= need + i
      <3>1. throw("ETOO_FEW_ARGS", n)
        BY <1>9, <2>2 DEF short_option
      <3>2. need > 0 /\ Len(line) - i + delta < need
        <4> HIDE DEF need, delta
        <4> QED
          BY <1>2, <1>6, <2>1, <2>2, SMT DEF argc
      <3>3. Attached(i) = delta
        BY <1>7, <3>2
      <3>4. Len(line) - i + Attached(i) < number_of_arguments[n]
        BY <3>2, <3>3
      <3> HIDE DEF n
      <3> QED
        BY <1>1, <3>1, <3>4, ThrowKeeps
    <2>3. CASE ~(argc + delta <= need + i)
      <3>1. /\ give(n, delta, <<i, k + 1>>)
            /\ IF need = 0 /\ delta = 1 THEN k' = k + 1 /\ i' = i
               ELSE k' = 0 /\ i' = i + 1 + (IF need = 0 THEN 0 ELSE need - delta)
            /\ UNCHANGED <<words, have_parsed_line, line, escape, pc, error, typed>>
        BY <1>9, <2>3 DEF short_option
      <3>2. <<i, k + 1>> \in Texts
        BY <1>2, SMT DEF Texts
      <3>3. CASE need = 0 /\ delta = 1
        <4>1. k' = k + 1 /\ i' = i /\ give(n, 1, <<i, k + 1>>)
          BY <3>1, <3>3
        <4>2. k + 1 < Len(letters)
          BY <1>2, <1>4, <1>6, <3>3, SMT
        <4>3. Continues(n)
          BY <1>2, <1>3, <3>1, <3>3, <4>1, <4>2 DEF Continues
        <4>4. Divided'
          BY <1>1, <1>9, <4>3, LetterGiven
        <4>5. i' \in Nat /\ k' \in Nat /\ 1 \in {0, 1}
          BY <1>2, <4>1, SMT
        <4>6. ParserTypes'
          BY <1>1, <1>9, <3>1, <3>2, <4>1, <4>5, GiveTypes
        <4> QED
          BY <1>1, <3>1, <4>4, <4>6 DEF ParserInv
      <3>4. CASE ~(need = 0 /\ delta = 1)
        <4>1. need > 0 \/ (need = 0 /\ delta = 0)
          BY <1>6, <2>1, <3>4, SMT
        <4>2. /\ Len(OptionsAt(i)) = k + 1 /\ DOMAIN OptionsAt(i) = 1 .. k + 1
              /\ \A j \in 1 .. k + 1 : OptionsAt(i)[j] = letters[j]
              /\ Attached(i) = delta
          BY <1>7, <4>1
        <4>3. OptionsAt(i)[k + 1] = n /\ \A j \in 1 .. k : OptionsAt(i)[j] = letters[j]
          BY <1>2, <4>2, SMT
        <4>4. k' = 0 /\ i' = i + 1 + (IF need = 0 THEN 0 ELSE need - delta)
          BY <3>1, <3>4
        <4>5. need - delta \in Nat /\ need = delta + (need - delta) /\ i' = i + 1 + (need - delta)
              /\ i' <= Len(line) + 1
          <5> HIDE DEF need, delta
          <5> QED
            BY <1>2, <1>6, <2>1, <2>3, <4>1, <4>4, SMT DEF argc
        <4>6. Ends(n, delta, need - delta, k + 1)
          <5>1. number_of_arguments[n] = delta + (need - delta)
            BY <4>5
          <5>2. line[i].kind \in {"long", "short"}
            BY <1>3
          <5> HIDE DEF n, delta, need
          <5> QED
            BY <1>2, <1>3, <3>1, <4>2, <4>3, <4>4, <4>5, <5>1, <5>2 DEF Ends, letters
        <4>7. k + 1 \in Nat
          BY <1>2, SMT
        <4>8. Divided'
          <5> HIDE DEF n, delta, need
          <5> QED
            BY <1>1, <1>6, <1>9, <4>5, <4>6, <4>7, OptionGiven, ZenonT(30)
        <4>9. i' \in Nat /\ k' \in Nat
          BY <1>2, <4>4, <4>5, SMT
        <4>10. ParserTypes'
          <5> HIDE DEF n, delta, need
          <5> QED
            BY <1>1, <1>6, <1>9, <3>1, <3>2, <4>9, GiveTypes
        <4> QED
          BY <1>1, <3>1, <4>8, <4>10 DEF ParserInv
      <3> QED
        BY <3>3, <3>4
    <2> QED
      BY <2>2, <2>3
  <1> QED
    BY <1>8, <1>9

\* Every call and every step of parse keeps the invariant.
LEMMA ParserStep ==
  ASSUME Counting, CmdLineParserAssumption, ParserInv, [Next]_vars
  PROVE  ParserInv'
  <1>1. ParserTypes
    BY DEF ParserInv
  <1>2. ASSUME NEW n \in Names, add_option(n) PROVE ParserInv'
    <2>1. /\ pc = "user" /\ ~have_parsed_line /\ pc' = "user" /\ have_parsed_line' = have_parsed_line
          /\ options' = [o \in DOMAIN options \cup {n} |-> IF o = n THEN Fresh ELSE options[o]]
          /\ line' = <<>> /\ i' = 0 /\ k' = 0 /\ escape' = FALSE /\ words' = words /\ typed' = typed
      BY <1>2 DEF add_option, Forgotten
    <2>2. /\ DOMAIN options' = DOMAIN options \cup {n}
          /\ \A m \in DOMAIN options' : options'[m] = Fresh
      BY <2>1 DEF ParserInv
    <2>3. <<>> \in Seq(Strings)
      BY SeqEmpty
    <2>4. ParserTypes'
      BY <1>1, <2>1, <2>2, <2>3, FreshIsGiven DEF ParserTypes
    <2> QED
      BY <2>1, <2>2, <2>4 DEF ParserInv
  <1>3. ASSUME clear PROVE ParserInv'
    <2>1. /\ pc = "user" /\ pc' = "user" /\ have_parsed_line' = FALSE /\ DOMAIN options' = {}
          /\ line' = <<>> /\ i' = 0 /\ k' = 0 /\ escape' = FALSE /\ words' = <<>> /\ typed' = typed
      BY <1>3 DEF clear, Forgotten
    <2>2. <<>> \in Seq(Strings) /\ <<>> \in Seq(Texts)
      BY SeqEmpty
    <2>3. ParserTypes'
      BY <1>1, <2>1, <2>2 DEF ParserTypes
    <2> QED
      BY <2>1, <2>3 DEF ParserInv
  <1>4. ASSUME NEW l \in Lines, parse(l) PROVE ParserInv'
    <2>1. l \in Seq(Strings) /\ Len(l) \in Nat
      <3>1. PICK m \in 0 .. MaxStrings - typed : l \in [1 .. m -> Strings]
        BY DEF Lines
      <3>2. m \in Nat
        <4>1. MaxStrings \in Nat /\ typed \in Nat
          BY <1>1 DEF CmdLineParserAssumption, ParserTypes
        <4> QED
          BY <4>1, SMT
      <3> QED
        BY <3>1, <3>2, SMT
    <2>2. /\ pc = "user" /\ pc' = "parse" /\ words' = <<>> /\ line' = l /\ i' = 1 /\ k' = 0 /\ escape' = FALSE
          /\ options' = (IF have_parsed_line THEN Cleared ELSE options)
          /\ have_parsed_line' = have_parsed_line /\ typed' = typed + Len(l)
      BY <1>4 DEF parse
    <2>3. DOMAIN options' = DOMAIN options /\ \A m \in DOMAIN options' : options'[m] = Fresh
      <3>1. CASE have_parsed_line
        BY <2>2, <3>1 DEF Cleared
      <3>2. CASE ~have_parsed_line
        BY <2>2, <3>2 DEF ParserInv
      <3> QED
        BY <3>1, <3>2
    <2>4. Divided'
      BY <2>1, <2>2, <2>3, StartDivided
    <2>5. <<>> \in Seq(Texts)
      BY SeqEmpty
    <2>6. ParserTypes'
      <3>1. DOMAIN options' \subseteq Names /\ \A m \in DOMAIN options' : options'[m] \in Given
        BY <1>1, <2>3, FreshIsGiven DEF ParserTypes
      <3>2. typed' \in Nat /\ have_parsed_line' \in BOOLEAN
        BY <1>1, <2>1, <2>2, SMT DEF ParserTypes
      <3> QED
        BY <2>1, <2>2, <2>5, <3>1, <3>2 DEF ParserTypes
    <2> QED
      BY <2>2, <2>4, <2>6 DEF ParserInv
  <1>5. ASSUME escape_option PROVE ParserInv'
    <2>1. Divided'
      BY <1>1, <1>5, EscapeTaken DEF ParserInv, escape_option, Looking
    <2>2. /\ pc = "parse" /\ pc' = pc /\ have_parsed_line' = have_parsed_line /\ i' = i + 1 /\ escape' = TRUE
          /\ options' = options /\ words' = words /\ line' = line /\ k' = k /\ typed' = typed
      BY <1>5 DEF escape_option, Looking
    <2>3. ParserTypes'
      BY <1>1, <2>2, SMT DEF ParserTypes
    <2> QED
      BY <2>1, <2>2, <2>3 DEF ParserInv
  <1>6. ASSUME dash_option PROVE ParserInv'
    <2>1. throw("none", "-")
      BY <1>6 DEF dash_option
    <2> QED
      BY <1>1, <2>1, ThrowKeeps
  <1>7. ASSUME argument PROVE ParserInv'
    <2>1. Divided'
      BY <1>1, <1>7, WordTaken DEF ParserInv, argument, Looking
    <2>2. /\ pc = "parse" /\ pc' = pc /\ have_parsed_line' = have_parsed_line /\ i' = i + 1 /\ escape' = escape
          /\ options' = options /\ words' = Append(words, <<i>>) /\ line' = line /\ k' = k /\ typed' = typed
      BY <1>7 DEF argument, Looking
    <2>3. i \in Nat /\ words \in Seq(Texts) /\ <<i>> \in Texts
      BY <1>1, SMT DEF ParserTypes, Texts
    <2>4. words' \in Seq(Texts)
      BY <2>2, <2>3, SeqAppend
    <2>5. ParserTypes'
      BY <1>1, <2>2, <2>4, SMT DEF ParserTypes
    <2> QED
      BY <2>1, <2>2, <2>5 DEF ParserInv
  <1>8. ASSUME parsed PROVE ParserInv'
    <2>1. /\ pc = "parse" /\ pc' = "user" /\ have_parsed_line' = TRUE /\ i >= Len(line) + 1
          /\ UNCHANGED <<options, words, line, i, k, escape, error, typed>>
      BY <1>8 DEF parsed, argc
    <2>2. Divided
      BY <2>1 DEF ParserInv
    <2>3. i = argc /\ k = 0
      <3>1. i \in Nat /\ k \in Nat /\ Len(line) \in Nat
        BY <1>1, SeqLength DEF ParserTypes
      <3> QED
        BY <2>1, <2>2, <3>1, SMT DEF Divided, Place, argc
    <2>4. ParserTypes'
      BY <1>1, <2>1 DEF ParserTypes
    <2>5. Divided' /\ i' = argc' /\ k' = 0
      <3>1. Arguments' = Arguments
        BY <2>1 DEF Arguments
      <3>2. Whole' = Whole
        BY <2>1, <3>1 DEF Whole
      <3>3. Rest' = Rest
        BY <2>1, <3>2 DEF Rest
      <3>4. Opts' = Opts
        BY <2>1, <3>3 DEF Opts
      <3>5. \A m \in DOMAIN options' : OptionIs(m)'
        BY <2>1, <2>2, <2>3, <3>4, NothingGiven DEF Divided
      <3>6. Place' /\ TakenBefore' /\ EscapeIsLast' /\ WordsAre'
        BY <2>1, <2>2, <3>1, <3>2, <3>3, <3>4 DEF Divided, Place, TakenBefore, EscapeIsLast, WordsAre
      <3> QED
        BY <2>1, <2>3, <3>5, <3>6 DEF Divided, argc
    <2> QED
      BY <2>1, <2>4, <2>5 DEF ParserInv
  <1>9. ASSUME UNCHANGED vars PROVE ParserInv'
    <2>1. UNCHANGED <<options, words, have_parsed_line, line, i, k, escape, pc, error, typed>>
      BY <1>9 DEF vars
    <2>2. ParserTypes'
      BY <1>1, <2>1 DEF ParserTypes
    <2>3. Divided => Divided'
      <3>1. Arguments' = Arguments
        BY <2>1 DEF Arguments
      <3>2. Whole' = Whole
        BY <2>1, <3>1 DEF Whole
      <3>3. Rest' = Rest
        BY <2>1, <3>2 DEF Rest
      <3>4. Opts' = Opts
        BY <2>1, <3>3 DEF Opts
      <3>5. (\A m \in DOMAIN options : OptionIs(m)) => \A m \in DOMAIN options' : OptionIs(m)'
        BY <2>1, <3>4, NothingGiven
      <3>6. Place /\ TakenBefore /\ EscapeIsLast /\ WordsAre => Place' /\ TakenBefore' /\ EscapeIsLast' /\ WordsAre'
        BY <2>1, <3>1, <3>2, <3>3, <3>4 DEF Place, TakenBefore, EscapeIsLast, WordsAre
      <3> QED
        BY <3>5, <3>6 DEF Divided
    <2>4. Attached(error.at)' = Attached(error.at)
      BY <2>1 DEF Attached, OptionsAt
    <2> QED
      BY <2>1, <2>2, <2>3, <2>4 DEF ParserInv, argc
  <1> QED
    BY <1>2, <1>3, <1>4, <1>5, <1>6, <1>7, <1>8, <1>9, LongOptionKeeps, ShortOptionKeeps DEF Next

\* A line that was divided up to its end is divided as LineIsDivided says.
LEMMA DividedToTheEnd ==
  ASSUME ParserInv
  PROVE  LineIsDivided
  <1> SUFFICES ASSUME pc = "user", line # <<>> PROVE LineIsDivided
    BY ZenonT(30) DEF LineIsDivided
  <1>1. CASE ~have_parsed_line
    BY <1>1 DEF ParserInv, LineIsDivided
  <1>2. CASE have_parsed_line
    <2>1. Divided /\ i = Len(line) + 1 /\ k = 0 /\ Len(line) \in Nat
      BY <1>2, SeqLength DEF ParserInv, ParserTypes, argc
    <2>2. i - 1 = Len(line)
      BY <2>1, SMT
    <2>3. Rest = (1 .. Len(line)) \ Whole
      BY <2>2 DEF Rest
    <2>4. Whole \subseteq 1 .. Len(line)
      BY <2>1, <2>2 DEF Divided, TakenBefore
    <2>5. \A p \in Rest \ Opts : line[p].kind = "escape" /\ \A q \in Rest : q <= p
      BY <2>1 DEF Divided, EscapeIsLast
    <2>6. \A p \in Range(words) :
            /\ p \notin Arguments
            /\ line[p[1]].kind = "word" \/ \E q \in Rest \ Opts : q < p[1]
      BY <2>1 DEF Divided, WordsAre
    <2>7. \A j \in 2 .. Len(words) : words[j - 1][1] < words[j][1]
      BY <2>1 DEF Divided, WordsAre
    <2>8. \A n \in DOMAIN options :
            /\ options[n].num_present = Cardinality(UNION {At(n, p) : p \in Opts})
            /\ IsInjective(options[n].options)
            /\ number_of_arguments[n] > 0 => Len(options[n].options) = options[n].num_present
            /\ \A a \in Range(options[n].options) : \E p \in Opts : GivenAt(a, n, p)
      <3> TAKE n \in DOMAIN options
      <3>1. OptionIs(n)
        BY <2>1 DEF Divided
      <3>2. LettersAt(n) = {}
        BY <2>1, SMT DEF LettersAt
      <3>3. Typed(n) = UNION {At(n, p) : p \in Opts}
        BY <3>2 DEF Typed
      <3> QED
        BY <3>1, <3>3 DEF OptionIs
    <2> DEFINE rest == (1 .. Len(line)) \ Whole
               opts == {p \in rest : line[p].kind \in {"long", "short"}}
    <2>9. Rest = rest /\ Opts = opts
      BY <2>3 DEF Opts
    <2> HIDE DEF rest, opts
    <2>10. \A n \in DOMAIN options :
             /\ options[n].num_present =
                  Cardinality(UNION {{<<p, j>> : j \in {x \in DOMAIN OptionsAt(p) : OptionsAt(p)[x] = n}} :
                                        p \in opts})
             /\ IsInjective(options[n].options)
             /\ number_of_arguments[n] > 0 => Len(options[n].options) = options[n].num_present
             /\ \A a \in Range(options[n].options) :
                  \E p \in opts :
                     /\ n = OptionsAt(p)[Len(OptionsAt(p))] /\ Len(a) = number_of_arguments[n]
                     /\ Attached(p) = 1 => a[1][1] = p /\ Len(a[1]) = 2
                     /\ \A j \in Attached(p) + 1 .. Len(a) : a[j] = <<p + j - Attached(p)>>
      BY <2>8, <2>9 DEF At, GivenAt
    <2>11. /\ \A p \in rest \ opts : line[p].kind = "escape" /\ \A q \in rest : q <= p
           /\ \A p \in Range(words) :
                /\ p \notin Arguments
                /\ line[p[1]].kind = "word" \/ \E q \in rest \ opts : q < p[1]
      BY <2>5, <2>6, <2>9
    <2> QED
      BY ZenonT(30), <1>2, <2>4, <2>7, <2>10, <2>11 DEF LineIsDivided, rest, opts
  <1>3. have_parsed_line \in BOOLEAN
    BY DEF ParserInv, ParserTypes
  <1> QED
    BY <1>1, <1>2, <1>3

-----------------------------------------------------------------------------
(* The coroutine server *)

CallNames == {"tcpsend", "tcpflush", "tcprecvuntil", "tcpsend_2", "tcpflush_2"}
Report == [from : Connections, op : {1, 2, 3}]

MillTypes ==
  /\ mill_pc \in [Connections -> {"away", "established", "cleanup", "closed"} \cup CallNames]
  /\ ch \in Seq(Report)
  /\ lost \in SUBSET Connections

\* A dialogue is in chs at most once, and sends what has become of it.
ReportsAreTrue ==
  /\ \A l \in 1 .. Len(ch) :
       /\ ch[l].op = 1 => mill_pc[ch[l].from] = "established"
       /\ ch[l].op # 1 => /\ mill_pc[ch[l].from] = "cleanup"
                          /\ ch[l].op = 3 <=> ch[l].from \in lost
  /\ \A j, l \in 1 .. Len(ch) : j < l => ch[j].from # ch[l].from

\* A dialogue whose call has failed makes no other.
LostAreOver == \A d \in Connections : d \in lost => mill_pc[d] \in {"cleanup", "closed"}

Counted == {d \in Connections : mill_pc[d] \notin {"away", "established"}}
Closed == {d \in Connections : mill_pc[d] = "closed"}

Statistics ==
  /\ connections = Cardinality(Counted)
  /\ active = Cardinality(Counted \ Closed)
  /\ failed = Cardinality(Closed \cap lost)

MillInv == MillTypes /\ ReportsAreTrue /\ LostAreOver /\ Statistics

\* The calls of dialogue, as a set.
LEMMA CallsAre ==
  /\ {Mill!Calls[l] : l \in 1 .. Len(Mill!Calls)} = CallNames
  /\ Mill!Calls[1] = "tcpsend"
  /\ \A j \in 1 .. Len(Mill!Calls) - 1 : Mill!Calls[1 + j] \in CallNames
BY SMT DEF Mill!Calls, CallNames

\* After a call that is not the last, another one.
LEMMA CallAfterIsCall ==
  ASSUME NEW call \in CallNames, call # Mill!Calls[Len(Mill!Calls)]
  PROVE  Mill!CallAfter(call) \in CallNames
<1>1. \E j \in 1 .. Len(Mill!Calls) - 1 : Mill!Calls[j] = call
  BY SMT DEF Mill!Calls, CallNames
<1>2. PICK j \in 1 .. Len(Mill!Calls) - 1 :
        j = CHOOSE l \in 1 .. Len(Mill!Calls) - 1 : Mill!Calls[l] = call
  BY <1>1, ZenonT(30)
<1> QED
  BY <1>2, CallsAre DEF Mill!CallAfter

\* A dialogue that waits in chs joins at the end of those that wait already.
LEMMA MillReports ==
  ASSUME MillInv, NEW d \in Connections, mill_pc[d] \notin {"established", "cleanup"},
         NEW op \in {1, 2, 3}, NEW at \in {"established", "cleanup"},
         mill_pc' = [mill_pc EXCEPT ![d] = at],
         ch' = Append(ch, [from |-> d, op |-> op]),
         lost' \in {lost, lost \cup {d}},
         IF op = 1 THEN at = "established" ELSE at = "cleanup" /\ (op = 3 <=> d \in lost')
  PROVE  MillTypes' /\ ReportsAreTrue'
<1> DEFINE new == [from |-> d, op |-> op]
           n == Len(ch)
<1>1. ch \in Seq(Report) /\ n \in Nat
  BY SMT DEF MillInv, MillTypes
<1>2. new \in Report /\ new.from = d /\ new.op = op
  BY DEF Report
<1>3. ch' = Append(ch, new)
  OBVIOUS
<1> HIDE DEF new
<1>4. /\ ch' \in Seq(Report) /\ Len(ch') = n + 1
      /\ \A l \in 1 .. n : ch'[l] = ch[l]
      /\ ch'[n + 1] = new
  BY <1>1, <1>2, <1>3, SeqAppend, SMT
<1> HIDE DEF n
<1>5. MillTypes'
  BY <1>4 DEF MillInv, MillTypes
<1>6. ASSUME NEW l \in 1 .. n
      PROVE  /\ ch[l].from \in Connections /\ ch[l].from # d
             /\ mill_pc'[ch[l].from] = mill_pc[ch[l].from]
             /\ ch[l].from \in lost' <=> ch[l].from \in lost
  <2>1. ch[l] \in Report
    BY <1>1, <1>6, SeqElement DEF n
  <2>2. ch[l].from \in Connections
    BY <2>1 DEF Report
  <2>3. mill_pc[ch[l].from] \in {"established", "cleanup"}
    BY <1>6 DEF MillInv, ReportsAreTrue, n
  <2>4. ch[l].from # d
    BY <2>3
  <2> QED
    BY <2>2, <2>4 DEF MillInv, MillTypes
<1>7. mill_pc'[d] = at
  BY DEF MillInv, MillTypes
<1>8. \A l \in 1 .. n + 1 : l \in 1 .. n \/ l = n + 1
  BY <1>1, SMT DEF n
<1>9. ASSUME NEW l \in 1 .. Len(ch')
      PROVE  /\ ch'[l].op = 1 => mill_pc'[ch'[l].from] = "established"
             /\ ch'[l].op # 1 => /\ mill_pc'[ch'[l].from] = "cleanup"
                                 /\ ch'[l].op = 3 <=> ch'[l].from \in lost'
  <2>1. CASE l \in 1 .. n
    <3>1. ch'[l] = ch[l]
      BY <1>4, <2>1
    <3>2. /\ ch[l].op = 1 => mill_pc[ch[l].from] = "established"
          /\ ch[l].op # 1 => /\ mill_pc[ch[l].from] = "cleanup"
                             /\ ch[l].op = 3 <=> ch[l].from \in lost
      BY <2>1 DEF MillInv, ReportsAreTrue, n
    <3> QED
      BY <1>6, <2>1, <3>1, <3>2
  <2>2. CASE l = n + 1
    <3>1. ch'[l].from = d /\ ch'[l].op = op
      BY <1>2, <1>4, <2>2
    <3> QED
      BY <1>7, <3>1
  <2> QED
    BY <1>4, <1>8, <2>1, <2>2
<1>10. ASSUME NEW j \in 1 .. Len(ch'), NEW l \in 1 .. Len(ch'), j < l PROVE ch'[j].from # ch'[l].from
  <2>1. j \in 1 .. n
    BY <1>1, <1>4, <1>10, SMT DEF n
  <2>2. ch'[j] = ch[j]
    BY <1>4, <2>1
  <2>3. CASE l \in 1 .. n
    <3>1. ch'[l] = ch[l]
      BY <1>4, <2>3
    <3> QED
      BY <1>10, <2>1, <2>2, <2>3, <3>1 DEF MillInv, ReportsAreTrue, n
  <2>4. CASE l = n + 1
    BY <1>2, <1>4, <1>6, <2>1, <2>2, <2>4, ZenonT(30)
  <2> QED
    BY <1>4, <1>8, <2>3, <2>4, ZenonT(30)
<1>11. ReportsAreTrue'
  BY <1>9, <1>10 DEF ReportsAreTrue
<1> QED
  BY <1>5, <1>11

\* A new dialogue is not counted before its first report is received.
LEMMA AcceptMillInv == ASSUME NEW d \in Connections PROVE MillInv /\ Mill!Accept(d) => MillInv'
<1> SUFFICES ASSUME MillInv, Mill!Accept(d) PROVE MillInv'
  OBVIOUS
<1>1. /\ mill_pc[d] = "away" /\ mill_pc' = [mill_pc EXCEPT ![d] = "established"]
      /\ ch' = Append(ch, [from |-> d, op |-> 1]) /\ lost' = lost
      /\ UNCHANGED <<connections, active, failed>>
  BY DEF Mill!Accept, Mill!CONN_ESTABLISHED
<1>2. MillTypes' /\ ReportsAreTrue'
  <2>1. 1 \in {1, 2, 3} /\ mill_pc[d] \notin {"established", "cleanup"}
    BY <1>1
  <2>2. "established" \in {"established", "cleanup"}
    OBVIOUS
  <2>3. lost' \in {lost, lost \cup {d}}
    BY <1>1
  <2> QED
    BY <1>1, <2>1, <2>2, <2>3, MillReports
<1>3. mill_pc \in [Connections -> {"away", "established", "cleanup", "closed"} \cup CallNames]
  BY DEF MillInv, MillTypes
<1>4. Counted' = Counted /\ Closed' = Closed
  BY <1>1, <1>3 DEF Counted, Closed
<1>5. Statistics'
  BY <1>1, <1>4 DEF MillInv, Statistics
<1>6. LostAreOver'
  BY <1>1, <1>3 DEF MillInv, LostAreOver
<1> QED
  BY <1>2, <1>5, <1>6 DEF MillInv

\* A call that returns moves its dialogue on; only one that failed is lost.
LEMMA ReturnsMillInv ==
  ASSUME NEW d \in Connections, NEW err \in {0, 1}
  PROVE  MillInv /\ Mill!Returns(d, err) => MillInv'
<1> SUFFICES ASSUME MillInv, Mill!Returns(d, err) PROVE MillInv'
  OBVIOUS
<1>1. /\ mill_pc[d] \in CallNames /\ errno' = err
      /\ lost' = IF err # 0 THEN lost \cup {d} ELSE lost
      /\ UNCHANGED <<connections, active, failed>>
  BY CallsAre DEF Mill!Returns, Mill!errno_after
<1>2. /\ mill_pc[d] \notin {"away", "established", "cleanup", "closed"}
      /\ \A x \in CallNames : x \notin {"away", "established", "cleanup", "closed"}
  BY <1>1 DEF CallNames
<1>3. mill_pc \in [Connections -> {"away", "established", "cleanup", "closed"} \cup CallNames]
  BY DEF MillInv, MillTypes
<1>4. d \notin lost
  BY <1>2 DEF MillInv, LostAreOver
<1>5. ASSUME NEW at, at \in {"cleanup"} \cup CallNames, mill_pc' = [mill_pc EXCEPT ![d] = at],
             err # 0 => at = "cleanup"
      PROVE  LostAreOver' /\ Statistics'
  <2>1. at \notin {"away", "established", "closed"}
    BY <1>2, <1>5
  <2>2. Counted' = Counted /\ Closed' = Closed
    BY <1>2, <1>3, <1>5, <2>1 DEF Counted, Closed
  <2>3. d \notin Closed
    BY <1>2 DEF Closed
  <2>4. Closed' \cap lost' = Closed \cap lost
    BY <1>1, <2>2, <2>3
  <2>5. Statistics'
    BY <1>1, <2>2, <2>4 DEF MillInv, Statistics
  <2>6. ASSUME NEW x \in Connections, x \in lost' PROVE mill_pc'[x] \in {"cleanup", "closed"}
    <3>1. CASE x = d
      <4>1. err # 0
        BY <1>1, <1>4, <2>6, <3>1
      <4> QED
        BY <1>3, <1>5, <3>1, <4>1
    <3>2. CASE x # d
      <4>1. x \in lost /\ mill_pc'[x] = mill_pc[x]
        BY <1>1, <1>3, <1>5, <2>6, <3>2, ZenonT(30)
      <4> QED
        BY <4>1 DEF MillInv, LostAreOver
    <3> QED
      BY <3>1, <3>2
  <2> QED
    BY <2>5, <2>6 DEF LostAreOver
<1>6. CASE err # 0 \/ mill_pc[d] = Mill!Calls[Len(Mill!Calls)]
  <2>1. /\ mill_pc' = [mill_pc EXCEPT ![d] = "cleanup"]
        /\ ch' = Append(ch, [from |-> d, op |-> IF err = 0 THEN 2 ELSE 3])
    BY <1>1, <1>6 DEF Mill!Returns, Mill!CONN_SUCCEEDED, Mill!CONN_FAILED
  <2>2. LostAreOver' /\ Statistics'
    BY <1>5, <2>1
  <2>3. PICK op \in {2, 3} : op = IF err = 0 THEN 2 ELSE 3
    OBVIOUS
  <2>4. op # 1 /\ op \in {1, 2, 3} /\ (op = 3 <=> err # 0)
    BY <2>3, SMT
  <2>5. op = 3 <=> d \in lost'
    BY <1>1, <1>4, <2>4
  <2>6. lost' \in {lost, lost \cup {d}}
    BY <1>1
  <2>7. ch' = Append(ch, [from |-> d, op |-> op])
    BY <2>1, <2>3
  <2>8. MillTypes' /\ ReportsAreTrue'
    <3>1. "cleanup" \in {"established", "cleanup"} /\ mill_pc[d] \notin {"established", "cleanup"}
      BY <1>2
    <3>2. IF op = 1 THEN "cleanup" = "established" ELSE "cleanup" = "cleanup" /\ (op = 3 <=> d \in lost')
      BY <2>4, <2>5
    <3> QED
      BY <2>1, <2>4, <2>6, <2>7, <3>1, <3>2, MillReports, ZenonT(30)
  <2> QED
    BY <2>2, <2>8 DEF MillInv
<1>7. CASE ~(err # 0 \/ mill_pc[d] = Mill!Calls[Len(Mill!Calls)])
  <2>1. mill_pc' = [mill_pc EXCEPT ![d] = Mill!CallAfter(mill_pc[d])] /\ ch' = ch /\ lost' = lost
    BY <1>1, <1>7 DEF Mill!Returns
  <2>2. Mill!CallAfter(mill_pc[d]) \in CallNames
    BY <1>1, <1>7, CallAfterIsCall
  <2>3. LostAreOver' /\ Statistics'
    BY <1>5, <1>7, <2>1, <2>2
  <2>4. MillTypes'
    BY <1>3, <2>1, <2>2 DEF MillInv, MillTypes
  <2>5. ASSUME NEW l \in 1 .. Len(ch) PROVE mill_pc'[ch[l].from] = mill_pc[ch[l].from]
    <3>1. ch[l] \in Report
      BY SeqElement DEF MillInv, MillTypes
    <3>2. ch[l].from \in Connections
      BY <3>1 DEF Report
    <3>3. mill_pc[ch[l].from] \in {"established", "cleanup"}
      BY DEF MillInv, ReportsAreTrue
    <3>4. ch[l].from # d
      BY <1>2, <3>3
    <3> QED
      BY <1>3, <2>1, <3>2, <3>4
  <2>6. ReportsAreTrue'
    BY <2>1, <2>5 DEF MillInv, ReportsAreTrue
  <2> QED
    BY <2>3, <2>4, <2>6 DEF MillInv
<1> QED
  BY <1>6, <1>7

-----------------------------------------------------------------------------
(* The theorems *)

INSTANCE FiniteSetTheorems

\* One more element is one more.
LEMMA CountsGrow == Counting
  <1>1. IsFiniteSet({}) /\ Cardinality({}) = 0
    BY FS_EmptySet
  <1>2. ASSUME NEW S, NEW x, IsFiniteSet(S), x \notin S
        PROVE  IsFiniteSet(S \cup {x}) /\ Cardinality(S \cup {x}) = Cardinality(S) + 1
    BY <1>2, FS_AddElement
  <1> QED
    BY <1>1, <1>2 DEF Counting

\* cmd_line_parser::parse divides every line into options, the first --, the
\* arguments of options and words, counts options as often as they were typed
\* and gives each its number of arguments, and throws ETOO_FEW_ARGS only when
\* there are too few: for any options, any numbers of arguments and any lines,
\* however often lines are parsed.
THEOREM LinesAreDivided == CmdLineParserAssumption => (Spec => []LineIsDivided)
  <1> SUFFICES ASSUME CmdLineParserAssumption PROVE Spec => []LineIsDivided
    OBVIOUS
  <1>1. Init => ParserInv
    <2> SUFFICES ASSUME Init PROVE ParserInv
      OBVIOUS
    <2>1. <<>> \in Seq(Strings) /\ <<>> \in Seq(Texts)
      BY SeqEmpty
    <2>2. DOMAIN options = {}
      BY DEF Init
    <2> QED
      BY <2>1, <2>2 DEF Init, ParserInv, ParserTypes
  <1>2. ParserInv /\ [Next]_vars => ParserInv'
    BY ParserStep, CountsGrow
  <1>3. ParserInv => LineIsDivided
    BY DividedToTheEnd
  <1> QED
    BY <1>1, <1>2, <1>3, PTL DEF Spec

\* Nobody has connected.
LEMMA MillStarts == Mill!Init => MillInv
<1> SUFFICES ASSUME Mill!Init PROVE MillInv
  OBVIOUS
<1>1. /\ mill_pc = [d \in Connections |-> "away"] /\ ch = <<>> /\ lost = {}
      /\ connections = 0 /\ active = 0 /\ failed = 0
  BY DEF Mill!Init
<1>2. Counted = {} /\ Counted \ Closed = {} /\ Closed \cap lost = {}
  BY <1>1 DEF Counted, Closed
<1>3. Statistics
  BY <1>1, <1>2, FS_EmptySet DEF Statistics
<1>4. MillTypes
  BY <1>1, SMT DEF MillTypes
<1>5. ReportsAreTrue
  BY <1>1, SMT DEF ReportsAreTrue
<1>6. LostAreOver
  BY <1>1 DEF LostAreOver
<1> QED
  BY <1>3, <1>4, <1>5, <1>6 DEF MillInv

\* statistics receives the first report, and its sender goes on: the counts
\* change by the one dialogue.
LEMMA chrMillInv == MillInv /\ Mill!chr => MillInv'
<1> SUFFICES ASSUME MillInv, Mill!chr PROVE MillInv'
  OBVIOUS
<1> DEFINE d == Head(ch).from
           op == Head(ch).op
           at == IF op = 1 THEN "tcpsend" ELSE "closed"
           n == Len(ch)
<1>1. /\ ch # <<>> /\ ch' = Tail(ch) /\ lost' = lost
      /\ connections' = IF op = 1 THEN connections + 1 ELSE connections
      /\ active' = IF op = 1 THEN active + 1 ELSE active - 1
      /\ failed' = IF op = 3 THEN failed + 1 ELSE failed
      /\ mill_pc' = [mill_pc EXCEPT ![d] = at]
  BY CallsAre DEF Mill!chr, Mill!CONN_ESTABLISHED, Mill!CONN_FAILED, Mill!ends
<1>2. ch \in Seq(Report) /\ n \in Nat
  BY SMT DEF MillInv, MillTypes
<1>3. /\ Head(ch) \in Report /\ ch' \in Seq(Report) /\ Len(ch') = n - 1
      /\ \A l \in 1 .. Len(ch') : ch'[l] = ch[l + 1]
      /\ Head(ch) = ch[1] /\ n >= 1
  BY <1>1, <1>2, SeqTail, SMT
<1>4. d \in Connections /\ op \in {1, 2, 3}
  BY <1>3 DEF Report
<1>5. 1 \in 1 .. n /\ \A l \in 1 .. n - 1 : l + 1 \in 1 .. n /\ 1 < l + 1
  <2> HIDE DEF n
  <2> QED
    BY <1>2, <1>3, SMT
<1>6. /\ op = 1 => mill_pc[d] = "established"
      /\ op # 1 => mill_pc[d] = "cleanup" /\ (op = 3 <=> d \in lost)
  BY <1>3, <1>5 DEF MillInv, ReportsAreTrue
<1> HIDE DEF d, op, n
<1>7. mill_pc \in [Connections -> {"away", "established", "cleanup", "closed"} \cup CallNames]
  BY DEF MillInv, MillTypes
<1>8. at \in {"away", "established", "cleanup", "closed"} \cup CallNames
  BY DEF CallNames
<1>9. MillTypes'
  BY <1>1, <1>3, <1>4, <1>7, <1>8 DEF MillInv, MillTypes
<1>10. ASSUME NEW l \in 1 .. Len(ch')
       PROVE  /\ l + 1 \in 1 .. n /\ ch'[l] = ch[l + 1]
              /\ mill_pc'[ch'[l].from] = mill_pc[ch[l + 1].from]
  <2>1. l + 1 \in 1 .. n /\ 1 < l + 1 /\ ch'[l] = ch[l + 1]
    BY <1>3, <1>5
  <2>2. ch[l + 1] \in Report
    BY <1>2, <2>1, SeqElement DEF n
  <2>3. ch[l + 1].from \in Connections
    BY <2>2 DEF Report
  <2>4. ch[1].from # ch[l + 1].from
    BY <1>5, <2>1 DEF MillInv, ReportsAreTrue, n
  <2>5. ch[l + 1].from # d
    BY <1>3, <2>4 DEF d
  <2> QED
    BY <1>1, <1>7, <2>1, <2>3, <2>5
<1>11. ReportsAreTrue'
  <2>1. ASSUME NEW l \in 1 .. Len(ch')
        PROVE  /\ ch'[l].op = 1 => mill_pc'[ch'[l].from] = "established"
               /\ ch'[l].op # 1 => /\ mill_pc'[ch'[l].from] = "cleanup"
                                   /\ ch'[l].op = 3 <=> ch'[l].from \in lost'
    <3>1. /\ l + 1 \in 1 .. n /\ ch'[l] = ch[l + 1]
          /\ mill_pc'[ch'[l].from] = mill_pc[ch[l + 1].from]
      BY <1>10
    <3>2. /\ ch[l + 1].op = 1 => mill_pc[ch[l + 1].from] = "established"
          /\ ch[l + 1].op # 1 => /\ mill_pc[ch[l + 1].from] = "cleanup"
                                 /\ ch[l + 1].op = 3 <=> ch[l + 1].from \in lost
      BY <3>1 DEF MillInv, ReportsAreTrue, n
    <3> QED
      BY <1>1, <3>1, <3>2
  <2>2. ASSUME NEW j \in 1 .. Len(ch'), NEW l \in 1 .. Len(ch'), j < l
        PROVE  ch'[j].from # ch'[l].from
    <3>1. j + 1 < l + 1
      BY <2>2, SMT
    <3> QED
      <4>1. /\ j + 1 \in 1 .. n /\ ch'[j] = ch[j + 1]
            /\ l + 1 \in 1 .. n /\ ch'[l] = ch[l + 1]
        BY <1>10
      <4>2. ch[j + 1].from # ch[l + 1].from
        BY <3>1, <4>1 DEF MillInv, ReportsAreTrue, n
      <4> QED
        BY <4>1, <4>2
  <2> QED
    BY <2>1, <2>2 DEF ReportsAreTrue
<1>12. LostAreOver'
  <2>1. ASSUME NEW x \in Connections, x \in lost' PROVE mill_pc'[x] \in {"cleanup", "closed"}
    <3>1. mill_pc[x] \in {"cleanup", "closed"}
      BY <1>1, <2>1 DEF MillInv, LostAreOver
    <3>2. CASE x = d
      <4>1. op # 1
        BY <1>6, <3>1, <3>2
      <4> QED
        BY <1>1, <1>7, <3>2, <4>1
    <3>3. CASE x # d
      BY <1>1, <1>7, <3>1, <3>3
    <3> QED
      BY <3>2, <3>3
  <2> QED
    BY <2>1 DEF LostAreOver
<1>13. Statistics'
  <2>1. IsFiniteSet(Counted) /\ IsFiniteSet(Counted \ Closed) /\ IsFiniteSet(Closed \cap lost)
    <3>1. Counted \in SUBSET Connections /\ Counted \ Closed \in SUBSET Connections
          /\ Closed \cap lost \in SUBSET Connections
      BY DEF Counted, Closed
    <3> QED
      BY <3>1, CoroutinesAssumption, FS_Subset
  <2>2. /\ connections = Cardinality(Counted) /\ active = Cardinality(Counted \ Closed)
        /\ failed = Cardinality(Closed \cap lost)
    BY DEF MillInv, Statistics
  <2>3. CASE op = 1
    <3>1. mill_pc[d] = "established" /\ at = "tcpsend" /\ op # 3
      BY <1>6, <2>3, SMT
    <3>2. Counted' = Counted \cup {d} /\ d \notin Counted /\ Closed' = Closed /\ d \notin Closed
      BY <1>1, <1>4, <1>7, <3>1 DEF Counted, Closed
    <3>3. Counted' \ Closed' = (Counted \ Closed) \cup {d} /\ d \notin Counted \ Closed
      BY <3>2
    <3>4. /\ Cardinality(Counted \cup {d}) = Cardinality(Counted) + 1
          /\ Cardinality((Counted \ Closed) \cup {d}) = Cardinality(Counted \ Closed) + 1
      BY <2>1, <3>2, <3>3, FS_AddElement
    <3> QED
      BY <1>1, <2>2, <2>3, <3>1, <3>2, <3>3, <3>4, ZenonT(30) DEF Statistics
  <2>4. CASE op # 1
    <3>1. mill_pc[d] = "cleanup" /\ at = "closed" /\ (op = 3 <=> d \in lost)
      BY <1>6, <2>4
    <3>2. Counted' = Counted /\ d \in Counted /\ Closed' = Closed \cup {d} /\ d \notin Closed
      BY <1>1, <1>4, <1>7, <3>1 DEF Counted, Closed
    <3>3. Counted' \ Closed' = (Counted \ Closed) \ {d} /\ d \in Counted \ Closed
      BY <3>2
    <3>4. Cardinality((Counted \ Closed) \ {d}) = Cardinality(Counted \ Closed) - 1
      BY <2>1, <3>3, FS_RemoveElement
    <3>5. failed' = Cardinality(Closed' \cap lost')
      <4>1. CASE op = 3
        <5>1. Closed' \cap lost' = (Closed \cap lost) \cup {d} /\ d \notin Closed \cap lost
          BY <1>1, <3>1, <3>2, <4>1
        <5>2. Cardinality((Closed \cap lost) \cup {d}) = Cardinality(Closed \cap lost) + 1
          BY <2>1, <5>1, FS_AddElement
        <5> QED
          BY <1>1, <2>2, <4>1, <5>1, <5>2
      <4>2. CASE op # 3
        <5>1. Closed' \cap lost' = Closed \cap lost
          BY <1>1, <3>1, <3>2, <4>2
        <5> QED
          BY <1>1, <2>2, <4>2, <5>1
      <4> QED
        BY <4>1, <4>2
    <3> QED
      BY <1>1, <2>2, <2>4, <3>2, <3>3, <3>4, <3>5, ZenonT(30) DEF Statistics
  <2> QED
    BY <2>3, <2>4
<1> QED
  BY <1>9, <1>11, <1>12, <1>13 DEF MillInv

\* Every step keeps the invariant.
LEMMA MillStep == MillInv /\ [Mill!Next]_(Mill!vars) => MillInv'
<1> SUFFICES ASSUME MillInv, [Mill!Next]_(Mill!vars) PROVE MillInv'
  OBVIOUS
<1>1. ASSUME UNCHANGED <<mill_pc, ch, connections, active, failed, lost>> PROVE MillInv'
  BY <1>1 DEF MillInv, MillTypes, ReportsAreTrue, LostAreOver, Statistics, Counted, Closed
<1>2. CASE Mill!AcceptFails \/ Mill!AcceptWaits
  BY <1>1, <1>2 DEF Mill!AcceptFails, Mill!AcceptWaits
<1>3. CASE UNCHANGED Mill!vars
  BY <1>1, <1>3 DEF Mill!vars
<1>4. ASSUME NEW d \in Connections, Mill!Accept(d) \/ Mill!Run(d) PROVE MillInv'
  BY <1>4, AcceptMillInv, ReturnsMillInv DEF Mill!Run
<1> QED
  BY <1>2, <1>3, <1>4, chrMillInv DEF Mill!Next

\* libmill/test.c, with any number of connections: however the coroutines are
\* scheduled, and though all of them use one errno, statistics prints how many
\* dialogues there have been, how many go on, and how many failed.
THEOREM StatisticsAreRight == Mill!Init /\ [][Mill!Next]_(Mill!vars) => []StatisticsAddUp
<1>1. Mill!Init => MillInv
  BY MillStarts
<1>2. MillInv /\ [Mill!Next]_(Mill!vars) => MillInv'
  BY MillStep
<1>3. MillInv => StatisticsAddUp
  <2> SUFFICES ASSUME MillInv PROVE StatisticsAddUp
    OBVIOUS
  <2>1. /\ connections = Cardinality(Counted) /\ active = Cardinality(Counted \ Closed)
        /\ failed = Cardinality(Closed \cap lost)
    BY DEF MillInv, Statistics
  <2> QED
    BY <2>1
       DEF Counted, Closed, StatisticsAddUp, Mill!StatisticsAddUp, Cardinality, Mill!Cardinality
<1> QED
  BY <1>1, <1>2, <1>3, PTL
=============================================================================
