---------------------------- MODULE Vacuum_proofs ----------------------------
(***************************************************************************)
(* What becomes of the settings of a vacuum, whatever they are.            *)
(***************************************************************************)
EXTENDS Vacuum, TLAPS

-----------------------------------------------------------------------------
(* The statement, piece by piece.                                          *)

Pieces == Keywords \cup Tables \cup {"blank"}

LEMMA KeywordFacts ==
  /\ "blank" \notin Keywords /\ "VACUUM" \in Keywords
  /\ Rank("VACUUM") = 1 /\ Rank("FULL") = 2 /\ Rank("FREEZE") = 3
  /\ Rank("VERBOSE") = 4 /\ Rank("ANALYZE") = 5
  /\ \A t \in Tables : t \notin Keywords /\ t # "blank" /\ Rank(t) = 6
  BY TablesAssumption DEF Keywords, Rank

\* A statement that has grown up to the keyword of rank n: its words, each in
\* its place, and whether it ends in a blank.
Built(s, n, words) ==
  /\ s \in Seq(Pieces) /\ Len(s) > 0
  /\ InOrder(s)
  /\ \A i \in 1..Len(s) : s[i] # "blank" => Rank(s[i]) <= n
  /\ Words(s) = words
  /\ Understood(s)
  /\ s[Len(s)] = "blank" <=> words # {"VACUUM"}

\* The statement begins with its first keyword.
LEMMA BuiltFirst == Built(<<"VACUUM">>, 1, {"VACUUM"})
  <1> DEFINE s == <<"VACUUM">>
  <1>1. s \in Seq(Pieces) /\ s # <<>> /\ Len(s) = 1 /\ DOMAIN s = {1} /\ s[1] = "VACUUM"
    BY KeywordFacts DEF Pieces
  <1>2. InOrder(s) /\ Understood(s)
    BY <1>1 DEF InOrder, Understood
  <1>3. Words(s) = {"VACUUM"}
    BY <1>1 DEF Words
  <1> QED
    BY <1>1, <1>2, <1>3, KeywordFacts DEF Built

\* An option adds its keyword if it is wanted, and nothing otherwise.
LEMMA BuiltOption ==
  ASSUME NEW s, NEW n \in Nat, NEW words, Built(s, n, words), "VACUUM" \in words,
         NEW wanted \in BOOLEAN, NEW word \in Keywords, word \notin words,
         Rank(word) \in Nat, n < Rank(word)
  PROVE  Built(s \o Piece(wanted, word), Rank(word),
               words \cup (IF wanted THEN {word} ELSE {}))
  <1>s. /\ s \in Seq(Pieces) /\ Len(s) \in Nat \ {0} /\ DOMAIN s = 1..Len(s)
        /\ \A i \in 1..Len(s) : s[i] \in Pieces
    BY DEF Built
  <1>r. \A p \in Pieces : Rank(p) \in Nat
    BY KeywordFacts DEF Pieces, Rank
  <1>1. CASE ~wanted
    <2>1. s \o Piece(wanted, word) = s
      BY <1>1, <1>s DEF Piece
    <2>2. \A i \in 1..Len(s) : s[i] # "blank" => Rank(s[i]) <= Rank(word)
      BY <1>s, <1>r DEF Built
    <2> QED
      BY <1>1, <2>1, <2>2 DEF Built
  <1>2. CASE wanted
    <2> DEFINE t == s \o <<"blank", word, "blank">>
    <2>1. word # "blank" /\ word # "VACUUM" /\ word \in Pieces /\ "blank" \in Pieces
      BY KeywordFacts DEF Pieces
    <2>2. /\ t \in Seq(Pieces) /\ Len(t) = Len(s) + 3 /\ DOMAIN t = 1..(Len(s) + 3)
          /\ \A i \in 1..Len(s) : t[i] = s[i]
          /\ t[Len(s) + 1] = "blank" /\ t[Len(s) + 2] = word /\ t[Len(s) + 3] = "blank"
      BY <1>s, <2>1
    <2>3. \A i \in 1..Len(t) : i \in 1..Len(s) \/ i = Len(s) + 1 \/ i = Len(s) + 2 \/ i = Len(s) + 3
      BY <1>s, <2>2
    <2> HIDE DEF t
    <2>4. \A i \in 1..Len(t) : t[i] # "blank" => Rank(t[i]) <= Rank(word)
      <3> SUFFICES ASSUME NEW i \in 1..Len(t), t[i] # "blank" PROVE Rank(t[i]) <= Rank(word)
        OBVIOUS
      <3>1. CASE i \in 1..Len(s)
        <4>1. Rank(s[i]) <= n /\ Rank(s[i]) \in Nat /\ t[i] = s[i]
          BY <1>s, <1>r, <2>2, <3>1 DEF Built
        <4> QED
          BY <4>1
      <3>2. CASE i \notin 1..Len(s)
        BY <2>2, <2>3, <3>2
      <3> QED
        BY <3>1, <3>2
    <2>5. InOrder(t)
      <3> SUFFICES ASSUME NEW i \in 1..Len(t), NEW j \in 1..Len(t), i < j,
                          t[i] # "blank", t[j] # "blank"
                   PROVE  Rank(t[i]) < Rank(t[j])
        BY <2>2 DEF InOrder
      <3>1. i \in 1..Len(s)
        BY <1>s, <2>2, <2>3
      <3>2. j \in 1..Len(s) \/ j = Len(s) + 2
        BY <1>s, <2>2, <2>3
      <3>3. CASE j \in 1..Len(s)
        BY <1>s, <2>2, <3>1, <3>3 DEF Built, InOrder
      <3>4. CASE j = Len(s) + 2
        BY <1>s, <1>r, <2>2, <3>1, <3>4 DEF Built
      <3> QED
        BY <3>2, <3>3, <3>4
    <2>6. Words(t) = words \cup {word}
      <3>1. \A x : x \in Words(t) <=> x \in Words(s) \/ x = word
        BY <1>s, <2>1, <2>2, <2>3 DEF Words
      <3> QED
        BY <3>1 DEF Built
    <2>7. Understood(t)
      <3> SUFFICES ASSUME NEW i \in 1..(Len(t) - 1) PROVE t[i] = "blank" \/ t[i + 1] = "blank"
        BY DEF Understood
      <3>1. CASE i \in 1..(Len(s) - 1)
        BY <1>s, <2>2, <3>1 DEF Built, Understood
      <3>2. CASE i \notin 1..(Len(s) - 1)
        <4>1. i \in Nat /\ i >= Len(s) /\ i <= Len(s) + 2
          BY <1>s, <2>2, <3>2
        <4>2. i = Len(s) \/ i = Len(s) + 1 \/ i = Len(s) + 2
          <5>1. \A k, j \in Nat : j >= k /\ j <= k + 2 => j = k \/ j = k + 1 \/ j = k + 2
            OBVIOUS
          <5> QED
            BY <1>s, <4>1, <5>1
        <4>3. t[Len(s) + 1] = "blank" /\ t[Len(s) + 3] = "blank" /\ (Len(s) + 2) + 1 = Len(s) + 3
          BY <1>s, <2>2
        <4> QED
          BY <4>2, <4>3
      <3> QED
        BY <3>1, <3>2
    <2>8. t[Len(t)] = "blank" /\ words \cup {word} # {"VACUUM"}
      BY <2>1, <2>2
    <2>9. s \o Piece(wanted, word) = t /\ Len(t) > 0
      BY <1>2, <1>s, <2>2 DEF Piece, t
    <2>10. words \cup (IF wanted THEN {word} ELSE {}) = words \cup {word}
      BY <1>2
    <2> QED
      BY <2>2, <2>4, <2>5, <2>6, <2>7, <2>8, <2>9, <2>10 DEF Built
  <1> QED
    BY <1>1, <1>2

\* The table comes last, and joins the word before it if that has no blank.
LEMMA BuiltTable ==
  ASSUME NEW s, NEW words, Built(s, 5, words), NEW table \in Tables
  PROVE  LET t == s \o (IF table # "" THEN <<table>> ELSE <<>>)
         IN /\ InOrder(t)
            /\ Words(t) = words \cup ({table} \ {""})
            /\ Understood(t) <=> table = "" \/ words # {"VACUUM"}
  <1>s. /\ s \in Seq(Pieces) /\ Len(s) \in Nat \ {0} /\ DOMAIN s = 1..Len(s)
        /\ \A i \in 1..Len(s) : s[i] \in Pieces
    BY DEF Built
  <1>r. \A p \in Pieces : Rank(p) \in Nat
    BY KeywordFacts DEF Pieces, Rank
  <1>1. CASE table = ""
    <2>1. (IF table # "" THEN <<table>> ELSE <<>>) = <<>>
      BY <1>1
    <2>2. s \o <<>> = s
      BY <1>s
    <2> QED
      BY <1>1, <2>1, <2>2 DEF Built
  <1>2. CASE table # ""
    <2> DEFINE t == s \o <<table>>
    <2>1. table # "blank" /\ table \in Pieces /\ Rank(table) = 6
      BY KeywordFacts DEF Pieces
    <2>2. /\ t \in Seq(Pieces) /\ Len(t) = Len(s) + 1 /\ DOMAIN t = 1..(Len(s) + 1)
          /\ \A i \in 1..Len(s) : t[i] = s[i]
          /\ t[Len(s) + 1] = table
      BY <1>s, <2>1
    <2>3. \A i \in 1..Len(t) : i \in 1..Len(s) \/ i = Len(s) + 1
      BY <1>s, <2>2
    <2> HIDE DEF t
    <2>4. InOrder(t)
      <3> SUFFICES ASSUME NEW i \in 1..Len(t), NEW j \in 1..Len(t), i < j,
                          t[i] # "blank", t[j] # "blank"
                   PROVE  Rank(t[i]) < Rank(t[j])
        BY <2>2 DEF InOrder
      <3>1. i \in 1..Len(s)
        BY <1>s, <2>2, <2>3
      <3>2. CASE j \in 1..Len(s)
        BY <1>s, <2>2, <3>1, <3>2 DEF Built, InOrder
      <3>3. CASE j = Len(s) + 1
        BY <1>s, <1>r, <2>1, <2>2, <3>1, <3>3 DEF Built
      <3> QED
        BY <2>3, <3>2, <3>3
    <2>5. Words(t) = words \cup {table}
      <3>1. \A x : x \in Words(t) <=> x \in Words(s) \/ x = table
        BY <1>s, <2>1, <2>2, <2>3 DEF Words
      <3> QED
        BY <3>1 DEF Built
    <2>6. Understood(t) <=> s[Len(s)] = "blank"
      <3>1. \A i \in 1..(Len(s) - 1) : t[i] = "blank" \/ t[i + 1] = "blank"
        BY <1>s, <2>2 DEF Built, Understood
      <3>2. Understood(t) <=> t[Len(s)] = "blank" \/ t[Len(s) + 1] = "blank"
        BY <1>s, <2>2, <3>1 DEF Understood
      <3> QED
        BY <1>s, <2>1, <2>2, <3>2
    <2> QED
      BY <1>2, <2>4, <2>5, <2>6 DEF Built, t
  <1> QED
    BY <1>1, <1>2

\* The statement for any parameters: its words and whether it is understood.
LEMMA StatementWords ==
  ASSUME NEW parms \in Parms
  PROVE  LET statement == VacuumCommand(parms)
             options == (IF parms.VAC_FULL THEN {"FULL"} ELSE {})
                          \cup (IF parms.VAC_FREEZE THEN {"FREEZE"} ELSE {})
                          \cup (IF parms.VAC_VERBOSE THEN {"VERBOSE"} ELSE {})
                          \cup (IF parms.VAC_ANALYZE THEN {"ANALYZE"} ELSE {})
         IN /\ InOrder(statement)
            /\ Words(statement) = {"VACUUM"} \cup options \cup ({parms.VAC_TABLE} \ {""})
            /\ Understood(statement) <=> parms.VAC_TABLE = "" \/ options # {}
  <1> DEFINE s1 == <<"VACUUM">>
             s2 == s1 \o Piece(parms.VAC_FULL, "FULL")
             s3 == s2 \o Piece(parms.VAC_FREEZE, "FREEZE")
             s4 == s3 \o Piece(parms.VAC_VERBOSE, "VERBOSE")
             s5 == s4 \o Piece(parms.VAC_ANALYZE, "ANALYZE")
             w2 == {"VACUUM"} \cup (IF parms.VAC_FULL THEN {"FULL"} ELSE {})
             w3 == w2 \cup (IF parms.VAC_FREEZE THEN {"FREEZE"} ELSE {})
             w4 == w3 \cup (IF parms.VAC_VERBOSE THEN {"VERBOSE"} ELSE {})
             w5 == w4 \cup (IF parms.VAC_ANALYZE THEN {"ANALYZE"} ELSE {})
             options == (IF parms.VAC_FULL THEN {"FULL"} ELSE {})
                          \cup (IF parms.VAC_FREEZE THEN {"FREEZE"} ELSE {})
                          \cup (IF parms.VAC_VERBOSE THEN {"VERBOSE"} ELSE {})
                          \cup (IF parms.VAC_ANALYZE THEN {"ANALYZE"} ELSE {})
  <1>t. /\ parms.VAC_FULL \in BOOLEAN /\ parms.VAC_FREEZE \in BOOLEAN
        /\ parms.VAC_VERBOSE \in BOOLEAN /\ parms.VAC_ANALYZE \in BOOLEAN
        /\ parms.VAC_TABLE \in Tables
    BY DEF Parms
  <1>k. {"FULL", "FREEZE", "VERBOSE", "ANALYZE"} \subseteq Keywords
    BY DEF Keywords
  <1>w. /\ "VACUUM" \in w2 /\ "VACUUM" \in w3 /\ "VACUUM" \in w4
        /\ "FREEZE" \notin w2 /\ "VERBOSE" \notin w3 /\ "ANALYZE" \notin w4
        /\ w5 = {"VACUUM"} \cup options /\ (w5 # {"VACUUM"} <=> options # {})
    OBVIOUS
  <1>c. VacuumCommand(parms) = s5 \o (IF parms.VAC_TABLE # "" THEN <<parms.VAC_TABLE>> ELSE <<>>)
    BY DEF VacuumCommand
  <1>1. Built(s1, 1, {"VACUUM"})
    BY BuiltFirst
  <1> HIDE DEF s1
  <1>2. Built(s2, 2, w2)
    BY <1>1, <1>t, <1>k, BuiltOption, KeywordFacts
  <1> HIDE DEF s2, w2
  <1>3. Built(s3, 3, w3)
    BY <1>2, <1>t, <1>k, <1>w, BuiltOption, KeywordFacts
  <1> HIDE DEF s3, w3
  <1>4. Built(s4, 4, w4)
    BY <1>3, <1>t, <1>k, <1>w, BuiltOption, KeywordFacts
  <1> HIDE DEF s4, w4
  <1>5. Built(s5, 5, w5)
    BY <1>4, <1>t, <1>k, <1>w, BuiltOption, KeywordFacts
  <1> HIDE DEF s5, w5, options
  <1>6. LET t == s5 \o (IF parms.VAC_TABLE # "" THEN <<parms.VAC_TABLE>> ELSE <<>>)
        IN /\ InOrder(t)
           /\ Words(t) = w5 \cup ({parms.VAC_TABLE} \ {""})
           /\ Understood(t) <=> parms.VAC_TABLE = "" \/ w5 # {"VACUUM"}
    BY <1>5, <1>t, BuiltTable
  <1> QED
    BY <1>6, <1>c, <1>w DEF options

-----------------------------------------------------------------------------
(* The settings, read twice.                                               *)

LEMMA OptionFacts ==
  /\ Len(Options) = 4
  /\ Options[1] = "VAC_FULL" /\ Options[2] = "VAC_ANALYZE"
  /\ Options[3] = "VAC_VERBOSE" /\ Options[4] = "VAC_FREEZE"
  /\ {Options[i] : i \in 1..Len(Options)}
       = {"VAC_FULL", "VAC_ANALYZE", "VAC_VERBOSE", "VAC_FREEZE"}
  /\ Default("VAC_FULL") = TRUE /\ Default("VAC_ANALYZE") = TRUE
  /\ Default("VAC_VERBOSE") = TRUE /\ Default("VAC_FREEZE") = FALSE
  BY DEF Options, Default

\* No error: what is required is there and no option is malformed.
LEMMA NoError ==
  ASSUME NEW env \in Variables
  PROVE  ~ParmsError(env) <=>
           /\ Required(env)
           /\ env.VAC_FULL # "malformed" /\ env.VAC_ANALYZE # "malformed"
           /\ env.VAC_VERBOSE # "malformed" /\ env.VAC_FREEZE # "malformed"
  <1>1. 1..((4 + 1) - 1) = {1, 2, 3, 4}
    OBVIOUS
  <1>2. Reaches(env, Len(Options) + 1) <=>
          Required(env) /\ \A j \in {1, 2, 3, 4} : env[Options[j]] # "malformed"
    BY <1>1, OptionFacts DEF Reaches
  <1> QED
    BY <1>2, OptionFacts DEF ParmsError

\* Whatever the environment, what is read has the type Parms.
LEMMA GetParmsType == ASSUME NEW env \in Variables PROVE GetParms[env] \in Parms
  <1>1. ASSUME NEW i PROVE Option(env, i) \in BOOLEAN
    <2>1. (env[Options[i]] = "true") \in BOOLEAN /\ Default(Options[i]) \in BOOLEAN
      BY DEF Default
    <2>2. CASE Reaches(env, i) /\ env[Options[i]] # ""
      BY <2>1, <2>2 DEF Option
    <2>3. CASE ~(Reaches(env, i) /\ env[Options[i]] # "")
      BY <2>1, <2>3 DEF Option
    <2> QED
      BY <2>2, <2>3
  <1>2. "" \in Texts /\ "5432" \in Texts /\ "postgres" \in Texts
    BY TextsAssumption
  <1>3. /\ env.JOB_HOST \in Texts /\ env.PG_USER \in Texts /\ env.PG_PASSWORD \in Texts
        /\ env.PG_PORT \in Texts /\ env.PG_DATABASE \in Texts /\ env.VAC_TABLE \in Tables
    BY DEF Variables
  <1>4. /\ (IF env.PG_USER = "" THEN "" ELSE env.PG_PASSWORD) \in Texts
        /\ Or(IF env.PG_USER = "" THEN "" ELSE env.PG_PORT, "5432") \in Texts
        /\ Or(IF env.PG_USER = "" THEN "" ELSE env.PG_DATABASE, "postgres") \in Texts
    BY <1>2, <1>3 DEF Or
  <1>5. /\ Option(env, 1) \in BOOLEAN /\ Option(env, 2) \in BOOLEAN
        /\ Option(env, 3) \in BOOLEAN /\ Option(env, 4) \in BOOLEAN
    BY <1>1
  <1> QED
    BY <1>3, <1>4, <1>5 DEF GetParms, Parms

\* The parameters have what was asked for, or the default.
Gives(parms, env) ==
  /\ parms.JOB_HOST = env.JOB_HOST /\ parms.PG_USER = env.PG_USER
  /\ parms.PG_PASSWORD = env.PG_PASSWORD /\ parms.VAC_TABLE = env.VAC_TABLE
  /\ parms.PG_PORT = Or(env.PG_PORT, "5432")
  /\ parms.PG_DATABASE = Or(env.PG_DATABASE, "postgres")
  /\ parms.VAC_FULL <=> Wanted(env, "VAC_FULL")
  /\ parms.VAC_ANALYZE <=> Wanted(env, "VAC_ANALYZE")
  /\ parms.VAC_VERBOSE <=> Wanted(env, "VAC_VERBOSE")
  /\ parms.VAC_FREEZE <=> Wanted(env, "VAC_FREEZE")

\* If there is no error, one reading gives what was asked for.
LEMMA OneReading ==
  ASSUME NEW env \in Variables, ~ParmsError(env)
  PROVE  Gives(GetParms[env], env)
  <1>1. /\ Required(env)
        /\ env.VAC_FULL # "malformed" /\ env.VAC_ANALYZE # "malformed"
        /\ env.VAC_VERBOSE # "malformed" /\ env.VAC_FREEZE # "malformed"
    BY NoError
  <1>2. \A i \in 1..4 : Reaches(env, i)
    <2>1. \A i \in 1..4 : \A j \in 1..(i - 1) : j = 1 \/ j = 2 \/ j = 3
      OBVIOUS
    <2> QED
      BY <1>1, <2>1, OptionFacts DEF Reaches
  <1>3. /\ Option(env, 1) <=> Wanted(env, "VAC_FULL")
        /\ Option(env, 2) <=> Wanted(env, "VAC_ANALYZE")
        /\ Option(env, 3) <=> Wanted(env, "VAC_VERBOSE")
        /\ Option(env, 4) <=> Wanted(env, "VAC_FREEZE")
    <2>1. Reaches(env, 1) /\ Reaches(env, 2) /\ Reaches(env, 3) /\ Reaches(env, 4)
      BY <1>2
    <2> QED
      BY <2>1, OptionFacts DEF Option, Wanted, Or, Flag
  <1> QED
    BY <1>1, <1>3 DEF Gives, GetParms, Required, Or

\* The template hands on the parameters as they are.
LEMMA Template ==
  ASSUME NEW parms \in Parms
  PROVE  LET env == PodEnvironment(parms)
         IN /\ env \in Variables
            /\ env.JOB_HOST = parms.JOB_HOST /\ env.PG_USER = parms.PG_USER
            /\ env.PG_PASSWORD = parms.PG_PASSWORD /\ env.VAC_TABLE = parms.VAC_TABLE
            /\ env.PG_PORT = parms.PG_PORT /\ env.PG_DATABASE = parms.PG_DATABASE
            /\ env.VAC_FULL = Flag(parms.VAC_FULL) /\ env.VAC_ANALYZE = Flag(parms.VAC_ANALYZE)
            /\ env.VAC_VERBOSE = Flag(parms.VAC_VERBOSE)
            /\ env.VAC_FREEZE = Flag(parms.VAC_FREEZE)
  BY DEF Parms, Variables, PodEnvironment, Flag, Flags

\* What the vacuum program reads is of the type Parms.
LEMMA PodParmsType == ASSUME NEW env \in Variables PROVE PodParms(env) \in Parms
  BY GetParmsType, Template DEF PodParms

\* The second reading changes nothing: its environment has no empty and no
\* malformed option.
LEMMA TwoReadings ==
  ASSUME NEW env \in Variables, ~ParmsError(env)
  PROVE  ~ParmsError(PodEnvironment(GetParms[env])) /\ Gives(PodParms(env), env)
  <1> DEFINE first == GetParms[env]
             pod == PodEnvironment(first)
             second == GetParms[pod]
  <1>1. first \in Parms /\ Gives(first, env) /\ Required(env)
    BY GetParmsType, OneReading, NoError
  <1>2. pod \in Variables
    BY <1>1, Template
  <1>c. /\ pod.JOB_HOST = first.JOB_HOST /\ pod.PG_USER = first.PG_USER
        /\ pod.PG_PASSWORD = first.PG_PASSWORD /\ pod.VAC_TABLE = first.VAC_TABLE
        /\ pod.PG_PORT = first.PG_PORT /\ pod.PG_DATABASE = first.PG_DATABASE
    BY <1>1, Template
  <1> HIDE DEF first, pod, second
  <1>3. Required(pod)
    BY <1>1, <1>c DEF Required, Gives
  <1>4. ~ParmsError(pod)
    BY <1>1, <1>2, <1>3, Template, NoError DEF Flag, pod
  <1>5. Gives(second, pod)
    BY <1>2, <1>4, OneReading DEF second
  <1>7. /\ second.JOB_HOST = env.JOB_HOST /\ second.PG_USER = env.PG_USER
        /\ second.PG_PASSWORD = env.PG_PASSWORD /\ second.VAC_TABLE = env.VAC_TABLE
        /\ second.PG_PORT = Or(env.PG_PORT, "5432")
        /\ second.PG_DATABASE = Or(env.PG_DATABASE, "postgres")
    BY <1>1, <1>5, <1>c DEF Gives, Or
  <1>8. ASSUME NEW wanted \in BOOLEAN
        PROVE  \A default : Or(Flag(wanted), default) = "true" <=> wanted
    BY DEF Or, Flag
  <1>9. /\ first.VAC_FULL \in BOOLEAN /\ first.VAC_ANALYZE \in BOOLEAN
        /\ first.VAC_VERBOSE \in BOOLEAN /\ first.VAC_FREEZE \in BOOLEAN
    BY <1>1 DEF Parms
  <1>10. /\ Wanted(pod, "VAC_FULL") <=> first.VAC_FULL
         /\ Wanted(pod, "VAC_ANALYZE") <=> first.VAC_ANALYZE
         /\ Wanted(pod, "VAC_VERBOSE") <=> first.VAC_VERBOSE
         /\ Wanted(pod, "VAC_FREEZE") <=> first.VAC_FREEZE
    BY <1>1, <1>8, <1>9, Template DEF Wanted, pod
  <1> QED
    BY <1>1, <1>4, <1>5, <1>7, <1>10 DEF Gives, PodParms, first, pod, second

\* If the settings could be read, the pod that is made from them sends what
\* the documentation says they mean.
LEMMA PodSendsAsDocumented ==
  ASSUME NEW env \in Variables, ~ParmsError(env)
  PROVE  AsDocumented(env, PodParms(env))
  <1> DEFINE parms == PodParms(env)
             statement == VacuumCommand(parms)
             wanted == {o \in {Options[i] : i \in 1..Len(Options)} : Wanted(env, o)}
             options == (IF parms.VAC_FULL THEN {"FULL"} ELSE {})
                          \cup (IF parms.VAC_FREEZE THEN {"FREEZE"} ELSE {})
                          \cup (IF parms.VAC_VERBOSE THEN {"VERBOSE"} ELSE {})
                          \cup (IF parms.VAC_ANALYZE THEN {"ANALYZE"} ELSE {})
  <1>1. parms \in Parms /\ Gives(parms, env)
    BY PodParmsType, TwoReadings
  <1> HIDE DEF parms
  <1>2. /\ InOrder(statement)
        /\ Words(statement) = {"VACUUM"} \cup options \cup ({parms.VAC_TABLE} \ {""})
        /\ Understood(statement) <=> parms.VAC_TABLE = "" \/ options # {}
    BY <1>1, StatementWords
  <1> HIDE DEF statement
  <1>3. \A w : w \in options <=> \E o \in wanted : w = Word(o)
    BY <1>1, OptionFacts DEF Gives, Word
  <1>4. options = {Word(o) : o \in wanted} /\ (options # {} <=> wanted # {})
    BY <1>3
  <1> HIDE DEF options, wanted
  <1>5. /\ Words(statement) = {"VACUUM"} \cup {Word(o) : o \in wanted} \cup ({env.VAC_TABLE} \ {""})
        /\ Understood(statement) <=> env.VAC_TABLE = "" \/ wanted # {}
    BY <1>1, <1>2, <1>4 DEF Gives
  <1>6. /\ <<parms.JOB_HOST, parms.PG_USER, parms.PG_PASSWORD>>
             = <<env.JOB_HOST, env.PG_USER, env.PG_PASSWORD>>
        /\ parms.PG_PORT = Or(env.PG_PORT, "5432")
        /\ parms.PG_DATABASE = Or(env.PG_DATABASE, "postgres")
    BY <1>1 DEF Gives
  <1> QED
    BY <1>2, <1>5, <1>6 DEF AsDocumented, statement, wanted, parms
=============================================================================
