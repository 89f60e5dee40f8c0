-------------------------------- MODULE Vacuum --------------------------------
(***************************************************************************)
(* From the settings of a crunchy-dba container to the VACUUM it has sent: *)
(* GetParms reads the variables in a fixed order and returns early on an   *)
(* error, VacJob fills the template of the pod with what it got, and the   *)
(* vacuum program in the pod reads that with GetParms again and writes the *)
(* statement piece by piece.                                               *)
(*                                                                         *)
(* An unset variable is "", and of the spellings strconv.ParseBool takes,  *)
(* and those it does not take, one each is enough.                         *)
(***************************************************************************)
EXTENDS Naturals, Sequences

CONSTANTS
  Texts,  \* what a variable that is no option may be set to
  Tables  \* what VAC_TABLE may be set to

Keywords == {"VACUUM", "FULL", "FREEZE", "VERBOSE", "ANALYZE"}

ASSUME TextsAssumption == {"", "5432", "postgres"} \subseteq Texts

\* The program does not look at the name of the table, so that FULL for a
\* name would be taken for the option.
ASSUME TablesAssumption == Tables \cap (Keywords \cup {"blank"}) = {}

\* The options in the order GetParms reads them.
Options == <<"VAC_FULL", "VAC_ANALYZE", "VAC_VERBOSE", "VAC_FREEZE">>
Flags == {"", "true", "false", "malformed"}

Variables ==
  [JOB_HOST : Texts, PG_USER : Texts, PG_PASSWORD : Texts, PG_PORT : Texts,
   PG_DATABASE : Texts, VAC_TABLE : Tables,
   VAC_FULL : Flags, VAC_ANALYZE : Flags, VAC_VERBOSE : Flags, VAC_FREEZE : Flags]

Parms ==
  [JOB_HOST : Texts, PG_USER : Texts, PG_PASSWORD : Texts, PG_PORT : Texts,
   PG_DATABASE : Texts, VAC_TABLE : Tables,
   VAC_FULL : BOOLEAN, VAC_ANALYZE : BOOLEAN, VAC_VERBOSE : BOOLEAN, VAC_FREEZE : BOOLEAN]

Or(value, default) == IF value = "" THEN default ELSE value
Default(option) == option # "VAC_FREEZE"

Required(env) == env.PG_USER # "" /\ env.PG_PASSWORD # "" /\ env.JOB_HOST # ""

\* GetParms comes to its i-th option only if all before it could be read.
Reaches(env, i) ==
  Required(env) /\ \A j \in 1..(i - 1) : env[Options[j]] # "malformed"

\* A malformed option is false and those after it keep their defaults.
Option(env, i) ==
  LET value == env[Options[i]] IN
  IF Reaches(env, i) /\ value # "" THEN value = "true" ELSE Default(Options[i])

ParmsError(env) == ~Reaches(env, Len(Options) + 1)

GetParms[env \in Variables] ==
  [JOB_HOST |-> env.JOB_HOST,
   PG_USER |-> env.PG_USER,
   PG_PASSWORD |-> IF env.PG_USER = "" THEN "" ELSE env.PG_PASSWORD,
   PG_PORT |-> Or(IF env.PG_USER = "" THEN "" ELSE env.PG_PORT, "5432"),
   PG_DATABASE |-> Or(IF env.PG_USER = "" THEN "" ELSE env.PG_DATABASE, "postgres"),
   VAC_TABLE |-> env.VAC_TABLE,
   VAC_FULL |-> Option(env, 1), VAC_ANALYZE |-> Option(env, 2),
   VAC_VERBOSE |-> Option(env, 3), VAC_FREEZE |-> Option(env, 4)]

Flag(value) == IF value THEN "true" ELSE "false"

\* Mutant: the template has no VAC_TABLE.
MutNoTable(parms) ==
  [parms EXCEPT !.VAC_TABLE = "", !.VAC_FULL = Flag(@), !.VAC_ANALYZE = Flag(@),
                !.VAC_VERBOSE = Flag(@), !.VAC_FREEZE = Flag(@)]

\* The environment the template gives the pod.
PodEnvironment(parms) ==
  [parms EXCEPT !.VAC_FULL = Flag(@), !.VAC_ANALYZE = Flag(@),
                !.VAC_VERBOSE = Flag(@), !.VAC_FREEZE = Flag(@)]

\* The pieces of the statement.  The options bring their blanks with them,
\* VACUUM and the table have none.
Piece(wanted, word) == IF wanted THEN <<"blank", word, "blank">> ELSE <<>>
VacuumCommand(parms) ==
  <<"VACUUM">> \o Piece(parms.VAC_FULL, "FULL") \o Piece(parms.VAC_FREEZE, "FREEZE")
    \o Piece(parms.VAC_VERBOSE, "VERBOSE") \o Piece(parms.VAC_ANALYZE, "ANALYZE")
    \o (IF parms.VAC_TABLE # "" THEN <<parms.VAC_TABLE>> ELSE <<>>)

\* The parameters the pod of a vacuum job has in the end.
PodParms(env) == GetParms[PodEnvironment(GetParms[env])]

\* The server reads two words without a blank between them as one.
Understood(statement) ==
  \A i \in 1..(Len(statement) - 1) : statement[i] = "blank" \/ statement[i + 1] = "blank"

-----------------------------------------------------------------------------
(* What the documentation says of the settings.                            *)

Wanted(env, option) == Or(env[option], Flag(Default(option))) = "true"
Words(statement) == {statement[i] : i \in DOMAIN statement} \ {"blank"}
Word(option) ==
  CASE option = "VAC_FULL" -> "FULL" [] option = "VAC_ANALYZE" -> "ANALYZE"
    [] option = "VAC_VERBOSE" -> "VERBOSE" [] option = "VAC_FREEZE" -> "FREEZE"

\* The server takes each keyword at most once and in its place, and the
\* table after them.
Rank(word) ==
  CASE word = "VACUUM" -> 1 [] word = "FULL" -> 2 [] word = "FREEZE" -> 3
    [] word = "VERBOSE" -> 4 [] word = "ANALYZE" -> 5 [] OTHER -> 6
InOrder(statement) ==
  \A i, j \in DOMAIN statement :
    i < j /\ "blank" \notin {statement[i], statement[j]} =>
      Rank(statement[i]) < Rank(statement[j])

\* The database that was asked for, the options that were asked for or are
\* the default, and the one table if there is one.
AsDocumented(env, parms) ==
  LET statement == VacuumCommand(parms)
      wanted == {o \in {Options[i] : i \in 1..Len(Options)} : Wanted(env, o)}
  IN /\ <<parms.JOB_HOST, parms.PG_USER, parms.PG_PASSWORD>>
          = <<env.JOB_HOST, env.PG_USER, env.PG_PASSWORD>>
     /\ parms.PG_PORT = Or(env.PG_PORT, "5432")
     /\ parms.PG_DATABASE = Or(env.PG_DATABASE, "postgres")
     /\ Words(statement) = {"VACUUM"} \cup {Word(o) : o \in wanted} \cup ({env.VAC_TABLE} \ {""})
     /\ InOrder(statement)
     /\ Understood(statement) <=> env.VAC_TABLE = "" \/ wanted # {}
=============================================================================
