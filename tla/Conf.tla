-------------------------------- MODULE Conf --------------------------------
(***************************************************************************)
(* The configuration: conf::Conf, its units, the loader of the file, and   *)
(* how a value is read from an environment variable.                       *)
(*                                                                         *)
(* A text is a sequence of characters where it is split into a list; where *)
(* it is read as a number it is that number.  Keys are valid JSON          *)
(* pointers, but for the empty one.                                        *)
(***************************************************************************)
EXTENDS Integers, Sequences

CONSTANTS
  Keys, EnvNames,     (* keys and variables a caller may give              *)
  NoName,             (* the empty string, as a key or a variable          *)
  Environments,       (* the environments the process may be started in    *)
  Files,              (* what the file may hold: an object, as a function  *)
  Characters,         (* of texts                                          *)
  Lists,              (* the lists somebody may write in a variable        *)
  Half,               (* those from -Half to Half - 1 are of type int      *)
  NoUnit, Unset, Null (* no unit, no value, config_ before it is loaded    *)

(* splitChar and escape, as getEnvValue calls splitEscaped. *)
Separator == ","
Escape    == "\\"

ASSUME NamesAssumption == NoName \notin Keys /\ NoName \notin EnvNames
ASSUME ListsAssumption ==
  /\ {Separator, Escape} \subseteq Characters
  /\ \A list \in Lists : list \in Seq(Seq(Characters)) /\ list # <<>>
ASSUME HalfAssumption == Half \in Nat \ {0}

Types == {"int", "int64", "string", "list", "bool"}

(* JSON values and the texts of variables: their kind and what they say. *)
Number(n)   == [number |-> n]
Text(s)     == [text |-> s]
List(l)     == [list |-> l]
Boolean(b)  == [boolean |-> b]
Is(v, kind) == kind \in DOMAIN v

(* A value is of one kind; a variable has a value or none. *)
IsValue(v) == v \in [number : Int] \/ DOMAIN v \in {{"text"}, {"list"}, {"boolean"}}

ASSUME FilesAssumption == \A file \in Files : \A k \in DOMAIN file : IsValue(file[k])
ASSUME EnvironmentsAssumption ==
  \A e \in Environments : \A n \in EnvNames : e[n] = Unset \/ IsValue(e[n])

VARIABLES
  units,      (* units_: the type of a unit and its variable               *)
  config,     (* config_                                                   *)
  env,        (* the environment, which the process does not change        *)
  answer      (* of the last call                                          *)

vars == <<units, config, env, answer>>

Throws        == [outcome |-> "throws"]
Done          == [outcome |-> "done"]
Crash         == [outcome |-> "crash"]
Value(k, o, v) == [outcome |-> "value", key |-> k, origin |-> o, value |-> v]

Init ==
  /\ units = [k \in Keys |-> NoUnit]
  /\ config = Null
  /\ env \in Environments
  /\ answer = Done

Loaded == config # Null

-----------------------------------------------------------------------------
(* Texts *)

(* splitEscaped(value, ',', '\\'): an escape before a separator or another *)
(* escape stands for that character, any other stands for itself.          *)
Special_Separator(c) == c = Separator             \* mutant: nextChar == splitChar
Special(c) == c \in {Separator, Escape}

SplitEscaped(text) ==
  LET split[i \in 1..Len(text) + 1] ==      \* the items of text[i..], the first being one begun
        IF i > Len(text) THEN << <<>> >>
        ELSE LET skip  == text[i] = Escape /\ i < Len(text) /\ Special(text[i + 1])
                 rest  == split[IF skip THEN i + 2 ELSE i + 1]
                 first(c) == <<(<<c>> \o Head(rest))>> \o Tail(rest)
             IN  IF skip THEN first(text[i + 1])
                 ELSE IF text[i] = Separator THEN << <<>> >> \o rest
                 ELSE first(text[i])
  IN  split[1]

-----------------------------------------------------------------------------
(* UConf::getEnvValue *)

InRange(t, n) == t = "int" => -Half <= n /\ n < Half

(* static_cast<int>(int64_t) *)
Narrow(t, n) == IF t = "int" THEN ((n + Half) % (2 * Half)) - Half ELSE n

(* What a variable says to a unit of type t, if anything: of no text is    *)
(* lowerValue != "true" || lowerValue != "false" false.                    *)
EnvSays(t, v) ==
  CASE t \in {"int", "int64"} /\ Is(v, "number") /\ InRange(t, v.number) -> {Number(Narrow(t, v.number))}
    [] t = "string" -> {v}
    [] t = "list"   -> {List(IF Is(v, "text") THEN SplitEscaped(v.text) ELSE <<v>>)}
    [] OTHER        -> {}

-----------------------------------------------------------------------------
(* Conf::validate *)

Accepts(t, v) ==
  CASE t \in {"int", "int64"} -> Is(v, "number")
    [] t = "string" -> Is(v, "text")
    [] t = "list"   -> Is(v, "list")
    [] t = "bool"   -> Is(v, "boolean")

IsValid(file) ==
  \A k \in DOMAIN file : units[k] # NoUnit => Accepts(units[k].type, file[k])

-----------------------------------------------------------------------------
(* The calls *)

Refuse == answer' = Throws /\ UNCHANGED <<units, config, env>>

MayAdd_Anytime(k, e) ==                     \* mutant: also when it is loaded
  /\ k # NoName /\ e # NoName
  /\ units[k] = NoUnit
  /\ \A j \in Keys : units[j] # NoUnit => units[j].env # e
MayAdd(k, e) ==
  /\ ~Loaded
  /\ k # NoName /\ e # NoName
  /\ units[k] = NoUnit
  /\ \A j \in Keys : units[j] # NoUnit => units[j].env # e

AddUnit(k, e, t) ==
  IF MayAdd(k, e)
  THEN /\ units' = [units EXCEPT ![k] = [type |-> t, env |-> e]]
       /\ answer' = Done
       /\ UNCHANGED <<config, env>>
  ELSE Refuse

(* The file may be missing or no object; its values are any. *)
Load(file) ==
  IF ~Loaded /\ IsValid(file)
  THEN config' = file /\ answer' = Done /\ UNCHANGED <<units, env>>
  ELSE Refuse
LoadFails == Refuse

Default(t) ==
  CASE t \in {"int", "int64"} -> Number(0)
    [] t = "string" -> Text(<<>>)
    [] t = "list"   -> List(<<>>)
    [] t = "bool"   -> Boolean(FALSE)

(* The getters of json::Json give nothing for a value of another type. *)
InFile(k) == Loaded /\ k \in DOMAIN config /\ Accepts(units[k].type, config[k])

FromFile_First(k) == InFile(k)              \* mutant: the file before the variable
FromFile(k) == InFile(k) /\ env[units[k].env] = Unset

(* toStr of an empty list removes the last character of an empty string. *)
Logged(v) == IF v = List(<<>>) THEN {"value", "crash"} ELSE {"value"}

Give(k, origin, v) ==
  /\ \E o \in Logged(v) : answer' = IF o = "crash" THEN Crash ELSE Value(k, origin, v)
  /\ UNCHANGED <<units, config, env>>

(* The cast to UConf<T> fails for another type than the unit's. *)
Casts_Statically(k, t) == TRUE              \* mutant: static_pointer_cast
Casts(k, t) == units[k].type = t

(* get<T> *)
Get(k, t) ==
  IF k = NoName \/ units[k] = NoUnit \/ ~Casts(k, t) THEN Refuse
  ELSE IF FromFile(k)
  THEN LET v == config[k]
       IN  Give(k, "file", IF Is(v, "number") THEN Number(Narrow(t, v.number)) ELSE v)
  ELSE IF env[units[k].env] = Unset
  THEN Give(k, "default", Default(t))
  ELSE LET said == EnvSays(t, env[units[k].env])
       IN  IF said = {} THEN Refuse ELSE \E v \in said : Give(k, "env", v)

Running == answer # Crash

Next ==
  /\ Running
  /\ \/ \E k \in Keys \union {NoName}, e \in EnvNames \union {NoName}, t \in Types : AddUnit(k, e, t)
     \/ \E file \in Files : Load(file)
     \/ LoadFails
     \/ \E k \in Keys \union {NoName}, t \in Types : Get(k, t)

Spec == Init /\ [][Next]_vars

-----------------------------------------------------------------------------
(* Properties *)

(* The types; what get returns is of the type asked for, which is that of  *)
(* the unit.  (Any text of a variable is a string.)                        *)
ConfTypeOK ==
  /\ \A k \in Keys : units[k] # NoUnit => units[k].type \in Types /\ units[k].env \in EnvNames
  /\ Loaded => config \in Files
  /\ env \in Environments
  /\ answer.outcome = "value" =>
       LET t == units[answer.key].type IN
       /\ (t = "string" /\ answer.origin = "env") \/ Accepts(t, answer.value)
       /\ t = "int" => -Half <= answer.value.number /\ answer.value.number < Half

(* Once it is loaded, what the file says to a unit is of its type, whatever *)
(* calls come after: load validates it against every unit there will be.    *)
LoadedIsTyped == Loaded => IsValid(config)

(* The environment comes before the file, and the file before the default. *)
MostSpecificFirst ==
  answer.outcome = "value" =>
    /\ answer.origin # "env" => env[units[answer.key].env] = Unset
    /\ answer.origin = "default" => ~Loaded \/ answer.key \notin DOMAIN config

(* How a list is written in a variable: its items with a comma between,    *)
(* and an escape before their commas and escapes.                          *)
Escaped(item) ==
  LET from[i \in 1..Len(item) + 1] ==       \* what item[i..] is written as
        IF i > Len(item) THEN <<>>
        ELSE (IF item[i] \in {Separator, Escape} THEN <<Escape, item[i]>> ELSE <<item[i]>>) \o from[i + 1]
  IN  from[1]
Written(list) ==
  LET from[i \in 1..Len(list)] ==           \* what list[i..] is written as
        Escaped(list[i]) \o (IF i = Len(list) THEN <<>> ELSE <<Separator>> \o from[i + 1])
  IN  from[1]

(* A value is what its source says: a list written with escapes is read as *)
(* the list it was, and a number as the number, or not at all.  (But a     *)
(* number of the file that is too large for an int is cut to its bits.)    *)
ReadsAsWritten ==
  answer.outcome = "value" =>
    LET u == units[answer.key] IN
    /\ answer.origin = "file" =>
         \/ answer.value = config[answer.key]
         \/ Is(config[answer.key], "number") /\ ~InRange(u.type, config[answer.key].number)
    /\ answer.origin = "env" /\ u.type # "list" => answer.value = env[u.env]
    /\ answer.origin = "env" /\ u.type = "list" =>
         \A list \in Lists : env[u.env] = Text(Written(list)) => answer.value.list = list
=============================================================================
