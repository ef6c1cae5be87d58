---------------------------- MODULE StartupProofs ----------------------------
(***************************************************************************)
(* Proofs about Settings and Startup. For every file and every             *)
(* environment: what the run of Service tries on a sample of set-ups holds *)
(* of all of them. For every number of migrations, any set-ups and any     *)
(* number of failures: what is recorded of a schema is what took effect,   *)
(* without a gap, and whoever gets past ensure_ready finds all of it.      *)
(* About a start, what a configuration holds is left open: those proofs    *)
(* use only that one that loads names a file (StartupAssumption).          *)
(***************************************************************************)
EXTENDS Startup, TLAPS

\* Any file and any environment, with any texts.
Forms  == {"mapping", "empty", "missing", "unreadable", "other"}
Values == [Keys -> Int]
SetUps == [named : BOOLEAN, file : [form : Forms, values : Values], env : Values]

-----------------------------------------------------------------------------
(* The table of rules.                                                     *)

Positive == {"BAUD_RATE", "AT_TIMEOUT_SECS", "DEFAULT_RATE_LIMIT",
             "RATE_WINDOW_SECS", "REOPEN_MAX_ATTEMPTS", "SEND_MAX_ATTEMPTS"}

LEMMA KeysAre ==
  Keys = {"LISTEN_ADDR", "SERIAL_PORT", "BAUD_RATE", "DATABASE_PATH",
          "SERVICE_CENTER_NUMBER", "AT_TIMEOUT_SECS", "DEFAULT_RATE_LIMIT",
          "RATE_WINDOW_SECS", "LOG_LEVEL", "LOG_DIR", "LOG_FILE_PREFIX",
          "LOG_ROTATION", "LOG_MAX_FILES", "REOPEN_MAX_ATTEMPTS",
          "SEND_MAX_ATTEMPTS", "SEND_RETRY_DELAY_SECS", "ADMIN_COOKIE_SECURE"}
BY SMT DEF Keys, Rule

\* What a rule of each kind says.
LEMMA NumberIs ==
  ASSUME NEW d, NEW l, NEW m
  PROVE  Number(d, l, m).default = d /\ Number(d, l, m).range = l..m
BY SMT DEF Number

LEMMA NumberIsNotFree == \A d, l, m : Number(d, l, m).free = FALSE
BY SMT DEF Number

LEMMA FreeIs == \A d : Free(d).free = TRUE
BY SMT DEF Free

LEMMA NeededIs ==
  ASSUME NEW r
  PROVE  /\ Needed(r).needed = TRUE /\ Needed(r).free = r.free
         /\ Needed(r).range = r.range
BY SMT DEF Needed

LEMMA RuleIs ==
  /\ Rule["LISTEN_ADDR"] = Needed(Number(Unset, 0, Huge))
  /\ Rule["SERIAL_PORT"] = Free(0)
  /\ Rule["BAUD_RATE"] = Number(115200, 1, Huge)
  /\ Rule["DATABASE_PATH"] = Needed(Free(Unset))
  /\ Rule["SERVICE_CENTER_NUMBER"] = Free(Unset)
  /\ Rule["AT_TIMEOUT_SECS"] = Number(5, 1, 60)
  /\ Rule["DEFAULT_RATE_LIMIT"] = Number(100, 1, 10000)
  /\ Rule["RATE_WINDOW_SECS"] = Number(60, 1, Huge)
  /\ Rule["LOG_LEVEL"] = Number(2, 0, 5 - 1)
  /\ Rule["LOG_DIR"] = Free(Unset)
  /\ Rule["LOG_FILE_PREFIX"] = Free(0)
  /\ Rule["LOG_ROTATION"] = Number(2, 0, 4 - 1)
  /\ Rule["LOG_MAX_FILES"] = Number(7, 0, 10000)
  /\ Rule["REOPEN_MAX_ATTEMPTS"] = Number(10, 1, 1000)
  /\ Rule["SEND_MAX_ATTEMPTS"] = Number(3, 1, 100)
  /\ Rule["SEND_RETRY_DELAY_SECS"] = Number(5, 0, 3600)
  /\ Rule["ADMIN_COOKIE_SECURE"] = Number(0, 0, 2 - 1)
BY SMTT(20) DEF Rule, Word, LogLevel, LogRotation

\* One is a good value of every setting.
LEMMA OneIsGood == \A k \in Keys : Rule[k].free \/ 1 \in Rule[k].range
<1>1. \A d, l, m : l \in Int /\ m \in Int /\ l <= 1 /\ 1 <= m =>
        1 \in Number(d, l, m).range
  <2> TAKE d, l, m
  <2>1. Number(d, l, m).range = l..m
    BY NumberIs
  <2> QED BY SMT, <2>1
<1>2. \A d : Free(d).free
  BY FreeIs
<1>3. 1 <= Huge /\ Huge \in Int
  BY SMT DEF Huge
<1>4. Needed(Free(Unset)).free
  BY <1>2, NeededIs
<1>5. 1 \in Needed(Number(Unset, 0, Huge)).range
  <2>1. Needed(Number(Unset, 0, Huge)).range = Number(Unset, 0, Huge).range
    BY NeededIs
  <2>2. 1 \in Number(Unset, 0, Huge).range
    BY SMT, <1>1, <1>3
  <2> QED BY <2>1, <2>2
<1> QED BY SMT, <1>1, <1>2, <1>3, <1>4, <1>5, KeysAre, RuleIs

\* A setting that is to be positive is, by default and by its range.
LEMMA PositiveRules == \A k \in Positive :
  /\ k \in Keys /\ ~Rule[k].free /\ Rule[k].default \in Nat \ {0}
  /\ Rule[k].range \subseteq Nat \ {0}
<1>1. ASSUME NEW k \in Positive
      PROVE  \E d \in Nat \ {0}, m \in Int : Rule[k] = Number(d, 1, m)
  BY SMT, RuleIs DEF Positive, Huge
<1>2. Positive \subseteq Keys
  BY SMT, KeysAre DEF Positive
<1>3. ASSUME NEW k \in Positive
      PROVE  /\ ~Rule[k].free /\ Rule[k].default \in Nat \ {0}
             /\ Rule[k].range \subseteq Nat \ {0}
  <2>1. PICK d \in Nat \ {0}, m \in Int : Rule[k] = Number(d, 1, m)
    BY <1>1
  <2>2. Rule[k].free = FALSE
    BY <2>1, NumberIsNotFree
  <2>3. Rule[k].default = d /\ Rule[k].range = 1..m
    BY <2>1, NumberIs
  <2> QED BY <2>2, <2>3
<1> QED BY <1>2, <1>3

LEMMA DatabaseRule == "DATABASE_PATH" \in Keys /\ Rule["DATABASE_PATH"].needed
<1>1. Needed(Free(Unset)).needed
  BY NeededIs
<1> QED BY <1>1, RuleIs, KeysAre

LEMMA OrderIs ==
  /\ DOMAIN Order = 1..17
  /\ \A i \in 1..17 : Order[i] \in Keys
  /\ \A i, j \in 1..17 : Order[i] = Order[j] => i = j
  /\ \A k \in Keys : \E i \in 1..17 : Order[i] = k
BY KeysAre DEF Order

LEMMA PlaceOfKey == \A i \in 1..17 : Place(Order[i]) = i
BY OrderIs DEF Place

\* A set of places that is not empty has a first.
LEMMA FirstPlace ==
  ASSUME NEW S \in SUBSET (1..17), S # {}
  PROVE  \E i \in S : \A j \in S : i <= j
<1>1. SUFFICES ASSUME \A i \in S : \E j \in S : j < i PROVE FALSE
  OBVIOUS
<1>2. 1 \notin S /\ 2 \notin S /\ 3 \notin S /\ 4 \notin S
  BY <1>1
<1>3. 5 \notin S /\ 6 \notin S /\ 7 \notin S /\ 8 \notin S
  BY <1>1, <1>2
<1>4. 9 \notin S /\ 10 \notin S /\ 11 \notin S /\ 12 \notin S
  BY <1>1, <1>2, <1>3
<1>5. 13 \notin S /\ 14 \notin S /\ 15 \notin S /\ 16 \notin S /\ 17 \notin S
  BY <1>1, <1>2, <1>3, <1>4
<1>6. PICK n \in S : n \in 1..17
  OBVIOUS
<1> QED BY SMT, <1>2, <1>3, <1>4, <1>5, <1>6

-----------------------------------------------------------------------------
(* from_map.                                                               *)

Faulty(map) == {i \in DOMAIN Order : FieldError(map, Order[i]) # Fine}

LEMMA FromMapIs ==
  ASSUME NEW map
  PROVE  \/ /\ \A k \in Keys : FieldError(map, k) = Fine
            /\ FromMap(map) = [error |-> Fine, conf |-> [k \in Keys |-> Field(map, k)]]
         \/ \E i \in Faulty(map) :
              /\ \A j \in Faulty(map) : i <= j
              /\ FromMap(map) = [error |-> FieldError(map, Order[i]), conf |-> NoValues]
<1> DEFINE F == Faulty(map)
<1>1. F \subseteq 1..17
  BY OrderIs DEF Faulty
<1>2. CASE F = {}
  <2>1. FromMap(map) = [error |-> Fine, conf |-> [k \in Keys |-> Field(map, k)]]
    BY <1>2 DEF FromMap, Faulty
  <2>2. \A k \in Keys : FieldError(map, k) = Fine
    BY <1>2, OrderIs DEF Faulty
  <2> QED BY <2>1, <2>2
<1>3. CASE F # {}
  <2> DEFINE first == CHOOSE i \in F : \A j \in F : i <= j
  <2>1. first \in F /\ \A j \in F : first <= j
    BY <1>1, <1>3, FirstPlace
  <2>2. FromMap(map) = [error |-> FieldError(map, Order[first]), conf |-> NoValues]
    BY <1>3 DEF FromMap, Faulty
  <2> HIDE DEF first
  <2> QED BY <2>1, <2>2
<1> QED BY <1>2, <1>3

\* Two maps that are alike to every rule give one result.
LEMMA SameMap ==
  ASSUME NEW a, NEW b, \A k \in Keys : FieldError(a, k) = FieldError(b, k),
         \A k \in Keys : Field(a, k) = Field(b, k)
  PROVE  FromMap(a) = FromMap(b)
<1>1. Faulty(a) = Faulty(b) /\ Faulty(a) \subseteq 1..17
  BY OrderIs DEF Faulty
<1>2. [k \in Keys |-> Field(a, k)] = [k \in Keys |-> Field(b, k)]
  OBVIOUS
<1>3. CASE Faulty(a) = {}
  BY <1>1, <1>2, <1>3 DEF FromMap, Faulty
<1>4. CASE Faulty(a) # {}
  <2> DEFINE first == CHOOSE i \in Faulty(a) : \A j \in Faulty(a) : i <= j
             other == CHOOSE i \in Faulty(b) : \A j \in Faulty(b) : i <= j
  <2>1. first = other
    BY <1>1
  <2>2. first \in 1..17
    BY <1>1, <1>4, FirstPlace
  <2>3. FromMap(a) = [error |-> FieldError(a, Order[first]), conf |-> NoValues]
    BY <1>4 DEF FromMap, Faulty
  <2>4. FromMap(b) = [error |-> FieldError(b, Order[other]), conf |-> NoValues]
    BY <1>1, <1>4 DEF FromMap, Faulty
  <2> HIDE DEF first, other
  <2> QED BY <2>1, <2>2, <2>3, <2>4, OrderIs
<1> QED BY <1>3, <1>4

-----------------------------------------------------------------------------
(* load.                                                                   *)

LEMMA FileReadIsNot == Raises("FileRead", "none") # Fine
BY DEF Raises, Fine

\* A configuration that loads has come from from_map, without an error.
LEMMA LoadedIs ==
  ASSUME NEW s, Loads(s)
  PROVE  LET map == Merged(FileMap(s.file), s.env) IN
         /\ \A k \in Keys : FieldError(map, k) = Fine
         /\ Load(s).conf = [k \in Keys |-> Field(map, k)]
<1> DEFINE map == Merged(FileMap(s.file), s.env)
<1>1. Load(s) = FromMap(map)
  BY FileReadIsNot DEF Loads, Load
<1>2. FromMap(map).error = Fine
  BY <1>1 DEF Loads
<1> HIDE DEF map
<1>3. ~ \E i \in Faulty(map) :
          /\ \A j \in Faulty(map) : i <= j
          /\ FromMap(map) = [error |-> FieldError(map, Order[i]), conf |-> NoValues]
  BY <1>2 DEF Faulty
<1> QED BY <1>1, <1>3, FromMapIs DEF map

LEMMA InvalidIsNot ==
  \A k : Raises("InvalidValue", k) # Fine /\ Raises("MissingKey", k) # Fine
BY DEF Raises, Fine

\* A positive setting is positive once it is loaded.
LEMMA LoadedPositive ==
  ASSUME NEW s, Loads(s), NEW k \in Positive
  PROVE  Load(s).conf[k] \in Nat \ {0}
<1> DEFINE map == Merged(FileMap(s.file), s.env)
<1>1. /\ \A j \in Keys : FieldError(map, j) = Fine
      /\ Load(s).conf = [j \in Keys |-> Field(map, j)]
  BY LoadedIs
<1> HIDE DEF map
<1>2. k \in Keys /\ ~Rule[k].free /\ Rule[k].default \in Nat \ {0}
      /\ Rule[k].range \subseteq Nat \ {0}
  BY PositiveRules
<1>3. Given(map[k]) => map[k] \in Rule[k].range
  BY <1>1, <1>2, InvalidIsNot DEF FieldError
<1> QED BY <1>1, <1>2, <1>3 DEF Field

LEMMA LoadedUsable == ASSUME NEW s, Loads(s) PROVE Usable(Load(s).conf)
<1> DEFINE map == Merged(FileMap(s.file), s.env)
<1>1. /\ \A k \in Keys : FieldError(map, k) = Fine
      /\ Load(s).conf = [k \in Keys |-> Field(map, k)]
  BY LoadedIs
<1> HIDE DEF map
<1>2. \A k \in Positive : Load(s).conf[k] >= 1
  BY LoadedPositive
<1>3. Load(s).conf["DATABASE_PATH"] \notin {Unset, Blank}
  <2>1. Given(map["DATABASE_PATH"])
    BY <1>1, DatabaseRule, InvalidIsNot DEF FieldError
  <2> QED BY <1>1, <2>1, DatabaseRule DEF Field, Given
<1> QED BY <1>2, <1>3 DEF Usable, Positive

-----------------------------------------------------------------------------
(* The environment over the file.                                          *)

\* Only the map counts, if both files are read.
LEMMA SameLoad ==
  ASSUME NEW s, NEW t, ~FileFails(s), ~FileFails(t),
         LET a == Merged(FileMap(s.file), s.env)
             b == Merged(FileMap(t.file), t.env)
         IN \A k \in Keys : a[k] = b[k] \/ (~Given(a[k]) /\ ~Given(b[k]))
  PROVE  Load(s) = Load(t)
<1> DEFINE a == Merged(FileMap(s.file), s.env)
           b == Merged(FileMap(t.file), t.env)
<1>1. Load(s) = FromMap(a) /\ Load(t) = FromMap(b)
  BY DEF Load
<1>2. \A k \in Keys : a[k] = b[k] \/ (~Given(a[k]) /\ ~Given(b[k]))
  OBVIOUS
<1> HIDE DEF a, b
<1>3. \A k \in Keys : FieldError(a, k) = FieldError(b, k) /\ Field(a, k) = Field(b, k)
  BY <1>2 DEF FieldError, Field
<1> QED BY <1>1, <1>3, SameMap

LEMMA WithFileIs ==
  ASSUME NEW s \in SetUps, NEW k \in Keys, NEW raw \in Int
  PROVE  /\ WithFile(s, k, raw).named = s.named /\ WithFile(s, k, raw).env = s.env
         /\ WithFile(s, k, raw).file.form = s.file.form
         /\ WithFile(s, k, raw).file.values = [s.file.values EXCEPT ![k] = raw]
         /\ WithFile(s, k, raw) \in SetUps
BY DEF WithFile, SetUps, Values

LEMMA WithEnvIs ==
  ASSUME NEW s \in SetUps, NEW k \in Keys, NEW raw \in Int
  PROVE  /\ WithEnv(s, k, raw).named = s.named /\ WithEnv(s, k, raw).file = s.file
         /\ WithEnv(s, k, raw).env = [s.env EXCEPT ![k] = raw]
         /\ WithEnv(s, k, raw) \in SetUps
BY DEF WithEnv, SetUps, Values

LEMMA TextsAreInts == Unset \in Int /\ Blank \in Int /\ Unset # Nested /\ Blank # Nested
                      /\ Unset # Blank /\ Given(1)
BY DEF Unset, Blank, Nested, Given

LEMMA PrecedenceHolds == ASSUME NEW s \in SetUps PROVE Precedence(s)
<1> SUFFICES ASSUME Parses(s.file), s.file.form = "mapping", NEW k \in SetIn(s)
             PROVE  /\ s.env[k] # Unset => Load(s) = Load(WithFile(s, k, Unset))
                    /\ s.env[k] = Unset => Load(s) = Load(WithEnv(s, k, s.file.values[k]))
                    /\ s.file.values[k] = Blank => Load(s) = Load(WithFile(s, k, Unset))
  BY DEF Precedence
<1> DEFINE v == s.file.values
           t == WithFile(s, k, Unset)
           u == WithEnv(s, k, v[k])
<1>1. k \in Keys /\ v \in [Keys -> Int] /\ s.env \in [Keys -> Int] /\ v[k] \in Int
  BY DEF SetIn, SetUps, Values
<1>2. t.env = s.env /\ t.file.form = "mapping" /\ t.file.values = [v EXCEPT ![k] = Unset]
  BY <1>1, WithFileIs, TextsAreInts
<1>3. u.file = s.file /\ u.env = [s.env EXCEPT ![k] = v[k]]
  BY <1>1, WithEnvIs
<1>4. ~FileFails(s) /\ FileMap(s.file) = v
  BY DEF FileFails, FileMap
<1>5. ~FileFails(u) /\ FileMap(u.file) = v
  BY <1>3 DEF FileFails, FileMap
<1>6. ~FileFails(t) /\ FileMap(t.file) = [v EXCEPT ![k] = Unset]
  <2>1. \A j \in Keys : t.file.values[j] # Nested
    BY <1>1, <1>2, TextsAreInts DEF Parses
  <2> QED BY <1>2, <2>1 DEF FileFails, FileMap, Parses
<1> HIDE DEF v, t, u
<1>7. ASSUME s.env[k] # Unset \/ v[k] = Blank PROVE Load(s) = Load(t)
  <2>1. \A j \in Keys : LET a == Merged(v, s.env)
                            b == Merged([v EXCEPT ![k] = Unset], t.env)
                        IN a[j] = b[j] \/ (~Given(a[j]) /\ ~Given(b[j]))
    BY <1>1, <1>2, <1>7 DEF Merged, Given
  <2> QED BY <1>4, <1>6, <2>1, SameLoad
<1>8. ASSUME s.env[k] = Unset PROVE Load(s) = Load(u)
  <2>1. \A j \in Keys : Merged(v, s.env)[j] = Merged(v, u.env)[j]
    BY <1>1, <1>3, <1>8 DEF Merged
  <2> QED BY <1>4, <1>5, <2>1, SameLoad
<1> QED BY <1>7, <1>8 DEF v, t, u

-----------------------------------------------------------------------------
(* Repairing what the error names.                                         *)

LEMMA RepairHolds == ASSUME NEW s \in SetUps PROVE RepairAdvances(s)
<1> DEFINE e == Load(s).error
           map == Merged(FileMap(s.file), s.env)
           t == WithEnv(s, e.key, 1)
           new == Merged(FileMap(t.file), t.env)
<1> SUFFICES ASSUME e.error \in {"MissingKey", "InvalidValue"}
             PROVE  Load(t).error = Fine
                    \/ (Load(t).error.key \in Keys /\ Place(Load(t).error.key) > Place(e.key))
  BY DEF RepairAdvances
<1>1. ~FileFails(s) /\ Load(s) = FromMap(map)
  BY DEF Load, Raises
<1>2. e # Fine
  BY DEF Fine, Raises
<1>3. PICK i \in Faulty(map) :
        /\ \A j \in Faulty(map) : i <= j
        /\ FromMap(map) = [error |-> FieldError(map, Order[i]), conf |-> NoValues]
  BY <1>1, <1>2, FromMapIs
<1>4. i \in 1..17 /\ e = FieldError(map, Order[i])
  BY <1>1, <1>3, OrderIs DEF Faulty
<1>5. e.key = Order[i]
  BY <1>2, <1>4 DEF FieldError, Raises
<1>6. Order[i] \in Keys /\ Place(Order[i]) = i
  BY <1>4, OrderIs, PlaceOfKey
<1>7. t.file = s.file /\ t.named = s.named /\ t.env = [s.env EXCEPT ![Order[i]] = 1]
      /\ s.env \in [Keys -> Int]
  <2>1. s.env \in [Keys -> Int]
    BY DEF SetUps, Values
  <2>2. t = WithEnv(s, Order[i], 1)
    BY <1>5
  <2>3. 1 \in Int
    OBVIOUS
  <2> HIDE DEF t, e, map, new
  <2>4. Order[i] \in Keys
    BY <1>6
  <2>5. /\ WithEnv(s, Order[i], 1).named = s.named
        /\ WithEnv(s, Order[i], 1).file = s.file
        /\ WithEnv(s, Order[i], 1).env = [s.env EXCEPT ![Order[i]] = 1]
    BY <2>3, <2>4, WithEnvIs
  <2> QED BY <2>1, <2>2, <2>5
<1>8. Load(t) = FromMap(new)
  BY <1>1, <1>7 DEF Load, FileFails
<1>9. /\ new[Order[i]] = 1
      /\ \A k \in Keys : k # Order[i] => new[k] = map[k]
  BY <1>6, <1>7 DEF Merged, Unset
<1> HIDE DEF e, map, t, new
<1>10. FieldError(new, Order[i]) = Fine
  BY <1>6, <1>9, OneIsGood, TextsAreInts DEF FieldError
<1>11. \A j \in Faulty(new) : j \in Faulty(map) /\ j # i /\ j \in 1..17
  BY <1>9, <1>10, OrderIs DEF Faulty, FieldError
<1>12. CASE \A k \in Keys : FieldError(new, k) = Fine
  <2>1. Faulty(new) = {}
    BY <1>12, OrderIs DEF Faulty
  <2> QED BY <1>8, <2>1, FromMapIs
<1>13. ASSUME NEW j \in Faulty(new),
              FromMap(new) = [error |-> FieldError(new, Order[j]), conf |-> NoValues]
       PROVE  Load(t).error.key \in Keys /\ Place(Load(t).error.key) > Place(e.key)
  <2>1. Load(t).error.key = Order[j] /\ j \in 1..17
    BY <1>8, <1>11, <1>13 DEF Faulty, FieldError, Raises
  <2>2. j > i
    BY <1>3, <1>4, <1>11
  <2>3. Place(Order[j]) = j /\ Order[j] \in Keys
    BY <2>1, PlaceOfKey, OrderIs
  <2> QED BY <1>5, <1>6, <2>1, <2>2, <2>3
<1> QED BY <1>12, <1>13, FromMapIs

\* Every set-up is loaded as it should be: what loads is usable, the environment
\* hides the file, blank or not, and repairing the setting that is named moves
\* the error to a later one (Config::from_map, merge_env_over_file, load).
THEOREM EveryOne == \A s \in SetUps : LoadsRight(s)
BY LoadedUsable, PrecedenceHolds, RepairHolds DEF LoadsRight

-----------------------------------------------------------------------------
(* Startup: what every start relies on.                                    *)

USE StartupAssumption DEF Procs, Version

\* The places past ensure_ready.
Past == {"bind", "serve", "upsert"}

-----------------------------------------------------------------------------
(* The inductive invariant. SchemaAsRecorded alone is not kept by Migrate: *)
(* a process must also have seen to all migrations before the one it is to *)
(* look at, which ReadVersion provides because there is no gap.            *)

Shape ==
  /\ DOMAIN setup = Procs /\ DOMAIN conf = Procs
  /\ \A p \in Procs : setup[p] \in Setups[p]
  /\ at \in [Procs -> Places]
  /\ next \in [Procs -> 1..(Latest + 1)] /\ ready \in [Procs -> BOOLEAN]
  /\ admins \subseteq Disks /\ trouble \in 0..MaxTrouble

Tables ==
  /\ recorded \in [Disks -> SUBSET Version]
  /\ applied \in [Disks -> SUBSET Version]
  /\ SchemaAsRecorded

Sound(p) ==
  /\ at[p] \in Working => Disk(p) \in Disks
  /\ at[p] = "migrate" => 1..(next[p] - 1) \subseteq recorded[Disk(p)]
  /\ ready[p] => at[p] \in Past /\ recorded[Disk(p)] = Version
  /\ at[p] \in Past => ready[p]

IInv == Shape /\ Tables /\ \A p \in Procs : Sound(p)

\* It gives the three properties.
LEMMA Enough == IInv => StartupTypeOK /\ SchemaAsRecorded /\ ReadyMeansComplete
<1> SUFFICES ASSUME IInv
             PROVE  StartupTypeOK /\ SchemaAsRecorded /\ ReadyMeansComplete
  OBVIOUS
<1>1. StartupTypeOK
  BY DEF IInv, Shape, Tables, Sound, StartupTypeOK
<1>2. SchemaAsRecorded
  BY DEF IInv, Tables
<1>3. ASSUME NEW p \in Procs, ready[p] PROVE applied[Disk(p)] = Version
  <2>1. Disk(p) \in Disks /\ recorded[Disk(p)] = Version
    BY <1>3 DEF IInv, Sound, Past, Working
  <2> QED BY <1>2, <2>1 DEF SchemaAsRecorded
<1>4. ReadyMeansComplete
  BY <1>3 DEF IInv, Sound, Past, ReadyMeansComplete
<1> QED BY <1>1, <1>2, <1>4

LEMMA InitInv == Init0 => IInv
<1> SUFFICES ASSUME Init0 PROVE IInv
  OBVIOUS
<1>1. Shape
  BY DEF Init0, Shape, Places
<1>2. Tables
  BY DEF Init0, Tables, SchemaAsRecorded
<1>3. \A p \in Procs : Sound(p)
  BY DEF Init0, Sound, Past, Working
<1> QED BY <1>1, <1>2, <1>3 DEF IInv

-----------------------------------------------------------------------------
(* Steps that leave the tables alone.                                      *)

\* A process that neither moves nor is lied to by the file is as sound as it was.
LEMMA Still ==
  ASSUME NEW p \in Procs, Sound(p),
         at'[p] = at[p], conf'[p] = conf[p], next'[p] = next[p],
         ready'[p] = ready[p],
         \A d \in Disks : recorded[d] \subseteq recorded'[d] /\ recorded'[d] \subseteq Version
  PROVE  Sound(p)'
BY DEF Sound, Disk, Past, Working

\* What only reads the file and moves p keeps the invariant, if p stays sound.
LEMMA Moves ==
  ASSUME IInv, NEW p \in Procs, Shape', UNCHANGED file, Sound(p)',
         \A q \in Procs \ {p} : /\ at'[q] = at[q] /\ conf'[q] = conf[q]
                                /\ next'[q] = next[q] /\ ready'[q] = ready[q]
  PROVE  IInv'
<1>1. Tables'
  BY DEF IInv, Tables, SchemaAsRecorded, file
<1>2. \A d \in Disks : recorded[d] \subseteq recorded'[d] /\ recorded'[d] \subseteq Version
  BY DEF IInv, Tables, file
<1>3. ASSUME NEW q \in Procs PROVE Sound(q)'
  <2>1. CASE q = p
    BY <2>1
  <2>2. CASE q # p
    BY <1>2, <2>2, Still DEF IInv
  <2> QED BY <2>1, <2>2
<1> QED BY <1>1, <1>3 DEF IInv

\* To end is always sound.
LEMMA EndsShape ==
  ASSUME Shape, NEW p \in Procs, NEW place \in {"failed", "done"}, Ends(p, place),
         UNCHANGED setup, admins' \subseteq Disks, trouble' \in 0..MaxTrouble
  PROVE  /\ Shape' /\ Sound(p)'
         /\ \A q \in Procs \ {p} : /\ at'[q] = at[q] /\ conf'[q] = conf[q]
                                   /\ next'[q] = next[q] /\ ready'[q] = ready[q]
<1>1. Shape'
  BY DEF Shape, Ends, Goes, Places
<1>2. Sound(p)'
  BY DEF Shape, Ends, Goes, Sound, Past, Working
<1> QED BY <1>1, <1>2 DEF Shape, Ends, Goes

\* To go on without touching anything else, to a place that asks for nothing.
LEMMA GoesOn ==
  ASSUME IInv, NEW p \in Procs, NEW place \in {"load", "migrations", "serve"},
         Goes(p, place), UNCHANGED <<setup, conf, next, ready, file>>,
         trouble' \in 0..MaxTrouble,
         place = "load" => at[p] \notin Past,
         place = "migrations" => at[p] = "connect",
         place = "serve" => at[p] = "bind"
  PROVE  IInv'
<1>1. Shape'
  BY DEF IInv, Shape, Goes, Places, Working, file
<1>2. Sound(p)'
  BY DEF IInv, Shape, Goes, Sound, Disk, Past, Working, file
<1> QED BY <1>1, <1>2, Moves DEF IInv, Shape, Goes

LEMMA LoadInv == ASSUME IInv, NEW p \in Procs, LoadConfig(p) PROVE IInv'
<1> DEFINE found == Load(Found[setup[p]]).conf
<1>1. CASE Loads(Found[setup[p]])
  <2>1. found["DATABASE_PATH"] \in Disks
    BY <1>1 DEF IInv, Shape
  <2>2. conf' = [conf EXCEPT ![p] = found] /\ Goes(p, "connect")
        /\ UNCHANGED <<setup, next, ready, file, trouble>> /\ at[p] = "load"
    BY <1>1 DEF LoadConfig
  <2> HIDE DEF found
  <2>3. Shape'
    BY <2>2 DEF IInv, Shape, Goes, Places, Working, file
  <2>4. Sound(p)'
    BY <2>1, <2>2 DEF IInv, Shape, Goes, Sound, Disk, Past, Working, file
  <2> QED BY <2>2, <2>3, <2>4, Moves DEF IInv, Shape, Goes
<1>2. CASE ~Loads(Found[setup[p]])
  <2>1. Ends(p, "failed") /\ UNCHANGED <<setup, file, trouble>>
    BY <1>2 DEF LoadConfig
  <2> QED BY <2>1, EndsShape, Moves DEF IInv, Shape, file
<1> QED BY <1>1, <1>2

LEMMA ConnectInv == ASSUME IInv, NEW p \in Procs, Connect(p) PROVE IInv'
<1>1. Shape'
  BY DEF IInv, Shape, Connect, Goes, Places, Working, file
<1>2. Sound(p)'
  BY DEF IInv, Shape, Connect, Goes, Sound, Disk, Past, Working, file
<1> QED BY <1>1, <1>2, Moves DEF IInv, Shape, Connect, Goes

\* The greatest version recorded stands for all below it: there is no gap.
LEMMA ReadInv == ASSUME IInv, NEW p \in Procs, ReadVersion(p) PROVE IInv'
<1>1. PICK max \in 0..Latest :
        /\ max = 0 \/ max \in recorded[Disk(p)]
        /\ next' = [next EXCEPT ![p] = max + 1]
  BY DEF ReadVersion
<1>2. at[p] = "migrations" /\ Goes(p, "migrate")
      /\ UNCHANGED <<setup, conf, ready, file, trouble>>
  BY DEF ReadVersion
<1>3. Disk(p) \in Disks
  BY <1>2 DEF IInv, Sound, Working
<1>4. 1..max \subseteq recorded[Disk(p)]
  BY <1>1, <1>3 DEF IInv, Tables, SchemaAsRecorded
<1>5. Shape'
  BY <1>1, <1>2 DEF IInv, Shape, Goes, Places, Working, file
<1>6. next'[p] - 1 = max /\ at'[p] = "migrate" /\ Disk(p)' = Disk(p)
      /\ ready'[p] = ready[p]
  BY <1>1, <1>2 DEF IInv, Shape, Goes, Disk
<1>7. Sound(p)'
  <2>1. ~ready[p]
    BY <1>2 DEF IInv, Sound, Past
  <2> QED BY <1>2, <1>3, <1>4, <1>6, <2>1 DEF Sound, Past, Working, file
<1> QED BY <1>1, <1>2, <1>5, <1>7, Moves DEF IInv, Shape, Goes

\* When nothing is left to migrate everything is recorded.
LEMMA ReadyInv == ASSUME IInv, NEW p \in Procs, SchemaReady(p) PROVE IInv'
<1> DEFINE place == IF p = "service" THEN "bind" ELSE "upsert"
<1>1. at[p] = "migrate" /\ next[p] > Latest /\ Goes(p, place)
      /\ ready' = [ready EXCEPT ![p] = TRUE]
      /\ UNCHANGED <<setup, conf, next, file, trouble>>
  BY DEF SchemaReady
<1>2. Disk(p) \in Disks /\ 1..(next[p] - 1) \subseteq recorded[Disk(p)]
  BY <1>1 DEF IInv, Sound, Working
<1>3. recorded[Disk(p)] = Version
  <2>1. recorded[Disk(p)] \in SUBSET Version
    BY <1>2 DEF IInv, Tables
  <2>2. next[p] \in 1..(Latest + 1)
    BY DEF IInv, Shape
  <2>3. next[p] - 1 = Latest
    BY <1>1, <2>2
  <2> QED BY <1>2, <2>1, <2>3
<1>4. place \in Past
  BY DEF Past
<1> HIDE DEF place
<1>5. Shape'
  BY <1>1, <1>4 DEF IInv, Shape, Goes, Places, Past, Working, file
<1>6. at'[p] = place /\ ready'[p] /\ Disk(p)' = Disk(p)
  BY <1>1 DEF IInv, Shape, Goes, Disk
<1>7. Sound(p)'
  BY <1>1, <1>2, <1>3, <1>4, <1>6 DEF Sound, Past, Working, file
<1> QED BY <1>1, <1>5, <1>7, Moves DEF IInv, Shape, Goes

LEMMA UpsertInv == ASSUME IInv, UpsertAdmin PROVE IInv'
<1>1. Disk("tool") \in Disks
  BY DEF UpsertAdmin, IInv, Sound, Working
<1>2. Ends("tool", "done") /\ UNCHANGED <<setup, recorded, applied, trouble>>
      /\ admins' \subseteq Disks /\ trouble' \in 0..MaxTrouble
  BY <1>1 DEF UpsertAdmin, IInv, Shape
<1>3. /\ Shape' /\ Sound("tool")'
      /\ \A q \in Procs \ {"tool"} : /\ at'[q] = at[q] /\ conf'[q] = conf[q]
                                     /\ next'[q] = next[q] /\ ready'[q] = ready[q]
  BY <1>2, EndsShape DEF IInv
<1>4. Tables'
  BY <1>2 DEF IInv, Tables, SchemaAsRecorded
<1>5. Sound("service")'
  BY <1>2, <1>3, Still DEF IInv, Tables
<1> QED BY <1>3, <1>4, <1>5 DEF IInv

-----------------------------------------------------------------------------
(* The step that writes the tables.                                        *)

LEMMA MigrateInv == ASSUME IInv, NEW p \in Procs, Migrate(p) PROVE IInv'
<1> DEFINE v == next[p]  d == Disk(p)
<1>1. at[p] = "migrate" /\ v <= Latest /\ UNCHANGED <<setup, admins, trouble>>
  BY DEF Migrate
<1>2. d \in Disks /\ 1..(v - 1) \subseteq recorded[d] /\ v \in Version
  BY <1>1 DEF IInv, Shape, Sound, Working
<1>3. CASE v \in recorded[d]
  <2>1. Ends(p, "failed") /\ UNCHANGED <<setup, file, trouble>>
    BY <1>1, <1>3 DEF Migrate, file
  <2> QED BY <2>1, EndsShape, Moves DEF IInv, Shape, file
<1>4. CASE v \notin recorded[d]
  <2>1. /\ recorded' = [recorded EXCEPT ![d] = @ \union {v}]
        /\ applied' = [applied EXCEPT ![d] = @ \union {v}]
        /\ next' = [next EXCEPT ![p] = v + 1]
        /\ UNCHANGED <<at, conf, ready>>
    BY <1>4 DEF Migrate
  <2>2. Shape'
    BY <1>1, <1>2, <2>1 DEF IInv, Shape
  <2>3. recorded' \in [Disks -> SUBSET Version] /\ applied' \in [Disks -> SUBSET Version]
    BY <1>2, <2>1 DEF IInv, Tables
  <2>4. SchemaAsRecorded'
    <3>1. ASSUME NEW e \in Disks
          PROVE  /\ applied'[e] = recorded'[e]
                 /\ \A w \in recorded'[e] : 1..w \subseteq recorded'[e]
      <4>1. applied[e] = recorded[e] /\ \A w \in recorded[e] : 1..w \subseteq recorded[e]
        BY DEF IInv, Tables, SchemaAsRecorded
      <4>2. CASE e # d
        BY <1>2, <2>1, <4>1, <4>2 DEF IInv, Tables
      <4>3. CASE e = d
        <5>1. recorded'[e] = recorded[e] \union {v} /\ applied'[e] = applied[e] \union {v}
          BY <1>2, <2>1, <4>3 DEF IInv, Tables
        <5>2. 1..v \subseteq recorded'[e]
          BY <1>2, <4>3, <5>1
        <5> QED BY <4>1, <5>1, <5>2
      <4> QED BY <4>2, <4>3
    <3> QED BY <3>1 DEF SchemaAsRecorded
  <2>5. \A e \in Disks : recorded[e] \subseteq recorded'[e] /\ recorded'[e] \subseteq Version
    BY <1>2, <2>1, <2>3 DEF IInv, Tables
  <2>6. Sound(p)'
    <3>1. next'[p] - 1 = v /\ Disk(p)' = d /\ at'[p] = "migrate" /\ ~ready'[p]
      BY <1>1, <1>2, <2>1 DEF IInv, Shape, Sound, Past, Disk
    <3>2. 1..v \subseteq recorded'[d]
      BY <1>2, <2>1 DEF IInv, Tables
    <3> HIDE DEF v, d
    <3> QED BY <1>2, <3>1, <3>2 DEF Sound, Past, Working
  <2>7. ASSUME NEW q \in Procs, q # p PROVE Sound(q)'
    <3>1. at'[q] = at[q] /\ conf'[q] = conf[q] /\ next'[q] = next[q] /\ ready'[q] = ready[q]
      BY <2>1, <2>7 DEF IInv, Shape
    <3> QED BY <2>5, <3>1, Still DEF IInv
  <2> QED BY <2>2, <2>3, <2>4, <2>6, <2>7 DEF IInv, Tables
<1> QED BY <1>3, <1>4

-----------------------------------------------------------------------------
(* Every step.                                                             *)

LEMMA FailInv == ASSUME IInv, NEW p \in Procs, Fail(p) PROVE IInv'
<1>1. Ends(p, "failed") /\ UNCHANGED <<setup, file>> /\ trouble' \in 0..MaxTrouble
  BY DEF Fail, Trouble, IInv, Shape
<1> QED BY <1>1, EndsShape, Moves DEF IInv, Shape, file

LEMMA EditInv == ASSUME IInv, NEW p \in Procs, Edit(p) PROVE IInv'
<1>1. Shape'
  BY DEF Edit, Trouble, IInv, Shape, process, file
<1>2. Sound(p)'
  BY DEF Edit, IInv, Sound, Disk, process, file
<1> QED BY <1>1, <1>2, Moves DEF Edit, process

LEMMA StepInv == IInv /\ [StartupNext]_startupVars => IInv'
<1> SUFFICES ASSUME IInv, [StartupNext]_startupVars PROVE IInv'
  OBVIOUS
<1>1. ASSUME NEW p \in Procs, Launch(p) PROVE IInv'
  BY <1>1, GoesOn DEF Launch, IInv, Shape, Past
<1>2. ASSUME NEW p \in Procs, Step(p) PROVE IInv'
  BY <1>2, LoadInv, ConnectInv, ReadInv, MigrateInv, ReadyInv DEF Step
<1>3. ASSUME NEW p \in Procs, Fail(p) \/ Edit(p) PROVE IInv'
  BY <1>3, FailInv, EditInv
<1>4. CASE Bind
  BY <1>4, GoesOn DEF Bind, IInv, Shape
<1>5. CASE Restart
  BY <1>5, GoesOn DEF Restart, IInv, Shape, Past
<1>6. CASE RunAgain
  BY <1>6, GoesOn DEF RunAgain, Trouble, IInv, Shape, Past
<1>7. CASE UpsertAdmin
  BY <1>7, UpsertInv
<1>8. CASE UNCHANGED startupVars
  BY <1>8, Moves DEF startupVars, process, file, IInv, Shape, Sound, Disk
<1> QED BY <1>1, <1>2, <1>3, <1>4, <1>5, <1>6, <1>7, <1>8 DEF StartupNext

LEMMA Always == StartupSpec => []IInv
BY InitInv, StepInv, PTL DEF StartupSpec

-----------------------------------------------------------------------------
(* The theorems.                                                           *)

\* The state is well typed: a process at work has a file it was configured with,
\* and never looks past the migration after the last (run_migrations).
THEOREM Typed == StartupSpec => []StartupTypeOK
BY Always, Enough, PTL

\* However starts, kills, failures and a second process at the same file
\* interleave, the versions recorded are the scripts that took effect, and the
\* first ones (run_migrations).
THEOREM RecordIsTrue == StartupSpec => []SchemaAsRecorded
BY Always, Enough, PTL

\* Whoever gets past ensure_ready, and whoever is served, finds the whole schema
\* (ensure_ready, run).
THEOREM ReadyIsComplete == StartupSpec => []ReadyMeansComplete
BY Always, Enough, PTL
=============================================================================
