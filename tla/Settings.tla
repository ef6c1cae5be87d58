------------------------------ MODULE Settings ------------------------------
(***************************************************************************)
(* How green_relay reads its configuration (config.rs): the environment    *)
(* over the file, defaults for what neither sets, and the first setting    *)
(* that is missing or not acceptable as the error.                         *)
(*                                                                         *)
(* A text is a number: n for a text that reads as n, or as the n-th word   *)
(* or name that makes sense for its setting.                               *)
(***************************************************************************)
EXTENDS Integers

Unset  == -1   \* the key is not there, or null in the file
Blank  == -2   \* a text of nothing but spaces
Junk   == -3   \* a text that makes no sense where a number or name is meant
Nested == -4   \* in the file only: a list or a mapping
Huge   == 2000000000 \* stands for the largest value of u32 and u64

-----------------------------------------------------------------------------
(* What is acceptable.                                                     *)

Number(default, least, most) ==
  [needed |-> FALSE, free |-> FALSE, default |-> default, range |-> least..most]
Word(default, words) == Number(default, 0, words - 1)
Free(default) ==
  [needed |-> FALSE, free |-> TRUE, default |-> default, range |-> {}]
LogLevel    == Word(2, 5) \* info of trace, debug, info, warn, error
LogRotation == Word(2, 4) \* daily of minutely, hourly, daily, never
Needed(rule) ==
  [needed |-> TRUE, free |-> rule.free, default |-> rule.default, range |-> rule.range]

Rule == [
  LISTEN_ADDR           |-> Needed(Number(Unset, 0, Huge)),
  SERIAL_PORT           |-> Free(0),
  BAUD_RATE             |-> Number(115200, 1, Huge),
  DATABASE_PATH         |-> Needed(Free(Unset)),
  SERVICE_CENTER_NUMBER |-> Free(Unset),
  AT_TIMEOUT_SECS       |-> Number(5, 1, 60),
  DEFAULT_RATE_LIMIT    |-> Number(100, 1, 10000),
  RATE_WINDOW_SECS      |-> Number(60, 1, Huge),
  LOG_LEVEL             |-> LogLevel,
  LOG_DIR               |-> Free(Unset),
  LOG_FILE_PREFIX       |-> Free(0),
  LOG_ROTATION          |-> LogRotation,
  LOG_MAX_FILES         |-> Number(7, 0, 10000),
  REOPEN_MAX_ATTEMPTS   |-> Number(10, 1, 1000),
  SEND_MAX_ATTEMPTS     |-> Number(3, 1, 100),
  SEND_RETRY_DELAY_SECS |-> Number(5, 0, 3600),
  ADMIN_COOKIE_SECURE   |-> Word(0, 2)]

Keys == DOMAIN Rule

\* The order in which from_map reads them.
Order == <<"LISTEN_ADDR", "SERIAL_PORT", "BAUD_RATE", "DATABASE_PATH",
  "SERVICE_CENTER_NUMBER", "AT_TIMEOUT_SECS", "DEFAULT_RATE_LIMIT",
  "RATE_WINDOW_SECS", "LOG_LEVEL", "LOG_DIR", "LOG_FILE_PREFIX",
  "LOG_ROTATION", "LOG_MAX_FILES", "REOPEN_MAX_ATTEMPTS",
  "SEND_MAX_ATTEMPTS", "SEND_RETRY_DELAY_SECS", "ADMIN_COOKIE_SECURE">>

-----------------------------------------------------------------------------
(* Reading it.                                                             *)

Raises(error, key) == [error |-> error, key |-> key]
Fine == Raises("none", "none")
NoValues == [k \in Keys |-> Unset]
Given(raw) == raw \notin {Unset, Blank}

\* require, optional_string and parse_u32/u64/bool_or_default with the checks
\* of ranges that follow them.
FieldError(map, k) ==
  IF ~Given(map[k])
  THEN IF Rule[k].needed THEN Raises("MissingKey", k) ELSE Fine
  ELSE IF Rule[k].free \/ map[k] \in Rule[k].range
       THEN Fine ELSE Raises("InvalidValue", k)

Field(map, k) == IF Given(map[k]) THEN map[k] ELSE Rule[k].default

\* Config::from_map stops at the first field in error.
FromMap(map) ==
  LET faulty == {i \in DOMAIN Order : FieldError(map, Order[i]) # Fine} IN
  IF faulty = {}
  THEN [error |-> Fine, conf |-> [k \in Keys |-> Field(map, k)]]
  ELSE LET first == CHOOSE i \in faulty : \A j \in faulty : i <= j IN
       [error |-> FieldError(map, Order[first]), conf |-> NoValues]

\* Mutant: a blank variable is taken for one that is not set.
MergedBlankAside(file, env) ==
  [k \in Keys |-> IF Given(env[k]) THEN env[k] ELSE file[k]]

\* merge_env_over_file: whatever the environment sets, blank or not.
Merged(file, env) == [k \in Keys |-> IF env[k] # Unset THEN env[k] ELSE file[k]]

\* parse_config_file: a mapping, or nothing at all, with scalars for values.
Parses(file) ==
  /\ file.form \in {"mapping", "empty"}
  /\ file.form = "mapping" => \A k \in Keys : file.values[k] # Nested

FileMap(file) == IF file.form = "mapping" THEN file.values ELSE NoValues

\* file_map: only the file nobody named may be missing.
FileFails(s) == IF s.file.form = "missing" THEN s.named ELSE ~Parses(s.file)

\* load, in a set-up s: the file, whether SMS_CONFIG_FILE names it, and the
\* environment.
Load(s) ==
  IF FileFails(s)
  THEN [error |-> Raises("FileRead", "none"), conf |-> NoValues]
  ELSE FromMap(Merged(FileMap(s.file), s.env))

Loads(s) == Load(s).error = Fine

-----------------------------------------------------------------------------
(* What it is to do.                                                       *)

WithFile(s, k, raw) == [s EXCEPT !.file.values[k] = raw]
WithEnv(s, k, raw)  == [s EXCEPT !.env[k] = raw]

\* What the rest of the program takes for granted, see the assumptions of
\* Delivery, ModemLine and Admission.
Usable(conf) ==
  /\ \A k \in {"BAUD_RATE", "AT_TIMEOUT_SECS", "DEFAULT_RATE_LIMIT",
               "RATE_WINDOW_SECS", "REOPEN_MAX_ATTEMPTS", "SEND_MAX_ATTEMPTS"} :
       conf[k] >= 1
  /\ conf["DATABASE_PATH"] \notin {Unset, Blank}

\* A variable that is set hides the file, even when it is blank; blank in
\* the file is as good as nothing.
SetIn(s) == {k \in Keys : s.env[k] # Unset \/ s.file.values[k] # Unset}
Precedence(s) == Parses(s.file) /\ s.file.form = "mapping" => \A k \in SetIn(s) :
  /\ s.env[k] # Unset => Load(s) = Load(WithFile(s, k, Unset))
  /\ s.env[k] = Unset => Load(s) = Load(WithEnv(s, k, s.file.values[k]))
  /\ s.file.values[k] = Blank => Load(s) = Load(WithFile(s, k, Unset))

\* The error names a setting to repair: when that one is given a default, or
\* any good value, the next error is about a later one.
Place(key) == CHOOSE i \in DOMAIN Order : Order[i] = key
RepairAdvances(s) ==
  LET e == Load(s).error IN
  e.error \in {"MissingKey", "InvalidValue"} =>
    LET later == Load(WithEnv(s, e.key, 1)).error IN
    later = Fine \/ (later.key \in Keys /\ Place(later.key) > Place(e.key))

LoadsRight(s) ==
  /\ Loads(s) => Usable(Load(s).conf)
  /\ Precedence(s) /\ RepairAdvances(s)
=============================================================================
