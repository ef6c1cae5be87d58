------------------------------ MODULE MCService ------------------------------
(* A small instance of Service: two migrations, two database files, a key   *)
(* with two requests at once, three rows.                                   *)
EXTENDS Service

MCSingle == [gsm7 |-> 4, ucs2 |-> 3]
MCMulti  == [gsm7 |-> 3, ucs2 |-> 2]

\* The set-ups: all from the environment, one that leaves a key to the file,
\* and one that a blank variable spoils.
ByEnv == [named |-> FALSE, file |-> [form |-> "missing", values |-> NoValues],
  env |-> [NoValues EXCEPT !.LISTEN_ADDR = 1, !.DATABASE_PATH = 1,
                           !.DEFAULT_RATE_LIMIT = 2, !.RATE_WINDOW_SECS = 1]]
ByFile == [named |-> TRUE,
  file |-> [form |-> "mapping", values |-> [NoValues EXCEPT !.DATABASE_PATH = 2]],
  env  |-> [NoValues EXCEPT !.LISTEN_ADDR = 1, !.RATE_WINDOW_SECS = 2]]
Spoilt == WithEnv(ByFile, "DATABASE_PATH", Blank)
MCFound == [env |-> ByEnv, file |-> ByFile, spoilt |-> Spoilt]
MCSetups == [service |-> {"env", "file", "spoilt"}, tool |-> {"env", "file"}]

\* Texts for two settings that are needed and two that are not, in the file and
\* the environment at once; and all forms of file.
Texts == {Unset, Blank, Junk, 0, 1, 20000}
Tried == {"LISTEN_ADDR", "DATABASE_PATH", "DEFAULT_RATE_LIMIT", "AT_TIMEOUT_SECS"}
Forms == {"mapping", "empty", "missing", "unreadable", "other"}
With(a, b, x, y) == [k \in Keys |-> IF k = a THEN x ELSE IF k = b THEN y
                                   ELSE IF k \in Tried THEN 1 ELSE Unset]
MCLoadInputs ==
  {[named |-> TRUE, file |-> [form |-> "mapping", values |-> With(a, b, x, y)],
    env |-> [NoValues EXCEPT ![a] = u, ![b] = v]] :
     a \in {"LISTEN_ADDR", "DATABASE_PATH"},
     b \in {"DEFAULT_RATE_LIMIT", "AT_TIMEOUT_SECS"},
     x \in Texts \union {Nested}, y \in {Unset, Junk},
     u \in Texts, v \in {Unset, Blank, 0, 20000}}
  \union
  {[named |-> n, file |-> [form |-> f, values |-> NoValues],
    env |-> [k \in Keys |-> IF k \in Tried THEN u ELSE Unset]] :
     n \in BOOLEAN, f \in Forms, u \in Texts}

\* Every body of up to five characters, and plain ones up to the limit.
MCBodies == (UNION {[1..n -> Chars] : n \in 1..5})
              \union {[i \in 1..n |-> "plain"] : n \in 1..12}

MCPosts == {[to |-> t, body |-> b] :
  t \in {Missing, "good", "bad"},
  b \in {Missing, <<>>, [i \in 1..7 |-> "wide"],
         [i \in 1..9 |-> "plain"], [i \in 1..10 |-> "plain"]}}
MCCustomLimit == [k \in ApiKeys |-> None]
MCWorkloads == {{}, {"send"}, {"read"}, {"watch"}, {"cut"}, {"load"},
                {"report"}, {"backoff"}}
=============================================================================
