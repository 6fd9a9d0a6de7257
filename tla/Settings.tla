------------------------------ MODULE Settings ------------------------------
(***************************************************************************)
(* The config package: what a process reads from its environment and from  *)
(* the file .env when it starts.  A value is the sequence of its parts     *)
(* between commas, with the spaces around them: the empty string is        *)
(* <<Blank>>, and a value of only spaces is another one.  A line of .env   *)
(* has the value that is left without the spaces and quotes around it.  Of *)
(* the settings, those are named that the server acts on.                  *)
(***************************************************************************)
EXTENDS Sequences, Naturals

CONSTANTS
    Blank,    \* the part that has no character
    Trimmed,  \* Trimmed[part]: the part without the spaces around it
    Number,   \* the strings that strconv.Atoi takes as a number
    Default   \* Default[key]: the value in Load, for a setting that is not given

HTTPPort           == "HTTP_PORT"
CORSAllowedOrigins == "CORS_ALLOWED_ORIGINS"
RedisDB            == "REDIS_DB"

Empty == <<Blank>>

\* A line of .env: a setting, or one that is blank, a comment or has no "=".
NoSetting == [key |-> "", value |-> Empty]

Extend(environment, key, value) ==
    [k \in DOMAIN environment \cup {key} |->
        IF k = key THEN value ELSE environment[k]]

\* Mutant of LoadDotEnv: a later line and the file win.
OverrideFromDotEnv(environment, lines) ==
    LET after[i \in 0..Len(lines)] ==
            IF i = 0 THEN environment
            ELSE Extend(after[i - 1], lines[i].key, lines[i].value)
    IN  after[Len(lines)]

\* What a line makes of the environment: a variable that exists is left
\* alone, also when it is empty, and none can be set without a name.
ReadLine(environment, line) ==
    IF line.key = NoSetting.key \/ line.key \in DOMAIN environment
    THEN environment
    ELSE Extend(environment, line.key, line.value)

\* loadDotEnv
LoadDotEnv(environment, lines) ==
    LET after[i \in 0..Len(lines)] ==
            IF i = 0 THEN environment ELSE ReadLine(after[i - 1], lines[i])
    IN  after[Len(lines)]

\* env: a value of only spaces is not empty.
Env(environment, key) ==
    IF key \in DOMAIN environment /\ environment[key] # Empty
    THEN environment[key]
    ELSE Default[key]

\* envInt
EnvInt(environment, key) ==
    IF Env(environment, key) \in Number THEN Env(environment, key) ELSE Default[key]

\* splitAndTrim, of which only the set of the parts is looked at.
Parts(value) == {Trimmed[value[i]] : i \in DOMAIN value} \ {Blank}

\* Load
Load(environment, lines) ==
    LET e == LoadDotEnv(environment, lines)
    IN  [port    |-> Env(e, HTTPPort),
         origins |-> Parts(Env(e, CORSAllowedOrigins)),
         redisDB |-> EnvInt(e, RedisDB)]
=============================================================================
