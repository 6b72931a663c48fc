------------------------------- MODULE Config -------------------------------
(***************************************************************************)
(* The settings of a tahu process (internal/infra/config/config.go) and    *)
(* the flags of "tahu serve" over them (cmd/tahu/main.go).                 *)
(*                                                                         *)
(* A source of settings, be it the file, the environment or the command    *)
(* line, gives some keys a value and leaves the others Unset.  Values are  *)
(* their text: NotNumbers and NotPorts say which of them Atoi and the      *)
(* range check refuse.                                                     *)
(***************************************************************************)
CONSTANTS
  Unset,        \* a key a source does not give
  BadFile,      \* a configuration file that cannot be read or parsed
  Invalid,      \* what LoadFromPath returns with an error
  NotNumbers,   \* texts that are no number
  NotPorts      \* texts that are no port in 1 .. 65535

Keys == {"transport", "port", "bind", "model", "batch", "log"}

Nothing == [k \in Keys |-> Unset]

Default == [transport |-> "stdio", port |-> "3000", bind |-> "127.0.0.1",
            model |-> "bm25", batch |-> "64", log |-> "info"]

\* The keys that the environment and the command line can give.
EnvKeys == {"transport", "port", "model", "log"}
FlagKeys == {"transport", "port", "bind"}

\* cfg with the given values, of the given keys, over it.
Over(cfg, given, keys) ==
  [k \in Keys |-> IF k \in keys /\ given[k] # Unset THEN given[k] ELSE cfg[k]]

\* The Unmarshal of the file over the defaults.  A port that is no number fails
\* it: that is a BadFile.
FromFile(file) == Over(Default, file, Keys)

\* A TAHU_PORT that is no number is ignored.
applyEnv(cfg, env) ==
  Over(cfg, env, EnvKeys \ (IF env["port"] \in NotNumbers THEN {"port"} ELSE {}))

Validate(cfg) ==
  /\ cfg["transport"] \in {"stdio", "http"}
  /\ cfg["port"] \notin NotPorts
  /\ cfg["log"] \in {"debug", "info", "warn", "error"}
  /\ cfg["batch"] # "0"

\* Mutant: the file goes over the environment.
LoadFromPathFileLast(file, env) ==
  IF file = BadFile THEN Invalid
  ELSE LET cfg == Over(applyEnv(Default, env), file, Keys)
       IN  IF Validate(cfg) THEN cfg ELSE Invalid

LoadFromPath(file, env) ==
  IF file = BadFile THEN Invalid
  ELSE LET cfg == applyEnv(FromFile(file), env)
       IN  IF Validate(cfg) THEN cfg ELSE Invalid

\* The flags of "tahu serve" go over the rest, and nothing validates them.
Served(told) ==
  LET cfg == LoadFromPath(told.file, told.env)
  IN  IF cfg = Invalid THEN Invalid ELSE Over(cfg, told.flags, FlagKeys)

\* The reference: the nearest source that gives a key decides it.
Nearest(told, k) ==
  IF k \in FlagKeys /\ told.flags[k] # Unset THEN told.flags[k]
  ELSE IF k \in EnvKeys /\ told.env[k] \notin {Unset} \cup
                 (IF k = "port" THEN NotNumbers ELSE {})
  THEN told.env[k]
  ELSE IF told.file[k] # Unset THEN told.file[k]
  ELSE Default[k]
=============================================================================
