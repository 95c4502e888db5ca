------------------------------ MODULE Settings ------------------------------
(***************************************************************************)
(* How the configuration comes about (src/config.rs): the defaults, then   *)
(* config.toml, its profile before its other fields, then the environment. *)
(*                                                                         *)
(* A file and an environment are functions from the fields that are set to *)
(* their values.  A file that is missing is the empty one.  Addresses,     *)
(* tokens and paths are left out: they are passed on as they are.          *)
(***************************************************************************)
EXTENDS Naturals

Clamp(x, lo, hi) == IF x < lo THEN lo ELSE IF x > hi THEN hi ELSE x

MaxU8 == 255

Default ==
  [threads |-> 0, check_uncompressed |-> TRUE, walk_span |-> 2^30, cpu_percent |-> 100,
   lookup |-> "mmap", bits_per_key |-> 16, auto_update |-> TRUE,
   max_snapshot_age_hours |-> 30, heartbeat_minutes |-> 1440, provider |-> "bark",
   hit_repeat_secs |-> 120, hit_repeat_max |-> 0]

Profiles ==
  [low      |-> [threads |-> 1, check_uncompressed |-> FALSE, lookup |-> "mmap",
                 cpu_percent |-> 40, bits_per_key |-> 14],
   balanced |-> [threads |-> 0, check_uncompressed |-> TRUE, lookup |-> "mmap",
                 cpu_percent |-> 70, bits_per_key |-> 16],
   full     |-> [threads |-> 0, check_uncompressed |-> TRUE, lookup |-> "mmap",
                 cpu_percent |-> 100, bits_per_key |-> 18]]

\* cfg with the fields of r in place of its own.
Over(cfg, r) == [f \in DOMAIN cfg |-> IF f \in DOMAIN r THEN r[f] ELSE cfg[f]]

\* An unknown profile is ignored.
ApplyProfile(cfg, name) == IF name \in DOMAIN Profiles THEN Over(cfg, Profiles[name]) ELSE cfg

\* Fields for which zero counts as not set.
Positive == {"walk_span", "max_snapshot_age_hours", "heartbeat_minutes"}

Numbers == Positive \cup {"threads", "cpu_percent", "bits_per_key", "hit_repeat_secs",
                          "hit_repeat_max"}

ParseLookup(value) ==
  CASE value \in {"hash", "hashset"} -> "hash" [] value = "sorted" -> "sorted" [] OTHER -> "mmap"

ParseProvider(value) ==
  IF value \in {"bark", "webhook", "serverchan"} THEN value ELSE "disabled"

\* Mutation of Parsed: the size of the filter is passed on as it is.
ParsedAnySize(f, value) ==
  CASE f = "cpu_percent" -> Clamp(value, 1, 100)
    [] f = "lookup"      -> ParseLookup(value)
    [] f = "provider"    -> ParseProvider(value)
    [] OTHER             -> value

\* What a field of the file becomes.
Parsed(f, value) ==
  CASE f = "cpu_percent"  -> Clamp(value, 1, 100)
    [] f = "bits_per_key" -> Clamp(value, 8, 32)
    [] f = "lookup"       -> ParseLookup(value)
    [] f = "provider"     -> ParseProvider(value)
    [] OTHER              -> value

ApplyFile(cfg, file) ==
  LET base == IF "profile" \in DOMAIN file THEN ApplyProfile(cfg, file.profile) ELSE cfg
      given == {f \in DOMAIN file \ {"profile"} : f \in Positive => file[f] > 0}
  IN Over(base, [f \in given |-> Parsed(f, file[f])])

\* Mutation of ApplyEnv: the percentage is taken as it is.
ApplyEnvAnyShare(cfg, env) ==
  LET given == {f \in DOMAIN env : f = "cpu_percent" => env[f] <= MaxU8}
  IN Over(cfg, [f \in given |->
       IF f = "check_uncompressed" THEN env[f] \in {"1", "true", "TRUE", "yes"} ELSE env[f]])

\* PLUTUS_THREADS, PLUTUS_CHECK_UNCOMPRESSED, PLUTUS_CPU_PERCENT.  A number that does
\* not parse, as a percentage that is no u8, is ignored.
ApplyEnv(cfg, env) ==
  LET given == {f \in DOMAIN env : f = "cpu_percent" => env[f] <= MaxU8}
  IN Over(cfg, [f \in given |->
       CASE f = "cpu_percent" -> Clamp(env[f], 1, 100)
         [] f = "check_uncompressed" -> env[f] \in {"1", "true", "TRUE", "yes"}
         [] OTHER -> env[f]])

\* A file one of whose fields does not parse is ignored, all of it.
LoadConfig(file, env) ==
  LET whole == "cpu_percent" \in DOMAIN file => file.cpu_percent <= MaxU8
  IN ApplyEnv(IF whole THEN ApplyFile(Default, file) ELSE Default, env)

WorkerCount(cfg, cpus) == IF cfg.threads > 0 THEN cfg.threads ELSE IF cpus = 0 THEN 1 ELSE cpus

\* How long a worker sleeps after `work` of batches: work * (100 - p) / p.
Rest(cfg, work) ==
  IF cfg.cpu_percent >= 100 THEN 0
  ELSE (work * (100 - cfg.cpu_percent)) \div Clamp(cfg.cpu_percent, 1, 100)

=============================================================================
