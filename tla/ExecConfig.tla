------------------------------- MODULE ExecConfig -------------------------------
(***************************************************************************)
(* Config::load of the orchestrator (exec/src/config/mod.rs): the          *)
(* environment is read into all eight fields, or into none.  A variable    *)
(* holds a word; "unset" is its absence.                                   *)
(***************************************************************************)
CONSTANTS
  Words,       \* what variables may hold
  Booleans,    \* those of them that are read as booleans
  Default(_)   \* Config::default, per field

Fields == {"redis_url", "stream", "group", "consumer", "http_addr",
           "metrics_addr", "dry_run", "ta_service_url"}

(* try_deserialize: no field may be missing, and dry_run must be a boolean. *)
Deserializes(env) ==
  /\ \A f \in Fields : env[f] # "unset"
  /\ env["dry_run"] \in Booleans

(* unwrap_or_default *)
Load(env) == IF Deserializes(env) THEN env ELSE [f \in Fields |-> Default(f)]
-------------------------------------------------------------------------------
VARIABLE environment

Init == environment = [f \in Fields |-> "unset"]

(* An operator sets a variable. *)
Set(f) == /\ environment[f] = "unset"
          /\ \E w \in Words : environment' = [environment EXCEPT ![f] = w]

Next == \E f \in Fields : Set(f)

Spec == Init /\ [][Next]_environment

(* ops/docker-compose.yml sets three variables of the orchestrator, for the *)
(* process to use them: what the environment sets is in force.              *)
EnvironmentIsObeyed ==
  \A f \in Fields : environment[f] # "unset" =>
    Load(environment)[f] = environment[f]
===============================================================================
