---------------------------- MODULE Configuration ----------------------------
(***************************************************************************)
(* What broker/config.py accepts.  A raw configuration is the parsed YAML, a  *)
(* key that is missing being Null, and an empty one too where the code does   *)
(* not tell them apart; strings are values, and what their formats and        *)
(* lengths decide is given by constants.                                     *)
(***************************************************************************)
EXTENDS Integers

CONSTANTS
  Null,
  UserIds,    \* strings of the form of a Matrix user id
  RoomIds,    \* strings of the form of a Matrix room id
  LongTokens, \* secrets of at least 32 characters
  Wildcards   \* "0.0.0.0" and "::"

\* _secret: the value given directly wins, else the variable named, else the
\* default variable.  Null stands for a ConfigError.
Secret(direct, name, default, env) ==
  LET variable == IF name # Null THEN name ELSE default IN
  IF direct # Null THEN direct
  ELSE IF variable = Null THEN Null ELSE env[variable]

BotToken(raw, env) ==
  Secret(raw.matrix.bot_token, raw.matrix.bot_token_env, "BROKER_MATRIX_TOKEN", env)

AgentToken(raw, env) ==
  Secret(raw.agent.token, raw.agent.token_env, "BROKER_AGENT_TOKEN", env)

TransferToken(raw, env) ==
  Secret(raw.agent.transfer_token, raw.agent.transfer_token_env, "BROKER_TRANSFER_TOKEN", env)

AcceptsMatrix(raw, env) ==
  /\ raw.matrix.homeserver # Null
  /\ raw.matrix.bot_user \in UserIds
  /\ raw.matrix.approver \in UserIds
  /\ raw.matrix.room_id \in RoomIds
  /\ BotToken(raw, env) # Null
  /\ raw.matrix.bot_user # raw.matrix.approver

\* Mutant: the tokens may be the same.
AcceptsAgent_Equal(raw, env) ==
  /\ AgentToken(raw, env) \in LongTokens
  /\ TransferToken(raw, env) \in LongTokens

\* Mutant: any token will do.
AcceptsAgent_Short(raw, env) ==
  /\ AgentToken(raw, env) # Null
  /\ TransferToken(raw, env) # Null
  /\ AgentToken(raw, env) # TransferToken(raw, env)

AcceptsAgent(raw, env) ==
  /\ AgentToken(raw, env) \in LongTokens
  /\ TransferToken(raw, env) \in LongTokens
  /\ AgentToken(raw, env) # TransferToken(raw, env)

AcceptsServer(raw) ==
  /\ raw.server.port \in 1..65535
  /\ raw.server.bind_host \notin Wildcards

AcceptsLifecycle(raw) ==
  \A hours \in {"pending_timeout_hours", "default_grant_hours"} :
    raw.lifecycle[hours] = Null \/ raw.lifecycle[hours] > 0

AcceptsInstances(raw, env) ==
  /\ DOMAIN raw.instances # {}
  /\ \A i \in DOMAIN raw.instances : LET block == raw.instances[i] IN
       /\ block.url # Null
       /\ block.username # Null
       /\ Secret(block.password, block.password_env, Null, env) # Null

\* Config.__init__: every section but logging, whose level is read at wiring.
Accepts(raw, env) ==
  /\ AcceptsMatrix(raw, env)
  /\ AcceptsAgent(raw, env)
  /\ AcceptsServer(raw)
  /\ AcceptsLifecycle(raw)
  /\ raw.audit.path # Null
  /\ AcceptsInstances(raw, env)

AcceptsLogging(raw) == raw.logging.level \in {Null, "info", "debug"}
=============================================================================
