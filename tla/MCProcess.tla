------------------------------ MODULE MCProcess ------------------------------
(***************************************************************************)
(* Values for TLC.                                                          *)
(***************************************************************************)
EXTENDS Process

Good ==
  [matrix |-> [homeserver |-> "hs", bot_user |-> "@bot", approver |-> "@owner", room_id |-> "!room",
               bot_token |-> Null, bot_token_env |-> Null],
   agent |-> [token |-> "long1", token_env |-> Null,
              transfer_token |-> Null, transfer_token_env |-> "T"],
   server |-> [port |-> 8765, bind_host |-> Null],
   lifecycle |-> [pending_timeout_hours |-> Null, default_grant_hours |-> 24],
   logging |-> [level |-> Null],
   audit |-> [path |-> "/data/audit.log"],
   instances |-> [cloud |-> [url |-> "u", username |-> "n", password |-> "p", password_env |-> Null]]]

Defects ==
  {[Good EXCEPT !.matrix.approver = "@bot"], [Good EXCEPT !.matrix.room_id = "room"],
   [Good EXCEPT !.server.port = 0], [Good EXCEPT !.server.port = 65536],
   [Good EXCEPT !.server.bind_host = "0.0.0.0"],
   [Good EXCEPT !.lifecycle.pending_timeout_hours = 0],
   [Good EXCEPT !.logging.level = "trace"], [Good EXCEPT !.audit.path = Null],
   [Good EXCEPT !.instances = [i \in {} |-> Null]],
   [Good EXCEPT !.instances.cloud.password = Null]}

Agents ==
  [token : {Null, "short", "long1"}, token_env : {Null, "T"},
   transfer_token : {Null, "long1", "long2"}, transfer_token_env : {Null, "T"}]

Env(agent, transfer, t) ==
  [v \in {"BROKER_MATRIX_TOKEN", "BROKER_AGENT_TOKEN", "BROKER_TRANSFER_TOKEN", "T"} |->
     CASE v = "BROKER_MATRIX_TOKEN" -> "m"
       [] v = "BROKER_AGENT_TOKEN" -> agent
       [] v = "BROKER_TRANSFER_TOKEN" -> transfer
       [] v = "T" -> t]

Envs == {Env(x, y, t) : x \in {Null, "long1"}, y \in {Null, "long1", "long2"}, t \in {Null, "long2"}}

MCSetups ==
  [raw : {[Good EXCEPT !.agent = g] : g \in Agents}, env : Envs]
    \cup [raw : Defects, env : {Env("long1", "long2", "long2")}]

MCPaths == {<<"mcp">>, <<"mcp", "messages">>, <<"transfer">>, <<"mcpx">>}
=============================================================================
