----------------------------- MODULE MCAppSettings -----------------------------
(* AppSettings with the execute tool enabled by the environment.             *)
EXTENDS AppSettings
EnvOn == [f \in Field |-> CASE f = "enabled" -> "on" [] f = "inherit_env" -> "off" [] OTHER -> "long"]
=============================================================================
