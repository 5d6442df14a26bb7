-------------------------- MODULE MCHyprDiscovery ---------------------------
(* HyprDiscovery with two instances that come and go, three pids and       *)
(* nothing interchangeable: one instance is the one HIS names.             *)
EXTENDS HyprDiscovery

CONSTANTS a, b, p, q, r

Env(home, config, data, runtime) ==
  [HOME |-> home, XDG_CONFIG_HOME |-> config, XDG_DATA_HOME |-> data,
   XDG_CACHE_HOME |-> "unset", XDG_RUNTIME_DIR |-> runtime]

\* One whose data directory falls back to HOME, then: nothing to fall back to,
\* a HOME that is bad although nothing falls back to it, a bad variable of each
\* kind that a fallback could have hidden, and no runtime directory.
MCEnvironments ==
  {Env("/home", "/config", "unset", "/run"),
   Env("unset", "/config", "unset", "/run"),
   Env("relative", "/config", "/data", "/run"),
   Env("/home", "relative", "/data", "/run"),
   Env("/home", "/config", "empty", "/run"),
   Env("/home", "/config", "/data", "unset")}
=============================================================================
