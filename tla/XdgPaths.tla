------------------------------ MODULE XdgPaths ------------------------------
(***************************************************************************)
(* xdg-paths: base directories from environment variables, or the error    *)
(* that says why not.  A variable is unset, empty, relative ("~" and what  *)
(* begins with it included) or an absolute path; a resolved path is such a *)
(* path and what is joined to it.                                          *)
(***************************************************************************)
CONSTANT Absolute  \* the absolute paths variables are set to

Values == {"unset", "empty", "relative"} \cup Absolute

ASSUME AbsoluteAssumption ==
  Absolute \cap {"unset", "empty", "relative"} = {}

Environment == [HOME : Values, XDG_CONFIG_HOME : Values, XDG_DATA_HOME : Values,
                XDG_CACHE_HOME : Values, XDG_RUNTIME_DIR : Values]

Path == [base : Absolute,
         below : {"", ".config", ".local/share", ".cache"}]

Error == [error : {"MissingHome", "MissingRuntimeDir", "Relative", "Empty"},
          var : DOMAIN [HOME |-> 0, XDG_CONFIG_HOME |-> 0, XDG_DATA_HOME |-> 0,
                        XDG_CACHE_HOME |-> 0, XDG_RUNTIME_DIR |-> 0]]

Fail(error, var) == [error |-> error, var |-> var]
MissingHome == Fail("MissingHome", "HOME")

\* parse_home's errors: a bad HOME is refused whether or not it is needed.
HomeRefused(home) == home \in {"empty", "relative"}

\* Faulty variant: a value that is no absolute path counts as unset.
LenientXdgOrFallback(var, value, home, fallback) ==
  IF value \in Absolute THEN [base |-> value, below |-> ""]
  ELSE IF home = "unset" THEN MissingHome
  ELSE [base |-> home, below |-> fallback]

\* xdg_or_fallback, of a HOME that was not refused.
XdgOrFallback(var, value, home, fallback) ==
  CASE value = "unset" /\ home = "unset" -> MissingHome
    [] value = "unset" /\ home # "unset" -> [base |-> home, below |-> fallback]
    [] value = "empty" -> Fail("Empty", var)
    [] value = "relative" -> Fail("Relative", var)
    [] OTHER -> [base |-> value, below |-> ""]

\* required_absolute: no fallback.
RequiredAbsolute(var, value) ==
  CASE value \in {"unset", "empty"} -> Fail("MissingRuntimeDir", var)
    [] value = "relative" -> Fail("Relative", var)
    [] OTHER -> [base |-> value, below |-> ""]

\* ConfigDirs::from_os_vars: the first error is the answer.
ConfigDirs(env) ==
  LET config == XdgOrFallback("XDG_CONFIG_HOME", env.XDG_CONFIG_HOME, env.HOME,
                              ".config")
      data == XdgOrFallback("XDG_DATA_HOME", env.XDG_DATA_HOME, env.HOME,
                            ".local/share")
  IN CASE HomeRefused(env.HOME) -> MissingHome
       [] ~HomeRefused(env.HOME) /\ config \in Error -> config
       [] ~HomeRefused(env.HOME) /\ config \notin Error /\ data \in Error -> data
       [] OTHER -> [config |-> config, data |-> data]

\* BaseDirs::from_os_vars: ConfigDirs, then with_runtime.
BaseDirs(env) ==
  LET dirs == ConfigDirs(env)
      runtime == RequiredAbsolute("XDG_RUNTIME_DIR", env.XDG_RUNTIME_DIR)
  IN CASE dirs \in Error -> dirs
       [] dirs \notin Error /\ runtime \in Error -> runtime
       [] OTHER -> [config |-> dirs.config, data |-> dirs.data,
                    runtime |-> runtime]

\* cache_home_from_os_vars.
CacheHome(env) ==
  IF HomeRefused(env.HOME) THEN MissingHome
  ELSE XdgOrFallback("XDG_CACHE_HOME", env.XDG_CACHE_HOME, env.HOME, ".cache")

(***************************************************************************)
(* What a user of the crate may expect of the answer.                      *)
(***************************************************************************)

\* Where a directory may be: where its variable says, or in HOME if the
\* variable is unset; nowhere if that is no absolute path.
Justified(path, value, home, fallback) ==
  \/ value \in Absolute /\ path = [base |-> value, below |-> ""]
  \/ value = "unset" /\ home \in Absolute /\ path = [base |-> home, below |-> fallback]

\* The variable an error names is one the user has to change, in the way it
\* says.
AtFault(refusal, env) ==
  LET value == env[refusal.var] IN
    CASE refusal.error = "Empty" -> value = "empty"
      [] refusal.error = "Relative" -> value = "relative"
      [] refusal.error = "MissingRuntimeDir" -> value \in {"unset", "empty"}
      [] refusal.error = "MissingHome" -> value \notin Absolute

\* The environments that have base directories.
Sound(env) ==
  /\ env.XDG_RUNTIME_DIR \in Absolute
  /\ env.HOME \in Absolute \cup {"unset"}
  /\ \A var \in {"XDG_CONFIG_HOME", "XDG_DATA_HOME"} :
       \/ env[var] \in Absolute
       \/ env[var] = "unset" /\ env.HOME # "unset"
=============================================================================
