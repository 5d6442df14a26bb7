--------------------------- MODULE LogindResolve ----------------------------
(***************************************************************************)
(* logind-session: one call of resolve_session or                          *)
(* resolve_graphical_session while sessions are opened, switched and       *)
(* closed.  Every D-Bus call is a step, so anything may change between     *)
(* two of them, and every call may fail.                                   *)
(*                                                                         *)
(* logind is external.  It answers with object paths; a session's path is  *)
(* the session itself here, and Manager is the manager's own path, which   *)
(* the code expects it might get.  A session's class never changes.        *)
(***************************************************************************)
EXTENDS Integers

CONSTANTS
  Sessions,       \* sessions that may exist while the call runs
  Mine,           \* those whose uid is the caller's
  UserClass,      \* those of class "user"
  CallerSession,  \* the session the calling process is in, or None
  EnvSession,     \* the session XDG_SESSION_ID names, or None: unset or empty
  Manager,        \* /org/freedesktop/login1
  None

ASSUME LogindAssumption ==
  /\ Mine \subseteq Sessions /\ UserClass \subseteq Sessions
  /\ CallerSession \in Sessions \cup {None}
  /\ EnvSession \in Sessions \cup {None}
  /\ Manager \notin Sessions /\ None \notin Sessions /\ None # Manager

VARIABLES
  \* logind
  state,      \* session -> unborn, its State property, or gone
  graphical,  \* sessions whose Type is wayland, x11 or mir
  \* the call
  at,         \* the D-Bus call to make next, or done
  path,       \* the path under test, then the one resolved
  listed,     \* entries of ListSessions the loop has still to visit
  readState,  \* what the loop read of State for the entry under test
  readDesktop, \* whether its Type was graphical then: zbus may keep all of its
              \* properties, and answer the later reads from there
  best,       \* the best entry so far and its score
  tier,       \* which lookup the result is from
  outcome,    \* Ok, an Error, or running
  \* history of the call, for the properties only
  faulty,     \* did a call the code gets over fail, or logind name itself,
              \* while sessions stood?
  steady,     \* sessions there ever since it began
  prime       \* of these, the graphical and active ones of class user

worldVars == <<state, graphical>>
history == <<steady, prime>>
callVars == <<at, path, listed, readState, readDesktop, best, tier, outcome>>
read == <<readState, readDesktop>>
vars == <<worldVars, callVars, faulty, history>>

State == {"active", "online", "closing"}
Paths == Sessions \cup {Manager}
Alive == {s \in Sessions : state[s] \in State}
Prime == {s \in graphical \cap UserClass : state[s] = "active"}

TypeOK ==
  /\ state \in [Sessions -> State \cup {"unborn", "gone"}]
  /\ graphical \in SUBSET Alive
  /\ at \in {"GetSessionByPID", "Id", "GetSession", "ListSessions", "next",
             "State", "Type", "require", "done"}
  /\ path \in Paths \cup {None}
  /\ listed \in SUBSET Paths
  /\ readState \in State \cup {None} /\ readDesktop \in BOOLEAN
  /\ best \in [score : -1..7, path : Sessions \cup {None}]
  /\ tier \in {"pid", "env", "list"}
  /\ outcome \in {"running", "Ok", "Dbus", "EmptySessionId", "ManagerPath",
                  "NoSession", "NotGraphical"}
  /\ at = "done" <=> outcome # "running"
  /\ at \in {"State", "Type"} => path \in Mine
  /\ at = "Type" => readState \in State
  /\ faulty \in BOOLEAN

NoBest == [score |-> -1, path |-> None]

Init ==
  /\ state \in [Sessions -> State \cup {"unborn"}]
  /\ graphical \in SUBSET Alive
  /\ at = "GetSessionByPID"
  /\ path = None /\ listed = {} /\ best = NoBest
  /\ readState = None /\ readDesktop = FALSE
  /\ tier = "pid" /\ outcome = "running" /\ faulty = FALSE
  /\ steady = Alive /\ prime = Prime

(***************************************************************************)
(* Sessions come, go, and change.                                          *)
(***************************************************************************)
\* What happens to sessions once the call has returned is not looked at.
Witness ==
  /\ at # "done"
  /\ steady' = steady \cap Alive'
  /\ prime' = prime \cap Prime'
  /\ UNCHANGED <<callVars, faulty>>

Open(s) ==
  /\ state[s] = "unborn"
  /\ \E new \in State : state' = [state EXCEPT ![s] = new]
  /\ graphical' \in {graphical, graphical \cup {s}}
  /\ Witness

\* logind does not use a session's id again.
Close(s) ==
  /\ s \in Alive
  /\ state' = [state EXCEPT ![s] = "gone"]
  /\ graphical' = graphical \ {s}
  /\ Witness

\* A VT switch, a logout under way.
SetState(s) ==
  /\ s \in Alive
  /\ \E new \in State : state' = [state EXCEPT ![s] = new]
  /\ UNCHANGED graphical
  /\ Witness

\* A session's controller sets its type when the compositor takes over.
SetType(s) ==
  /\ s \in Alive
  /\ graphical' \in {graphical \cup {s}, graphical \ {s}}
  /\ UNCHANGED state
  /\ Witness

(***************************************************************************)
(* The call.                                                               *)
(***************************************************************************)
Quiet == UNCHANGED <<worldVars, history>>

Finish(result) ==
  /\ at' = "done"
  /\ outcome' = result

\* Resolved, whichever function was called; resolve_graphical_session goes on to
\* ask for the type.
Resolved(s) ==
  /\ path' = s
  /\ Finish("Ok") \/ (at' = "require" /\ UNCHANGED outcome)

\* What logind can answer to a call about session s, None being an error: the
\* call may fail in any case.
Answers(s) == (Alive \cap {s}) \cup {Manager, None}

\* Was the answer something other than the truth about s?
Lied(s, answer) == faulty' = (faulty \/ (answer # s /\ s \in Alive))

\* Where the second lookup starts, if there is one.
Fallback == IF EnvSession # None THEN "GetSession" ELSE "ListSessions"

\* Faulty variant: the environment is asked first.
EnvFirst ==
  /\ at = "GetSessionByPID"
  /\ at' = Fallback
  /\ UNCHANGED <<path, listed, read, best, tier, outcome, faulty>>
  /\ Quiet

\* get_session_by_pid(0): the manager's path counts as no answer.
GetSessionByPID ==
  /\ at = "GetSessionByPID"
  /\ \E answer \in Answers(CallerSession) :
       /\ Lied(CallerSession, answer)
       /\ IF answer \in Sessions
          THEN at' = "Id" /\ path' = answer
          ELSE at' = Fallback /\ UNCHANGED path
  /\ UNCHANGED <<listed, read, best, tier, outcome>>
  /\ Quiet

\* session_from_path reads Id; without one the call ends, there is no fallback.
ReadId ==
  /\ at = "Id"
  /\ UNCHANGED <<listed, read, best, tier, faulty>>
  /\ Quiet
  /\ \/ path \in Alive /\ Resolved(path)
     \/ /\ Finish("Dbus") \/ (path \in Alive /\ Finish("EmptySessionId"))
        /\ UNCHANGED path

\* Faulty variant: the path is taken as logind gave it.
GetSessionUnchecked ==
  /\ at = "GetSession"
  /\ tier' = "env"
  /\ UNCHANGED <<listed, read, best>>
  /\ Quiet
  /\ \E answer \in Answers(EnvSession) :
       /\ Lied(EnvSession, answer)
       /\ IF answer = None
          THEN at' = "ListSessions" /\ UNCHANGED <<path, outcome>>
          ELSE Resolved(answer)

\* get_session(XDG_SESSION_ID): here the manager's path is an error.
GetSession ==
  /\ at = "GetSession"
  /\ tier' = "env"
  /\ UNCHANGED <<listed, read, best>>
  /\ Quiet
  /\ \E answer \in Answers(EnvSession) :
       /\ Lied(EnvSession, answer)
       /\ \/ answer \in Sessions /\ Resolved(answer)
          \/ answer = Manager /\ Finish("ManagerPath") /\ UNCHANGED path
          \/ answer = None /\ at' = "ListSessions" /\ UNCHANGED <<path, outcome>>

\* list_sessions: a snapshot, Manager's path possibly among it; or an error.
ListSessions ==
  /\ at = "ListSessions"
  /\ tier' = "list"
  /\ UNCHANGED <<path, read, best>>
  /\ Quiet
  /\ \/ /\ listed' \in {Alive, Alive \cup {Manager}}
        /\ at' = "next"
        /\ UNCHANGED <<outcome, faulty>>
     \/ Finish("Dbus") /\ faulty' = TRUE /\ UNCHANGED listed

\* Faulty variant: the uid of a row is not compared.
AnyRow(s) == s # Manager

\* A row the loop looks at: the caller's uid, not the manager's path - which no
\* property could be read of anyway.
Candidate(s) == s # Manager /\ s \in Mine

\* The loop takes the next row, in logind's order.
NextRow ==
  /\ at = "next"
  /\ \E s \in listed :
       /\ listed' = listed \ {s}
       /\ IF Candidate(s)
          THEN at' = "State" /\ path' = s
          ELSE UNCHANGED <<at, path>>
  /\ UNCHANGED <<read, best, tier, outcome, faulty>>
  /\ Quiet

\* Faulty variant: a session being closed is none to resolve to.
StillOpen(s) == s \in Alive /\ state[s] # "closing"

\* logind can answer for it.
Readable(s) == s \in Alive

\* The proxy of the entry goes, and what it kept.
DropProxy == at' = "next" /\ readState' = None /\ readDesktop' = FALSE

\* A property that cannot be read drops the candidate.
Skip ==
  /\ DropProxy
  /\ faulty' = (faulty \/ Readable(path))

\* proxy.state() and proxy.class().
ReadState ==
  /\ at = "State"
  /\ UNCHANGED <<path, listed, best, tier, outcome>>
  /\ Quiet
  /\ \/ /\ Readable(path)
        /\ readState' = state[path]
        /\ readDesktop' = (path \in graphical)
        /\ at' = "Type"
        /\ UNCHANGED faulty
     \/ Skip

\* Faulty variant: the weights of active and online are swapped.
ScoreOnline(s, desktop, seen) ==
  (IF s \in UserClass THEN 1 ELSE 0) + (IF desktop THEN 2 ELSE 0)
    + CASE seen = "active" -> 1 [] seen = "online" -> 4 [] OTHER -> 0

\* score_session(class, type, state).
Score(s, desktop, seen) ==
  (IF s \in UserClass THEN 1 ELSE 0) + (IF desktop THEN 2 ELSE 0)
    + CASE seen = "active" -> 4 [] seen = "online" -> 1 [] OTHER -> 0

\* The first candidate, then any that scores higher.
Keep(score) ==
  best' = IF score > best.score THEN [score |-> score, path |-> path] ELSE best

\* proxy.session_type(): from logind, or what the proxy kept.
TypeRead(desktop) ==
  desktop = readDesktop \/ (Readable(path) /\ desktop = (path \in graphical))

\* The last read, the score, and the comparison.
ReadType ==
  /\ at = "Type"
  /\ UNCHANGED <<path, listed, tier, outcome>>
  /\ Quiet
  /\ \/ /\ \E desktop \in BOOLEAN :
             TypeRead(desktop) /\ Keep(Score(path, desktop, readState))
        /\ DropProxy
        /\ UNCHANGED faulty
     \/ Skip /\ UNCHANGED best

EndOfList ==
  /\ at = "next"
  /\ listed = {}
  /\ IF best = NoBest
     THEN Finish("NoSession") /\ UNCHANGED path
     ELSE Resolved(best.path)
  /\ UNCHANGED <<listed, read, best, tier, faulty>>
  /\ Quiet

\* resolve_graphical_session reads the type of whatever was resolved.
RequireGraphical ==
  /\ at = "require"
  /\ \/ /\ path \in Alive
        /\ Finish(IF path \in graphical THEN "Ok" ELSE "NotGraphical")
        /\ UNCHANGED faulty
     \/ Finish("Dbus") /\ faulty' = (faulty \/ path \in Alive)
  /\ UNCHANGED <<path, listed, read, best, tier>>
  /\ Quiet

World == \E s \in Sessions : Open(s) \/ Close(s) \/ SetState(s) \/ SetType(s)

Call ==
  \/ GetSessionByPID \/ ReadId \/ GetSession \/ ListSessions \/ NextRow
  \/ ReadState \/ ReadType \/ EndOfList \/ RequireGraphical

Next == World \/ Call

Spec == Init /\ [][Next]_vars

(***************************************************************************)
(* Properties.                                                             *)
(***************************************************************************)

\* "The manager object path is never a session path" (lib.rs), whichever of
\* the three lookups logind answers with it.  A session other than the one the
\* process is in or the environment names is one of the caller's.
NeverForeign ==
  outcome = "Ok" =>
    /\ path \in Sessions
    /\ path \in Mine \/ path = CallerSession \/ path = EnvSession

\* The lookups are in order: while the caller's own session stands and logind
\* tells which it is, no other one is resolved, whatever the environment or the
\* scores say, and though its Id may not be had.
CallerWins ==
  outcome = "Ok" /\ ~faulty /\ CallerSession \in steady => path = CallerSession

\* NoSession is an answer about the caller's sessions: while one of them stands
\* throughout and logind serves, the call does not give it, though sessions
\* come and go between its reads.
NoFalseAbsence ==
  outcome = "NoSession" /\ ~faulty => steady \cap Mine = {}

\* While the caller has an active graphical user session throughout, scoring
\* ends on a session of class user that the call has read to be both active and
\* graphical, in whatever order logind lists them and whichever reads a switch
\* of sessions tears apart.
DesktopWins ==
  outcome = "Ok" /\ tier = "list" /\ ~faulty /\ prime \cap Mine # {} =>
    best = [score |-> 7, path |-> path] /\ path \in UserClass
=============================================================================
