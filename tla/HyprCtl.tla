------------------------------- MODULE HyprCtl -------------------------------
(***************************************************************************)
(* hypr-ipc's hyprctl calls: each runs a hyprctl process, which sends one  *)
(* request to the compositor and prints its reply; hyprctl_ok and          *)
(* hyprctl_json give up after a timeout, hyprctl_json_std never does.      *)
(*                                                                         *)
(* A caller makes one call after another - the next one may be its retry   *)
(* of the last - while other callers make theirs.  Processes, the          *)
(* compositor and timers run at their own pace.  hyprctl and the           *)
(* compositor are external: a request is queued where the compositor       *)
(* accepts connections, so it stays there when the process that sent it is *)
(* killed, and is handled in the order of the queue.                       *)
(***************************************************************************)
EXTENDS Naturals, Sequences

CONSTANTS
  Callers,
  MaxCalls,    \* calls made in a run
  MaxCrashes,  \* times the compositor dies, and another takes its place
  None

Calls == 1..MaxCalls
Ops == {"ok", "json", "json_std"}
Stages == {"started", "sent", "cut", "exited", "failed", "killed"}
Ended == {"exited", "failed"}
Replies == {"ok", "data", "error"}
Answers == {"Ok", "NotOk", "Json", "Io", "Timeout"}

ASSUME CtlAssumption ==
  /\ MaxCalls \in Nat /\ MaxCrashes \in Nat
  /\ None \notin Callers /\ None \notin Calls
  /\ None \notin Ops \cup Stages \cup Replies \cup Answers

VARIABLES
  made,     \* calls made: 1..made, in that order
  caller,   \* call -> who made it
  op,       \* call -> what it is
  current,  \* caller -> the call it waits for, or None
  process,  \* call -> its hyprctl process
  reply,    \* call -> what the compositor answered, or None
  answer,   \* call -> what it returned, or None
  inbox,    \* requests the compositor has not handled
  applied,  \* commands it has obeyed, in order
  crashes

callVars == <<made, caller, op>>
compositorVars == <<inbox, applied, crashes>>
vars == <<callVars, current, process, reply, answer, compositorVars>>

TypeOK ==
  /\ made \in 0..MaxCalls
  /\ caller \in [Calls -> Callers \cup {None}]
  /\ op \in [Calls -> Ops \cup {None}]
  /\ current \in [Callers -> Calls \cup {None}]
  /\ process \in [Calls -> Stages \cup {None}]
  /\ reply \in [Calls -> Replies \cup {None}]
  /\ answer \in [Calls -> Answers \cup {None}]
  /\ inbox \in Seq(Calls) /\ applied \in Seq(Calls)
  /\ crashes \in 0..MaxCrashes

Init ==
  /\ made = 0
  /\ caller = [k \in Calls |-> None] /\ op = [k \in Calls |-> None]
  /\ current = [c \in Callers |-> None]
  /\ process = [k \in Calls |-> None]
  /\ reply = [k \in Calls |-> None]
  /\ answer = [k \in Calls |-> None]
  /\ inbox = <<>> /\ applied = <<>>
  /\ crashes = 0

(***************************************************************************)
(* hyprctl_output, hyprctl_json, hyprctl_ok, hyprctl_json_std.             *)
(***************************************************************************)

\* The process is started, or cannot be.
Call(c) ==
  /\ current[c] = None
  /\ made < MaxCalls
  /\ made' = made + 1
  /\ caller' = [caller EXCEPT ![made'] = c]
  /\ \E o \in Ops : op' = [op EXCEPT ![made'] = o]
  /\ \/ /\ process' = [process EXCEPT ![made'] = "started"]
        /\ current' = [current EXCEPT ![c] = made']
        /\ UNCHANGED answer
     \/ /\ answer' = [answer EXCEPT ![made'] = "Io"]
        /\ UNCHANGED <<process, current>>
  /\ UNCHANGED <<reply, compositorVars>>

\* Faulty variant: hyprctl's exit status says whether the command worked.
ByStatus(k) == IF process[k] = "exited" THEN "Ok" ELSE "NotOk"

\* hyprctl_ok wants status 0 and ok on stdout, nothing else; the JSON calls
\* parse what is there, whatever the status.
Judged(k) ==
  CASE op[k] = "ok" ->
         IF process[k] = "exited" /\ reply[k] = "ok" THEN "Ok" ELSE "NotOk"
    [] OTHER -> IF reply[k] = "data" THEN "Ok" ELSE "Json"

Answer(c, what) ==
  /\ answer' = [answer EXCEPT ![current[c]] = what]
  /\ current' = [current EXCEPT ![c] = None]
  /\ UNCHANGED <<callVars, reply, compositorVars>>

Return(c) ==
  /\ current[c] # None
  /\ process[current[c]] \in Ended
  /\ Answer(c, Judged(current[c]))
  /\ UNCHANGED process

\* Faulty variant: without kill_on_drop the process goes on.
ExpireAlone(c) ==
  /\ current[c] # None
  /\ op[current[c]] # "json_std"
  /\ Answer(c, "Timeout")
  /\ UNCHANGED process

\* The timer fires, however far the process has come: it is killed as the
\* future that runs it is dropped.
Expire(c) ==
  /\ current[c] # None
  /\ op[current[c]] # "json_std"
  /\ process' = [process EXCEPT ![current[c]] =
                   IF @ \in Ended THEN @ ELSE "killed"]
  /\ Answer(c, "Timeout")

(***************************************************************************)
(* hyprctl and the compositor.                                             *)
(***************************************************************************)
Send(k) ==
  /\ process[k] = "started"
  /\ process' = [process EXCEPT ![k] = "sent"]
  /\ inbox' = Append(inbox, k)
  /\ UNCHANGED <<callVars, current, reply, answer, applied, crashes>>

\* A command is obeyed and confirmed, or refused; a query is answered.
Handle ==
  /\ inbox # <<>>
  /\ LET k == Head(inbox) IN
       \/ /\ op[k] = "ok"
          /\ applied' = Append(applied, k)
          /\ reply' = [reply EXCEPT ![k] = "ok"]
       \/ /\ op[k] # "ok"
          /\ reply' = [reply EXCEPT ![k] = "data"]
          /\ UNCHANGED applied
       \/ /\ reply' = [reply EXCEPT ![k] = "error"]
          /\ UNCHANGED applied
  /\ inbox' = Tail(inbox)
  /\ UNCHANGED <<callVars, current, process, answer, crashes>>

\* The compositor dies and what it had not handled with it.
Crash ==
  /\ crashes < MaxCrashes
  /\ crashes' = crashes + 1
  /\ inbox' = <<>>
  /\ process' = [k \in Calls |-> IF process[k] = "sent" /\ reply[k] = None
                                 THEN "cut" ELSE process[k]]
  /\ UNCHANGED <<callVars, current, reply, answer, applied>>

\* It prints the reply and exits with status 0, or fails: without a reply it has
\* to.
Exit(k) ==
  /\ \/ /\ process[k] = "sent" /\ reply[k] # None
        /\ \E status \in Ended : process' = [process EXCEPT ![k] = status]
     \/ /\ process[k] = "cut"
        /\ process' = [process EXCEPT ![k] = "failed"]
  /\ UNCHANGED <<callVars, current, reply, answer, compositorVars>>

Next ==
  \/ \E c \in Callers : Call(c) \/ Return(c) \/ Expire(c)
  \/ \E k \in Calls : Send(k) \/ Exit(k)
  \/ Handle \/ Crash

Spec == Init /\ [][Next]_vars

(***************************************************************************)
(* Properties.                                                             *)
(***************************************************************************)

\* Ok to a command is the compositor's own word.
OkIsObeyed ==
  \A k \in Calls : op[k] = "ok" /\ answer[k] = "Ok" =>
    \E i \in 1..Len(applied) : applied[i] = k

\* A command that timed out may still take effect, but never after one its
\* caller gave later: a retry, or a command that takes it back, has the last
\* word.
CommandsInOrder ==
  \A i, j \in 1..Len(applied) :
    i < j /\ caller[applied[i]] = caller[applied[j]] => applied[i] < applied[j]
=============================================================================
