----------------------------- MODULE SpanLedger -----------------------------
(***************************************************************************)
(* What span-lines' tracing layer promises of its record stream, with no   *)
(* slots, numbers, locks or hooks in sight: a span is begun once and is    *)
(* open until one thread takes it, alone when it closes or with all others *)
(* in a flush; that thread writes the one record it has, as a thread that  *)
(* logs an event writes the event's.  Records, once written, stay.  A      *)
(* process may stop at any point.  SpanLayer implements it.                *)
(***************************************************************************)
EXTENDS Sequences

CONSTANTS
  Threads,
  Spans,    \* spans the layer records
  None      \* what a record is of when it is an event's

VARIABLES
  begun,    \* spans begun
  open,     \* spans begun and not taken yet
  hands,    \* thread -> spans it has taken and not written yet
  logging,  \* threads with an event to write
  stream    \* what was written, in order

ledgerVars == <<begun, open, hands, logging, stream>>

Init ==
  /\ begun = {}
  /\ open = {}
  /\ hands = [t \in Threads |-> {}]
  /\ logging = {}
  /\ stream = <<>>

Free(t) == hands[t] = {} /\ t \notin logging

Begin(s) ==
  /\ s \notin begun
  /\ begun' = begun \cup {s}
  /\ open' = open \cup {s}
  /\ UNCHANGED <<hands, logging, stream>>

\* The span closes.
Take(t, s) ==
  /\ Free(t)
  /\ s \in open
  /\ open' = open \ {s}
  /\ hands' = [hands EXCEPT ![t] = {s}]
  /\ UNCHANGED <<begun, logging, stream>>

\* A flush takes what is open, nothing spared.
TakeAll(t) ==
  /\ Free(t)
  /\ open' = {}
  /\ hands' = [hands EXCEPT ![t] = open]
  /\ UNCHANGED <<begun, logging, stream>>

WriteSpan(t, s) ==
  /\ s \in hands[t]
  /\ hands' = [hands EXCEPT ![t] = @ \ {s}]
  /\ stream' = Append(stream, s)
  /\ UNCHANGED <<begun, open, logging>>

LogEvent(t) ==
  /\ Free(t)
  /\ logging' = logging \cup {t}
  /\ UNCHANGED <<begun, open, hands, stream>>

WriteEvent(t) ==
  /\ t \in logging
  /\ logging' = logging \ {t}
  /\ stream' = Append(stream, None)
  /\ UNCHANGED <<begun, open, hands>>

Next ==
  \/ \E s \in Spans : Begin(s)
  \/ \E t \in Threads :
       \/ \E s \in Spans : Take(t, s) \/ WriteSpan(t, s)
       \/ TakeAll(t) \/ LogEvent(t) \/ WriteEvent(t)

Spec == Init /\ [][Next]_ledgerVars
=============================================================================
