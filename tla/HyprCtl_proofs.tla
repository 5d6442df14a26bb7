---------------------------- MODULE HyprCtl_proofs ---------------------------
(***************************************************************************)
(* Theorems about HyprCtl, for any number of callers, calls and crashes.   *)
(***************************************************************************)
EXTENDS HyprCtl, TLAPS

LEMMA InitTyped == Init => TypeOK
<1> SUFFICES ASSUME Init PROVE TypeOK
  OBVIOUS
<1>1. inbox \in Seq(Calls) /\ applied \in Seq(Calls)
  BY DEF Init
<1>2. made \in 0..MaxCalls /\ crashes \in 0..MaxCrashes
  BY CtlAssumption DEF Init
<1> QED BY <1>1, <1>2 DEF Init, TypeOK

\* What Handle does to the variables.
LEMMA Handled ==
  ASSUME TypeOK, Handle
  PROVE  /\ Head(inbox) \in Calls /\ inbox' = Tail(inbox)
         /\ \E r \in Replies : reply' = [reply EXCEPT ![Head(inbox)] = r]
         /\ \/ applied' = Append(applied, Head(inbox))
               /\ reply'[Head(inbox)] = "ok"
            \/ applied' = applied
               /\ ~(op[Head(inbox)] = "ok" /\ reply'[Head(inbox)] = "ok")
         /\ UNCHANGED <<callVars, current, process, answer, crashes>>
<1>1. Head(inbox) \in Calls
  BY DEF Handle, TypeOK
<1> QED BY <1>1 DEF Handle, TypeOK, Replies

LEMMA TypeStep == TypeOK /\ [Next]_vars => TypeOK'
<1> SUFFICES ASSUME TypeOK, [Next]_vars PROVE TypeOK'
  OBVIOUS
<1>1. ASSUME NEW c \in Callers, Call(c) PROVE TypeOK'
  <2>1. made' \in 0..MaxCalls /\ made' \in Calls
    BY <1>1, CtlAssumption DEF Call, TypeOK, Calls
  <2>2. /\ caller' = [caller EXCEPT ![made'] = c]
        /\ \E o \in Ops : op' = [op EXCEPT ![made'] = o]
        /\ process' \in {process, [process EXCEPT ![made'] = "started"]}
        /\ current' \in {current, [current EXCEPT ![c] = made']}
        /\ answer' \in {answer, [answer EXCEPT ![made'] = "Io"]}
        /\ UNCHANGED <<reply, compositorVars>>
    BY <1>1 DEF Call
  <2> QED BY <2>1, <2>2 DEF TypeOK, Stages, Answers, compositorVars
<1>2. ASSUME NEW c \in Callers, Return(c) \/ Expire(c) PROVE TypeOK'
  <2>1. PICK what \in Answers : current[c] # None /\ Answer(c, what)
    BY <1>2 DEF Return, Expire, Judged, Answers
  <2>2. process' \in [Calls -> Stages \cup {None}]
    BY <1>2 DEF Return, Expire, TypeOK, Stages, Ended
  <2>3. current[c] \in Calls
    BY <2>1 DEF TypeOK
  <2> QED BY <2>1, <2>2, <2>3 DEF Answer, TypeOK, callVars, compositorVars
<1>3. ASSUME NEW k \in Calls, Send(k) PROVE TypeOK'
  BY <1>3 DEF Send, TypeOK, callVars, Stages
<1>4. ASSUME NEW k \in Calls, Exit(k) PROVE TypeOK'
  BY <1>4 DEF Exit, TypeOK, callVars, compositorVars, Stages, Ended
<1>5. CASE Handle
  <2>1. Tail(inbox) \in Seq(Calls)
    BY <1>5 DEF Handle, TypeOK
  <2>2. Append(applied, Head(inbox)) \in Seq(Calls)
    BY <1>5, Handled DEF TypeOK
  <2> QED BY <1>5, <2>1, <2>2, Handled DEF TypeOK, callVars
<1>6. CASE Crash
  <2>1. inbox' \in Seq(Calls)
    BY <1>6 DEF Crash
  <2>2. process' \in [Calls -> Stages \cup {None}]
    BY <1>6 DEF Crash, TypeOK, Stages
  <2>3. crashes' \in 0..MaxCrashes
    BY <1>6, CtlAssumption DEF Crash, TypeOK
  <2> QED BY <1>6, <2>1, <2>2, <2>3 DEF Crash, TypeOK, callVars
<1>7. CASE UNCHANGED vars
  BY <1>7 DEF vars, callVars, compositorVars, TypeOK
<1> QED BY <1>1, <1>2, <1>3, <1>4, <1>5, <1>6, <1>7 DEF Next

\* The types of HyprCtl, for any number of callers, calls and crashes.
THEOREM CtlTyped == Spec => []TypeOK
<1> QED BY InitTyped, TypeStep, PTL DEF Spec

(***************************************************************************)
(* The way of a request.                                                   *)
(***************************************************************************)

\* Calls are numbered as they are made, and a caller waits for its last one.
Numbered ==
  /\ \A k \in Calls : k > made => process[k] = None /\ answer[k] = None
  /\ \A k \in Calls : k <= made => caller[k] \in Callers
  /\ \A c \in Callers : current[c] # None =>
       /\ current[c] <= made
       /\ \A k \in Calls : k <= made /\ caller[k] = c => k <= current[c]

\* Only a call its caller still waits for has a process that may yet send.
StartedIsAwaited ==
  \A k \in Calls : process[k] = "started" => current[caller[k]] = k

\* Requests come of processes that have sent, and wait until there is a reply.
Underway ==
  /\ \A i \in 1..Len(inbox) : /\ process[inbox[i]] \notin {None, "started"}
                              /\ reply[inbox[i]] = None
  /\ \A i \in 1..Len(applied) : process[applied[i]] \notin {None, "started"}
  /\ \A k \in Calls : reply[k] # None => process[k] \notin {None, "started"}

\* One caller's requests are in the order of its calls, from the first one
\* obeyed to the last one waiting.
Before(j, k) == caller[j] = caller[k] => j < k
InOrder ==
  /\ \A i, j \in 1..Len(applied) : i < j => Before(applied[i], applied[j])
  /\ \A i, j \in 1..Len(inbox) : i < j => Before(inbox[i], inbox[j])
  /\ \A i \in 1..Len(applied), j \in 1..Len(inbox) : Before(applied[i], inbox[j])

RequestInv == Numbered /\ StartedIsAwaited /\ Underway /\ InOrder

\* The requests name calls that were made.
LEMMA RequestsMade ==
  ASSUME TypeOK, RequestInv
  PROVE  /\ \A i \in 1..Len(inbox) : inbox[i] \in Calls /\ inbox[i] <= made
         /\ \A i \in 1..Len(applied) : applied[i] \in Calls /\ applied[i] <= made
<1>1. /\ \A i \in 1..Len(inbox) : inbox[i] \in Calls
      /\ \A i \in 1..Len(applied) : applied[i] \in Calls
  BY DEF TypeOK
<1>2. \A k \in Calls : process[k] # None => k <= made
  BY DEF RequestInv, Numbered, TypeOK, Calls
<1> QED BY <1>1, <1>2 DEF RequestInv, Underway

LEMMA CallKeeps ==
  ASSUME TypeOK, RequestInv, NEW c \in Callers, Call(c)
  PROVE  RequestInv'
<1>0. made \in Nat /\ made' = made + 1 /\ made' \in Calls
  BY CtlAssumption DEF Call, TypeOK, Calls
<1>1. /\ inbox' = inbox /\ applied' = applied /\ reply' = reply
      /\ caller' = [caller EXCEPT ![made'] = c]
  BY DEF Call, compositorVars
<1>2. \A k \in Calls : k # made' => /\ caller'[k] = caller[k]
                                    /\ process'[k] = process[k]
                                    /\ answer'[k] = answer[k]
  BY DEF Call, TypeOK
<1>3. caller'[made'] = c
  BY <1>0, <1>1 DEF TypeOK
<1>4. \A d \in Callers : d # c => current'[d] = current[d]
  BY DEF Call, TypeOK
<1>5. \/ current'[c] = made' /\ process'[made'] = "started"
      \/ current'[c] = None /\ process'[made'] = process[made']
  BY <1>0 DEF Call, TypeOK
<1>6. process[made'] = None
  BY <1>0 DEF RequestInv, Numbered
<1>7. \A k \in Calls : k \in Nat
  BY DEF Calls
<1>8. Numbered'
  <2>1. \A k \in Calls : k > made' => process'[k] = None /\ answer'[k] = None
    BY <1>0, <1>2, <1>7 DEF RequestInv, Numbered
  <2>2. \A k \in Calls : k <= made' => k <= made \/ k = made'
    BY <1>0, <1>7
  <2>3. \A k \in Calls : k <= made' => caller'[k] \in Callers
    BY <1>2, <1>3, <2>2 DEF RequestInv, Numbered
  <2>4. ASSUME NEW d \in Callers, current'[d] # None
        PROVE  /\ current'[d] <= made'
               /\ \A k \in Calls : k <= made' /\ caller'[k] = d => k <= current'[d]
    <3>1. CASE d = c
      BY <1>0, <1>5, <1>7, <2>4, <3>1
    <3>2. CASE d # c
      <4>1. current[d] \in Calls /\ current[d] <= made /\ current'[d] = current[d]
        BY <1>4, <2>4, <3>2 DEF TypeOK, RequestInv, Numbered
      <4>2. \A k \in Calls : k <= made' /\ caller'[k] = d =>
                               k <= made /\ caller[k] = d
        BY <1>2, <1>3, <2>2, <3>2
      <4>3. current[d] # None
        BY <2>4, <4>1
      <4>4. \A k \in Calls : k <= made' /\ caller'[k] = d => k <= current[d]
        BY <4>2, <4>3 DEF RequestInv, Numbered
      <4>5. current[d] \in Nat
        BY <1>7, <4>1
      <4>6. current[d] <= made'
        <5>1. current[d] <= made
          BY <4>1
        <5>2. made \in Nat /\ made' = made + 1
          BY <1>0
        <5> QED BY <4>5, <5>1, <5>2
      <4> QED BY <4>1, <4>4, <4>6
    <3> QED BY <3>1, <3>2
  <2> QED BY <2>1, <2>3, <2>4 DEF Numbered
<1>9. StartedIsAwaited'
  <2> SUFFICES ASSUME NEW k \in Calls, process'[k] = "started"
               PROVE  current'[caller'[k]] = k
    BY DEF StartedIsAwaited
  <2>1. CASE k = made'
    BY <1>3, <1>5, <1>6, <2>1, CtlAssumption DEF Stages
  <2>2. CASE k # made'
    <3>1. current[caller[k]] = k /\ caller'[k] = caller[k]
      BY <1>2, <2>2 DEF RequestInv, StartedIsAwaited
    <3>2. k <= made
      <4>1. process[k] # None
        BY <1>2, <2>2, CtlAssumption DEF Stages
      <4> QED BY <1>0, <1>7, <4>1 DEF RequestInv, Numbered
    <3>3. caller[k] \in Callers /\ current[c] = None /\ k # None
      BY <3>2, CtlAssumption DEF RequestInv, Numbered, Call
    <3> QED BY <1>4, <3>1, <3>3
  <2> QED BY <2>1, <2>2
<1>10. /\ \A i \in 1..Len(inbox) : inbox[i] \in Calls /\ inbox[i] # made'
       /\ \A i \in 1..Len(applied) : applied[i] \in Calls /\ applied[i] # made'
  BY <1>0, RequestsMade
<1>11. Underway'
  <2>1. \A k \in Calls : reply[k] # None => k # made'
    BY <1>6 DEF RequestInv, Underway
  <2> QED BY <1>1, <1>2, <1>10, <2>1 DEF RequestInv, Underway
<1>12. InOrder'
  BY <1>1, <1>2, <1>10 DEF RequestInv, InOrder, Before
<1> QED BY <1>8, <1>9, <1>11, <1>12 DEF RequestInv

\* A call that ends is answered, and its process has exited or is killed.
LEMMA EndKeeps ==
  ASSUME TypeOK, RequestInv, NEW c \in Callers, Return(c) \/ Expire(c)
  PROVE  RequestInv'
<1>1. /\ current[c] \in Calls /\ current[c] # None
      /\ current' = [current EXCEPT ![c] = None]
      /\ UNCHANGED <<made, caller, op, inbox, applied, reply>>
      /\ \A k \in Calls : k # current[c] =>
           process'[k] = process[k] /\ answer'[k] = answer[k]
  BY DEF Return, Expire, Answer, TypeOK, callVars, compositorVars
<1>2. process'[current[c]] \in {"exited", "failed", "killed"}
  BY <1>1 DEF Return, Expire, Ended, TypeOK
<1>3. current[c] <= made
  BY <1>1 DEF RequestInv, Numbered
<1>4. \A k \in Calls : k \in Nat
  BY DEF Calls
<1>5. made \in Nat
  BY DEF TypeOK
<1>6. Numbered'
  <2>1. \A k \in Calls : k > made => k # current[c]
    BY <1>1, <1>3, <1>4, <1>5
  <2>2. \A d \in Callers : current'[d] # None => d # c /\ current'[d] = current[d]
    BY <1>1 DEF TypeOK
  <2> QED BY <1>1, <2>1, <2>2 DEF RequestInv, Numbered
<1>7. StartedIsAwaited'
  <2> SUFFICES ASSUME NEW k \in Calls, process'[k] = "started"
               PROVE  current'[caller'[k]] = k
    BY DEF StartedIsAwaited
  <2>1. k # current[c] /\ process[k] = "started"
    BY <1>1, <1>2
  <2>2. current[caller[k]] = k
    BY <2>1 DEF RequestInv, StartedIsAwaited
  <2>3. k <= made
    <3>1. process[k] # None
      BY <2>1, CtlAssumption DEF Stages
    <3> QED BY <1>4, <1>5, <3>1 DEF RequestInv, Numbered
  <2>4. caller[k] \in Callers
    BY <2>3 DEF RequestInv, Numbered
  <2> QED BY <1>1, <2>1, <2>2, <2>4 DEF TypeOK
<1>8. Underway'
  <2>1. \A k \in Calls : process[k] \notin {None, "started"} =>
                           process'[k] \notin {None, "started"}
    BY <1>1, <1>2, CtlAssumption DEF Stages
  <2> QED BY <1>1, <2>1, RequestsMade DEF RequestInv, Underway
<1>9. InOrder'
  BY <1>1 DEF RequestInv, InOrder, Before
<1> QED BY <1>6, <1>7, <1>8, <1>9 DEF RequestInv

\* The new request is its caller's last.
LEMMA SendKeeps ==
  ASSUME TypeOK, RequestInv, NEW k \in Calls, Send(k)
  PROVE  RequestInv'
<1>1. /\ process[k] = "started" /\ process' = [process EXCEPT ![k] = "sent"]
      /\ inbox' = Append(inbox, k)
      /\ UNCHANGED <<made, caller, op, current, reply, answer, applied>>
  BY DEF Send, callVars
<1>2. process[k] # None /\ "sent" # None
  BY <1>1, CtlAssumption DEF Stages
<1>3. \A j \in Calls : j \in Nat
  BY DEF Calls
<1>4. k <= made
  BY <1>2, <1>3 DEF RequestInv, Numbered, TypeOK
<1>5. caller[k] \in Callers /\ current[caller[k]] = k /\ k # None
  BY <1>1, <1>4, CtlAssumption DEF RequestInv, Numbered, StartedIsAwaited
<1>6. \A j \in Calls : j # k => process'[j] = process[j]
  BY <1>1 DEF TypeOK
<1>7. process'[k] = "sent"
  BY <1>1 DEF TypeOK
<1>8. Numbered'
  <2>1. \A j \in Calls : j > made => j # k
    BY <1>3, <1>4 DEF TypeOK
  <2> QED BY <1>1, <1>6, <2>1 DEF RequestInv, Numbered
<1>9. StartedIsAwaited'
  BY <1>1, <1>6, <1>7 DEF RequestInv, StartedIsAwaited
<1>10. /\ Len(inbox) \in Nat /\ Len(inbox') = Len(inbox) + 1
       /\ \A i \in 1..Len(inbox) : inbox'[i] = inbox[i]
       /\ inbox'[Len(inbox) + 1] = k
  BY <1>1 DEF TypeOK
<1>11. \A i \in 1..Len(inbox') : i \in 1..Len(inbox) \/ i = Len(inbox) + 1
  BY <1>10
<1>12. \A j \in Calls : process[j] \notin {None, "started"} =>
                          process'[j] \notin {None, "started"}
  BY <1>2, <1>6, <1>7
<1>13. Underway'
  <2>1. reply[k] = None
    BY <1>1 DEF RequestInv, Underway
  <2>2. \A i \in 1..Len(inbox') : /\ process'[inbox'[i]] \notin {None, "started"}
                                  /\ reply'[inbox'[i]] = None
    BY <1>1, <1>2, <1>7, <1>10, <1>11, <1>12, <2>1, RequestsMade
    DEF RequestInv, Underway
  <2> QED BY <1>1, <1>12, <2>2, RequestsMade DEF RequestInv, Underway
<1>14. ASSUME NEW j \in Calls, process[j] \notin {None, "started"}
       PROVE  Before(j, k)
  <2>1. j <= made /\ j # k
    BY <1>1, <1>3, <1>14 DEF RequestInv, Numbered, TypeOK
  <2>2. caller[j] = caller[k] => j <= k
    BY <1>5, <2>1 DEF RequestInv, Numbered
  <2> QED BY <1>3, <2>1, <2>2 DEF Before
<1>15. InOrder'
  <2>1. \A i \in 1..Len(inbox) : Before(inbox[i], k)
    BY <1>14, RequestsMade DEF RequestInv, Underway
  <2>2. \A i \in 1..Len(applied) : Before(applied[i], k)
    BY <1>14, RequestsMade DEF RequestInv, Underway
  <2>3. ASSUME NEW i \in 1..Len(inbox'), NEW j \in 1..Len(inbox'), i < j
        PROVE  Before(inbox'[i], inbox'[j])
    <3>1. i \in 1..Len(inbox)
      BY <1>10, <2>3
    <3> QED BY <1>10, <1>11, <2>1, <2>3, <3>1 DEF RequestInv, InOrder
  <2>4. \A i \in 1..Len(applied), j \in 1..Len(inbox') :
          Before(applied[i], inbox'[j])
    BY <1>10, <1>11, <2>2 DEF RequestInv, InOrder
  <2>5. \A i, j : Before(i, j)' <=> (caller[i] = caller[j] => i < j)
    BY <1>1 DEF Before
  <2> QED BY <1>1, <2>3, <2>4, <2>5 DEF RequestInv, InOrder, Before
<1> QED BY <1>8, <1>9, <1>13, <1>15 DEF RequestInv

\* The first request in line is the next to be obeyed.
LEMMA HandleKeeps ==
  ASSUME TypeOK, RequestInv, Handle
  PROVE  RequestInv'
<1> DEFINE k == Head(inbox)
<1>1. /\ inbox # <<>> /\ inbox \in Seq(Calls)
      /\ k \in Calls /\ k = inbox[1] /\ Len(inbox) \in Nat /\ Len(inbox) > 0
  BY DEF Handle, TypeOK
<1>2. /\ inbox' = Tail(inbox)
      /\ Len(inbox') = Len(inbox) - 1
      /\ \A i \in 1..Len(inbox') : i + 1 \in 1..Len(inbox) /\ inbox'[i] = inbox[i + 1]
  BY <1>1 DEF Handle
<1>3. UNCHANGED <<made, caller, op, current, process, answer>>
  BY Handled DEF callVars
<1>4. \A j \in Calls : j # k => reply'[j] = reply[j]
  BY Handled DEF TypeOK
<1>5. process[k] \notin {None, "started"}
  BY <1>1 DEF RequestInv, Underway
<1>6. \A i \in 1..Len(inbox') : Before(k, inbox'[i]) /\ inbox'[i] # k
  <2> TAKE i \in 1..Len(inbox')
  <2>1. Before(inbox[1], inbox[i + 1])
    BY <1>1, <1>2 DEF RequestInv, InOrder
  <2>2. k \in Nat
    BY <1>1 DEF Calls
  <2> QED BY <1>1, <1>2, <2>1, <2>2 DEF Before
<1>7. \/ applied' = applied
      \/ /\ Len(applied) \in Nat /\ Len(applied') = Len(applied) + 1
         /\ \A i \in 1..Len(applied) : applied'[i] = applied[i]
         /\ applied'[Len(applied) + 1] = k
  <2>1. applied \in Seq(Calls)
    BY DEF TypeOK
  <2>2. applied' = applied \/ applied' = Append(applied, k)
    BY Handled
  <2> HIDE DEF k
  <2> QED BY <1>1, <2>1, <2>2
<1> HIDE DEF k
<1>8. Numbered' /\ StartedIsAwaited'
  BY <1>3 DEF RequestInv, Numbered, StartedIsAwaited
<1>9. Len(applied) \in Nat
  BY DEF TypeOK
<1>10. \A i \in 1..Len(applied') :
         \/ i \in 1..Len(applied) /\ applied'[i] = applied[i]
         \/ i = Len(applied) + 1 /\ applied'[i] = k
  BY <1>7, <1>9
<1>11. Underway'
  <2>1. \A i \in 1..Len(inbox') : /\ process[inbox'[i]] \notin {None, "started"}
                                  /\ reply'[inbox'[i]] = None
    BY <1>2, <1>4, <1>6, RequestsMade DEF RequestInv, Underway
  <2>2. \A i \in 1..Len(applied') : process[applied'[i]] \notin {None, "started"}
    BY <1>5, <1>10 DEF RequestInv, Underway
  <2>3. \A j \in Calls : reply'[j] # None => process[j] \notin {None, "started"}
    BY <1>4, <1>5 DEF RequestInv, Underway
  <2> QED BY <1>3, <2>1, <2>2, <2>3 DEF Underway
<1>12. InOrder'
  <2>1. \A i \in 1..Len(applied) : Before(applied[i], k)
    BY <1>1 DEF RequestInv, InOrder
  <2>2. ASSUME NEW i \in 1..Len(applied'), NEW j \in 1..Len(applied'), i < j
        PROVE  Before(applied'[i], applied'[j])
    <3>1. i \in 1..Len(applied) /\ applied'[i] = applied[i]
      BY <1>7, <1>9, <1>10, <2>2
    <3> QED BY <1>10, <2>1, <2>2, <3>1 DEF RequestInv, InOrder
  <2>3. ASSUME NEW i \in 1..Len(inbox'), NEW j \in 1..Len(inbox'), i < j
        PROVE  Before(inbox'[i], inbox'[j])
    <3>1. i + 1 < j + 1
      BY <1>2, <2>3
    <3> QED BY <1>2, <3>1 DEF RequestInv, InOrder
  <2>4. \A i \in 1..Len(applied'), j \in 1..Len(inbox') :
          Before(applied'[i], inbox'[j])
    BY <1>2, <1>6, <1>10 DEF RequestInv, InOrder
  <2> QED BY <1>3, <2>2, <2>3, <2>4 DEF InOrder, Before
<1> QED BY <1>8, <1>11, <1>12 DEF RequestInv

LEMMA RequestStep == TypeOK /\ RequestInv /\ [Next]_vars => RequestInv'
<1> SUFFICES ASSUME TypeOK, RequestInv, [Next]_vars PROVE RequestInv'
  OBVIOUS
<1>1. ASSUME NEW k \in Calls, Exit(k) PROVE RequestInv'
  <2>1. /\ process[k] \in {"sent", "cut"}
        /\ \E status \in Ended : process' = [process EXCEPT ![k] = status]
        /\ UNCHANGED <<made, caller, op, current, reply, answer, inbox, applied>>
    BY <1>1 DEF Exit, Ended, callVars, compositorVars
  <2>2. /\ process[k] # None /\ process'[k] # None
        /\ process[k] # "started" /\ process'[k] # "started"
        /\ \A j \in Calls : j # k => process'[j] = process[j]
    BY <2>1, CtlAssumption DEF TypeOK, Stages, Ended
  <2> QED
    BY <2>1, <2>2, RequestsMade
    DEF RequestInv, Numbered, StartedIsAwaited, Underway, InOrder, Before
<1>2. CASE Crash
  <2>1. /\ inbox' = <<>>
        /\ UNCHANGED <<made, caller, op, current, reply, answer, applied>>
        /\ \A j \in Calls : \/ process'[j] = process[j]
                            \/ process[j] = "sent" /\ process'[j] = "cut"
    BY <1>2 DEF Crash, callVars
  <2>2. None \notin {"sent", "cut"}
    BY CtlAssumption DEF Stages
  <2>3. Len(inbox') = 0
    BY <2>1
  <2>4. \A j \in Calls : /\ process'[j] \in {None, "started"} => process'[j] = process[j]
                         /\ process[j] \in {None, "started"} => process'[j] = process[j]
    BY <2>1, <2>2
  <2>5. Numbered' /\ StartedIsAwaited'
    BY <2>1, <2>4 DEF RequestInv, Numbered, StartedIsAwaited
  <2>6. Underway'
    BY <2>1, <2>3, <2>4, RequestsMade DEF RequestInv, Underway
  <2>7. InOrder'
    BY <2>1, <2>3 DEF RequestInv, InOrder, Before
  <2> QED BY <2>5, <2>6, <2>7 DEF RequestInv
<1>3. CASE UNCHANGED vars
  BY <1>3 DEF vars, callVars, compositorVars, RequestInv, Numbered,
     StartedIsAwaited, Underway, InOrder, Before
<1> QED
  BY <1>1, <1>2, <1>3, CallKeeps, EndKeeps, SendKeeps, HandleKeeps DEF Next

LEMMA RequestsKept == Spec => [](TypeOK /\ RequestInv)
<1>1. Init => RequestInv
  <2> SUFFICES ASSUME Init PROVE RequestInv
    OBVIOUS
  <2>1. None # "started"
    BY CtlAssumption DEF Stages
  <2>2. \A k \in Calls : ~(k <= made)
    BY DEF Init, Calls
  <2> QED
    BY <2>1, <2>2 DEF Init, RequestInv, Numbered, StartedIsAwaited, Underway,
       InOrder, Before
<1> QED BY <1>1, InitTyped, TypeStep, RequestStep, PTL DEF Spec

\* However many callers, calls and crashes: a call that timed out never takes
\* effect after one its caller made later.
THEOREM NoLateCommand == Spec => []CommandsInOrder
<1>1. RequestInv => CommandsInOrder
  BY DEF RequestInv, InOrder, Before, CommandsInOrder
<1> QED BY <1>1, RequestsKept, PTL

(***************************************************************************)
(* Ok is the compositor's word.                                            *)
(***************************************************************************)
Obeyed(k) == \E i \in 1..Len(applied) : applied[i] = k

\* A reply of ok confirms what was obeyed, and an answer of Ok rests on one.
WordInv ==
  \A k \in Calls : op[k] = "ok" =>
    /\ reply[k] = "ok" => Obeyed(k)
    /\ answer[k] = "Ok" => reply[k] = "ok"

LEMMA WordStep == TypeOK /\ RequestInv /\ WordInv /\ [Next]_vars => WordInv'
<1> SUFFICES ASSUME TypeOK, RequestInv, WordInv, [Next]_vars PROVE WordInv'
  OBVIOUS
<1>1. ASSUME NEW c \in Callers, Call(c) PROVE WordInv'
  <2>1. made' \in Calls /\ made' > made
    BY CtlAssumption, <1>1 DEF Call, TypeOK, Calls
  <2>2. reply[made'] # "ok" /\ answer'[made'] # "Ok"
    <3>1. process[made'] = None /\ answer[made'] = None
      BY <2>1 DEF RequestInv, Numbered
    <3>2. reply[made'] = None
      BY <2>1, <3>1 DEF RequestInv, Underway
    <3>3. answer'[made'] \in {None, "Io"}
      BY <1>1, <2>1, <3>1 DEF Call, TypeOK
    <3> QED BY <3>2, <3>3, CtlAssumption DEF Replies, Answers
  <2>3. \A k \in Calls : k # made' => op'[k] = op[k] /\ answer'[k] = answer[k]
    BY <1>1 DEF Call, TypeOK
  <2>4. UNCHANGED <<reply, applied>>
    BY <1>1 DEF Call, compositorVars
  <2> QED BY <2>2, <2>3, <2>4 DEF WordInv, Obeyed
<1>2. ASSUME NEW c \in Callers, Return(c) \/ Expire(c) PROVE WordInv'
  <2>1. current[c] \in Calls
    BY <1>2 DEF Return, Expire, TypeOK
  <2>2. UNCHANGED <<op, reply, applied>>
    BY <1>2 DEF Return, Expire, Answer, callVars, compositorVars
  <2>3. \A k \in Calls : k # current[c] => answer'[k] = answer[k]
    BY <1>2 DEF Return, Expire, Answer, TypeOK
  <2>4. op[current[c]] = "ok" /\ answer'[current[c]] = "Ok" =>
          reply[current[c]] = "ok"
    BY <1>2, <2>1 DEF Return, Expire, Answer, Judged, TypeOK
  <2> QED BY <2>2, <2>3, <2>4 DEF WordInv, Obeyed
<1>3. CASE Handle
  <2>0. PICK h \in Calls : h = Head(inbox)
    BY <1>3, Handled
  <2>1. reply[h] = None
    <3>1. inbox # <<>> /\ h = inbox[1] /\ Len(inbox) \in Nat /\ Len(inbox) > 0
      BY <1>3, <2>0 DEF Handle, TypeOK
    <3> QED BY <1>3, <3>1, Handled DEF RequestInv, Underway
  <2>2. \A k \in Calls : k # h => reply'[k] = reply[k]
    BY <1>3, <2>0, Handled DEF TypeOK
  <2>3. UNCHANGED <<op, answer>>
    BY <1>3, Handled DEF callVars
  <2>4. \A k : Obeyed(k) => Obeyed(k)'
    <3>1. \/ applied' = applied
          \/ /\ Len(applied) \in Nat /\ Len(applied') = Len(applied) + 1
             /\ \A i \in 1..Len(applied) : applied'[i] = applied[i]
      <4>1. applied \in Seq(Calls)
        BY DEF TypeOK
      <4>2. applied' = applied \/ applied' = Append(applied, h)
        BY <1>3, <2>0, Handled
      <4> QED BY <2>0, <4>1, <4>2
    <3> QED BY <3>1 DEF Obeyed
  <2>5. op[h] = "ok" /\ reply'[h] = "ok" => Obeyed(h)'
    <3>1. ASSUME applied' = Append(applied, h) PROVE Obeyed(h)'
      <4>1. /\ Len(applied) \in Nat /\ Len(applied') = Len(applied) + 1
            /\ applied'[Len(applied) + 1] = h
        BY <2>0, <3>1 DEF TypeOK
      <4> QED BY <4>1 DEF Obeyed
    <3> QED BY <1>3, <2>0, <3>1, Handled
  <2>6. op[h] = "ok" => answer[h] # "Ok"
    BY <2>1, CtlAssumption DEF WordInv, Replies
  <2> QED BY <2>1, <2>2, <2>3, <2>4, <2>5, <2>6 DEF WordInv
<1>4. ASSUME NEW k \in Calls, Send(k) \/ Exit(k) PROVE WordInv'
  BY <1>4 DEF Send, Exit, callVars, compositorVars, WordInv, Obeyed
<1>5. CASE Crash
  BY <1>5 DEF Crash, callVars, WordInv, Obeyed
<1>6. CASE UNCHANGED vars
  BY <1>6 DEF vars, callVars, compositorVars, WordInv, Obeyed
<1> QED BY <1>1, <1>2, <1>3, <1>4, <1>5, <1>6 DEF Next

\* Whatever times out, crashes or is answered late, a caller told Ok was
\* obeyed.
THEOREM OkIsTrue == Spec => []OkIsObeyed
<1>1. Init => WordInv
  BY CtlAssumption DEF Init, WordInv, Replies, Answers, Ops
<1>2. WordInv => OkIsObeyed
  BY DEF WordInv, Obeyed, OkIsObeyed
<1> QED BY <1>1, <1>2, WordStep, RequestsKept, PTL DEF Spec
=============================================================================
