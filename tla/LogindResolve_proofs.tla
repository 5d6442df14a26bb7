------------------------ MODULE LogindResolve_proofs ------------------------
(***************************************************************************)
(* Theorems about LogindResolve, for any sessions, owners and classes.     *)
(***************************************************************************)
EXTENDS LogindResolve, TLAPS

Looping == at \in {"next", "State", "Type"}

\* A score lies between 0 and 7, and 7 takes all three merits.
LEMMA ScoreBounds ==
  ASSUME NEW s, NEW desktop \in BOOLEAN, NEW seen \in State
  PROVE  /\ Score(s, desktop, seen) \in 0..7
         /\ Score(s, desktop, seen) = 7 <=>
              s \in UserClass /\ desktop /\ seen = "active"
<1>1. CASE seen = "active"
  BY <1>1 DEF Score
<1>2. CASE seen = "online"
  BY <1>2 DEF Score
<1>3. CASE seen = "closing"
  BY <1>3 DEF Score
<1> QED BY <1>1, <1>2, <1>3 DEF State

\* What a candidate does to best.
LEMMA KeepBest ==
  ASSUME NEW n \in 0..7, best \in [score : -1..7, path : Sessions \cup {None}],
         path \in Sessions, Keep(n)
  PROVE  /\ best' \in [score : -1..7, path : Sessions \cup {None}]
         /\ best'.score >= n /\ best'.score >= best.score
         /\ best' = best \/ best' = [score |-> n, path |-> path]
BY DEF Keep

\* The types hold at the start.
LEMMA InitTypes == Init => TypeOK
<1> SUFFICES ASSUME Init PROVE TypeOK
  OBVIOUS
<1>1. state \in [Sessions -> State \cup {"unborn", "gone"}]
  BY DEF Init
<1>2. best \in [score : -1..7, path : Sessions \cup {None}]
  BY DEF Init, NoBest
<1> QED
  BY <1>1, <1>2, LogindAssumption DEF Init, TypeOK, Paths

\* A step of a session keeps them.
LEMMA WorldTypes == TypeOK /\ World => TypeOK'
<1> SUFFICES ASSUME TypeOK, NEW s \in Sessions,
                    Open(s) \/ Close(s) \/ SetState(s) \/ SetType(s)
             PROVE  TypeOK'
  BY DEF World
<1>1. /\ state' \in [Sessions -> State \cup {"unborn", "gone"}]
      /\ graphical' \in SUBSET Alive'
  <2>1. CASE Open(s)
    BY <2>1 DEF Open, TypeOK, Alive, State
  <2>2. CASE Close(s)
    BY <2>2 DEF Close, TypeOK, Alive, State
  <2>3. CASE SetState(s)
    BY <2>3 DEF SetState, TypeOK, Alive, State
  <2>4. CASE SetType(s)
    BY <2>4 DEF SetType, TypeOK, Alive, State
  <2> QED BY <2>1, <2>2, <2>3, <2>4
<1>2. UNCHANGED <<callVars, faulty>>
  BY DEF Open, Close, SetState, SetType, Witness
<1> QED BY <1>1, <1>2 DEF TypeOK, callVars

\* A step of the call keeps them.
LEMMA CallTypes == TypeOK /\ Call => TypeOK'
<1> SUFFICES ASSUME TypeOK, Call PROVE TypeOK'
  OBVIOUS
<1> USE LogindAssumption DEF TypeOK, Quiet, worldVars, history, read
<1>0. Alive' = Alive /\ Alive \subseteq Sessions
  BY DEF Call, GetSessionByPID, ReadId, GetSession, ListSessions, NextRow,
         ReadState, ReadType, EndOfList, RequireGraphical, Alive
<1>1. CASE GetSessionByPID
  BY <1>0, <1>1 DEF GetSessionByPID, Answers, Lied, Fallback, Paths
<1>2. CASE ReadId
  BY <1>0, <1>2 DEF ReadId, Resolved, Finish
<1>3. CASE GetSession
  BY <1>0, <1>3 DEF GetSession, Answers, Lied, Resolved, Finish, Paths
<1>4. CASE ListSessions
  BY <1>0, <1>4 DEF ListSessions, Finish, Paths
<1>5. CASE NextRow
  BY <1>0, <1>5 DEF NextRow, Candidate, Paths
<1>6. CASE ReadState
  <2>1. CASE Readable(path) /\ readState' = state[path] /\ at' = "Type"
             /\ readDesktop' = (path \in graphical) /\ UNCHANGED faulty
    <3>1. readState' \in State /\ readDesktop' \in BOOLEAN
      BY <2>1 DEF Readable, Alive
    <3> QED BY <1>0, <1>6, <2>1, <3>1 DEF ReadState
  <2>2. CASE Skip
    BY <1>0, <1>6, <2>2 DEF ReadState, Skip, DropProxy
  <2> QED BY <1>6, <2>1, <2>2 DEF ReadState
<1>7. CASE ReadType
  <2>1. ASSUME NEW desktop \in BOOLEAN, Keep(Score(path, desktop, readState)),
               DropProxy, UNCHANGED faulty
        PROVE  TypeOK'
    <3>1. path \in Sessions /\ readState \in State
      BY <1>7 DEF ReadType
    <3>2. PICK n \in 0..7 : Keep(n)
      BY <2>1, <3>1, ScoreBounds
    <3>3. best' \in [score : -1..7, path : Sessions \cup {None}]
      BY <3>1, <3>2, KeepBest
    <3> QED BY <1>0, <1>7, <2>1, <3>3 DEF ReadType, DropProxy
  <2>2. CASE Skip /\ UNCHANGED best
    BY <1>0, <1>7, <2>2 DEF ReadType, Skip, DropProxy
  <2> QED BY <1>7, <2>1, <2>2 DEF ReadType
<1>8. CASE EndOfList
  BY <1>0, <1>8 DEF EndOfList, Resolved, Finish, Paths
<1>9. CASE RequireGraphical
  BY <1>0, <1>9 DEF RequireGraphical, Finish
<1> QED
  BY <1>1, <1>2, <1>3, <1>4, <1>5, <1>6, <1>7, <1>8, <1>9 DEF Call

\* The history is current, and shrinks while sessions step.
HistoryInv == steady \subseteq Alive /\ prime \subseteq steady \cap Prime

LEMMA WorldHistory ==
  TypeOK /\ World => /\ UNCHANGED <<callVars, faulty>>
                     /\ steady' \subseteq steady /\ prime' \subseteq prime
                     /\ HistoryInv => HistoryInv'
BY DEF World, Open, Close, SetState, SetType, Witness, HistoryInv

\* The call leaves the sessions and the history alone.
LEMMA CallQuiet == Call => Quiet
BY DEF Call, GetSessionByPID, ReadId, GetSession, ListSessions, NextRow,
       ReadState, ReadType, EndOfList, RequireGraphical

\* What the call has taken hold of: the session the caller is in, a row of the
\* caller's, or a result of one of the three lookups.
OwnInv ==
  /\ at = "Id" => path = CallerSession /\ path \in Sessions
  /\ best = NoBest \/ best.path \in Mine
  /\ at = "require" \/ outcome = "Ok" =>
       /\ path \in Sessions
       /\ path \in Mine \/ path = CallerSession \/ path = EnvSession

\* While the caller's session stands and logind serves, the call holds it.
CallerInv ==
  ~faulty /\ CallerSession \in steady =>
    \/ at = "GetSessionByPID"
    \/ at \in {"Id", "require", "done"} /\ path = CallerSession

\* Which lookup is under way.
TierInv ==
  /\ at \in {"GetSessionByPID", "Id", "GetSession"} => tier = "pid"
  /\ at = "ListSessions" => tier \in {"pid", "env"}
  /\ Looping => tier = "list"

\* A session of the caller that stands throughout is ahead of the loop, under
\* test, or has left a best entry behind.
AbsenceInv ==
  ~faulty =>
    /\ Looping => \A s \in steady \cap Mine :
                    \/ s \in listed \/ best # NoBest
                    \/ at \in {"State", "Type"} /\ path = s
    /\ outcome = "NoSession" => steady \cap Mine = {}

\* A prime one has left a full score behind, and only such a one does.
DesktopInv ==
  /\ best.score = 7 => best.path \in UserClass
  /\ at = "Type" /\ path \in prime => readState = "active" /\ readDesktop
  /\ Looping /\ ~faulty => \A s \in prime \cap Mine :
                             \/ s \in listed \/ best.score = 7
                             \/ at \in {"State", "Type"} /\ path = s
  /\ tier = "list" /\ (at = "require" \/ outcome = "Ok") =>
       /\ path = best.path
       /\ ~faulty /\ prime \cap Mine # {} => best.score = 7

CallInv == TypeOK /\ HistoryInv /\ OwnInv /\ CallerInv /\ TierInv /\ AbsenceInv
           /\ DesktopInv

LEMMA InitCall == Init => CallInv
<1> SUFFICES ASSUME Init PROVE CallInv
  OBVIOUS
<1>1. TypeOK
  BY InitTypes
<1>2. HistoryInv
  BY DEF Init, HistoryInv, Prime, Alive, State
<1>3. best = NoBest /\ best.score = -1
  BY DEF Init, NoBest
<1> QED
  BY <1>1, <1>2, <1>3 DEF Init, CallInv, OwnInv, CallerInv, TierInv,
     AbsenceInv, DesktopInv, Looping

\* A session's step takes nothing from what the call holds.
LEMMA WorldCall == CallInv /\ World => CallInv'
<1> SUFFICES ASSUME CallInv, World PROVE CallInv'
  OBVIOUS
<1>1. TypeOK'
  BY WorldTypes DEF CallInv
<1>2. /\ UNCHANGED <<callVars, faulty>>
      /\ steady' \subseteq steady /\ prime' \subseteq prime /\ HistoryInv'
  BY WorldHistory DEF CallInv, HistoryInv
<1> QED
  BY <1>1, <1>2 DEF CallInv, callVars, OwnInv, CallerInv, TierInv, AbsenceInv,
     DesktopInv, Looping

\* The answer of a lookup that did not lie about a standing session is it.
LEMMA TrueAnswer ==
  ASSUME NEW s, NEW answer \in Answers(s), s \in Alive, Lied(s, answer), ~faulty'
  PROVE  answer = s
BY DEF Lied

LEMMA OwnStep == CallInv /\ Call => OwnInv'
<1> SUFFICES ASSUME CallInv, Call PROVE OwnInv'
  OBVIOUS
<1> USE LogindAssumption DEF CallInv, TypeOK, OwnInv
<1>1. CASE GetSessionByPID
  BY <1>1 DEF GetSessionByPID, Answers, Fallback
<1>2. CASE ReadId
  BY <1>2 DEF ReadId, Resolved, Finish
<1>3. CASE GetSession
  BY <1>3 DEF GetSession, Answers, Resolved, Finish
<1>4. CASE ListSessions
  BY <1>4 DEF ListSessions, Finish
<1>5. CASE NextRow
  BY <1>5 DEF NextRow
<1>6. CASE ReadState
  BY <1>6 DEF ReadState, Skip, DropProxy
<1>7. CASE ReadType
  BY <1>7 DEF ReadType, Keep, Skip, DropProxy
<1>8. CASE EndOfList
  BY <1>8 DEF EndOfList, Resolved, Finish
<1>9. CASE RequireGraphical
  BY <1>9 DEF RequireGraphical, Finish
<1> QED
  BY <1>1, <1>2, <1>3, <1>4, <1>5, <1>6, <1>7, <1>8, <1>9 DEF Call

LEMMA CallerStep == CallInv /\ Call => CallerInv'
<1> SUFFICES ASSUME CallInv, Call, ~faulty', CallerSession \in steady'
             PROVE  \/ at' = "GetSessionByPID"
                    \/ at' \in {"Id", "require", "done"} /\ path' = CallerSession
  BY DEF CallerInv
<1>1. CallerSession \in steady /\ CallerSession \in Alive
  BY CallQuiet DEF CallInv, HistoryInv, Quiet, history
<1>2. CallerSession \in Sessions
  BY <1>1 DEF Alive
<1>3. CASE GetSessionByPID
  <2>1. PICK answer \in Answers(CallerSession) :
          /\ Lied(CallerSession, answer)
          /\ IF answer \in Sessions
             THEN at' = "Id" /\ path' = answer
             ELSE at' = Fallback /\ UNCHANGED path
    BY <1>3 DEF GetSessionByPID
  <2>2. answer = CallerSession
    BY <1>1, <2>1, TrueAnswer
  <2> QED BY <1>2, <2>1, <2>2
<1>4. CASE ~GetSessionByPID
  <2>1. ~faulty
    BY <1>4 DEF Call, ReadId, GetSession, Lied, ListSessions, NextRow,
       ReadState, ReadType, Skip, EndOfList, RequireGraphical, CallInv, TypeOK
  <2>2. at # "GetSessionByPID"
    BY <1>4 DEF Call, ReadId, GetSession, ListSessions, NextRow, ReadState,
       ReadType, EndOfList, RequireGraphical
  <2>3. at \in {"Id", "require"} /\ path = CallerSession
    BY <1>1, <1>4, <2>1, <2>2 DEF CallInv, CallerInv, Call, ReadId, GetSession,
       ListSessions, NextRow, ReadState, ReadType, EndOfList, RequireGraphical
  <2> QED
    BY <1>4, <2>3 DEF Call, ReadId, GetSession, ListSessions, NextRow,
       ReadState, ReadType, EndOfList, RequireGraphical, Resolved, Finish
<1> QED BY <1>3, <1>4

LEMMA TierStep == CallInv /\ Call => TierInv'
<1> SUFFICES ASSUME CallInv, Call PROVE TierInv'
  OBVIOUS
<1> USE DEF CallInv, TierInv, Looping, Resolved, Finish
<1>1. CASE GetSessionByPID
  BY <1>1 DEF GetSessionByPID, Fallback
<1>2. CASE ReadId \/ RequireGraphical
  BY <1>2 DEF ReadId, RequireGraphical
<1>3. CASE GetSession \/ ListSessions
  BY <1>3 DEF GetSession, ListSessions
<1>4. CASE NextRow \/ ReadState
  BY <1>4 DEF NextRow, ReadState, Skip, DropProxy
<1>5. CASE ReadType \/ EndOfList
  BY <1>5 DEF ReadType, EndOfList, Skip, DropProxy
<1> QED BY <1>1, <1>2, <1>3, <1>4, <1>5 DEF Call

\* What a property read leaves of the entry under test.
LEMMA TestedEntry ==
  ASSUME CallInv, ReadState \/ ReadType
  PROVE  /\ ~faulty' => ~faulty
         /\ path' = path /\ listed' = listed /\ tier' = "list" /\ tier = "list"
         /\ outcome' = "running"
         /\ \/ at' = "next"
            \/ /\ at' = "Type" /\ at = "State" /\ readState' = state[path]
               /\ readDesktop' = (path \in graphical)
         /\ path \in Alive /\ ~faulty' /\ at = "Type" =>
              \E desktop \in BOOLEAN :
                TypeRead(desktop) /\ Keep(Score(path, desktop, readState))
         /\ path \in Alive /\ ~faulty' /\ at = "State" => at' = "Type"
<1>0. tier = "list" /\ outcome = "running"
  BY DEF ReadState, ReadType, CallInv, TypeOK, TierInv, Looping
<1>1. CASE ReadState
  <2>1. Skip => (~faulty' => ~faulty /\ path \notin Alive)
    BY DEF Skip, Readable, CallInv, TypeOK
  <2> QED BY <1>0, <1>1, <2>1 DEF ReadState, Skip, DropProxy
<1>2. CASE ReadType
  <2>1. Skip => (~faulty' => ~faulty /\ path \notin Alive)
    BY DEF Skip, Readable, CallInv, TypeOK
  <2> QED BY <1>0, <1>2, <2>1 DEF ReadType, Skip, DropProxy
<1> QED BY <1>1, <1>2

\* The comparison only ever improves best, and a living entry tested to the end
\* is behind it.
LEMMA TestedScore ==
  ASSUME CallInv, ReadType
  PROVE  /\ best' = best
              \/ \E n \in 0..7 :
                   /\ best' = [score |-> n, path |-> path] /\ n > best.score
                   /\ n = 7 => path \in UserClass
         /\ path \in Alive /\ ~faulty' => best'.score >= 0 /\ best' # NoBest
         /\ path \in Alive /\ ~faulty' /\ readState = "active" /\ readDesktop
              /\ path \in graphical /\ path \in UserClass => best'.score = 7
<1>1. /\ readState \in State /\ path \in Sessions
      /\ best \in [score : -1..7, path : Sessions \cup {None}]
  BY LogindAssumption DEF ReadType, CallInv, TypeOK
<1>2. ASSUME NEW n \in 0..7, Keep(n)
      PROVE  /\ best'.score >= n
             /\ \/ best' = best
                \/ best' = [score |-> n, path |-> path] /\ n > best.score
             /\ best'.score \in -1..7
  <2>1. best.score \in -1..7
    BY <1>1
  <2>2. CASE n > best.score
    BY <1>2, <2>2 DEF Keep
  <2>3. CASE ~(n > best.score)
    BY <1>2, <2>1, <2>3 DEF Keep
  <2> QED BY <2>2, <2>3
<1>3. CASE Skip /\ UNCHANGED best
  <2>1. ~(path \in Alive /\ ~faulty')
    BY <1>3 DEF Skip, Readable, CallInv, TypeOK
  <2> QED BY <1>3, <2>1
<1>4. CASE \E desktop \in BOOLEAN :
             TypeRead(desktop) /\ Keep(Score(path, desktop, readState))
  <2>1. PICK desktop \in BOOLEAN :
          TypeRead(desktop) /\ Keep(Score(path, desktop, readState))
    BY <1>4
  <2> DEFINE n == Score(path, desktop, readState)
  <2>2. /\ n \in 0..7
        /\ n = 7 <=> path \in UserClass /\ desktop /\ readState = "active"
    BY <1>1, ScoreBounds
  <2>3. readDesktop /\ path \in graphical => desktop
    BY <2>1 DEF TypeRead
  <2> HIDE DEF n
  <2>4. Keep(n)
    BY <2>1 DEF n
  <2> QED BY <1>2, <2>2, <2>3, <2>4 DEF NoBest
<1> QED BY <1>3, <1>4 DEF ReadType

LEMMA AbsenceStep == CallInv /\ Call => AbsenceInv'
<1> SUFFICES ASSUME CallInv, Call, ~faulty'
             PROVE  /\ Looping' => \A s \in steady' \cap Mine :
                         \/ s \in listed' \/ best' # NoBest
                         \/ at' \in {"State", "Type"} /\ path' = s
                    /\ outcome' = "NoSession" => steady' \cap Mine = {}
  BY DEF AbsenceInv
<1>0. /\ steady' = steady /\ steady \subseteq Alive /\ Alive \subseteq Sessions
      /\ Manager \notin steady
  BY CallQuiet, LogindAssumption DEF CallInv, HistoryInv, Quiet, history, Alive
<1> USE DEF Looping, Resolved, Finish
<1>1. CASE GetSessionByPID \/ ReadId \/ GetSession \/ RequireGraphical
  BY <1>1 DEF GetSessionByPID, ReadId, GetSession, RequireGraphical, Fallback,
     CallInv, TypeOK
<1>2. CASE ListSessions
  BY <1>0, <1>2 DEF ListSessions, CallInv, TypeOK
<1>3. CASE NextRow
  BY <1>0, <1>3 DEF NextRow, Candidate, CallInv, TypeOK, AbsenceInv
<1>4. CASE ReadState
  BY <1>0, <1>4, TestedEntry DEF ReadState, CallInv, TypeOK, AbsenceInv
<1>5. CASE ReadType
  <2>1. /\ ~faulty /\ path' = path /\ listed' = listed
        /\ outcome' = "running" /\ at = "Type"
    BY <1>5, TestedEntry DEF ReadType
  <2>2. best # NoBest => best' # NoBest
    BY <1>5, TestedScore DEF NoBest, CallInv, TypeOK
  <2>3. path \in Alive => best' # NoBest
    BY <1>5, TestedScore
  <2> QED BY <1>0, <2>1, <2>2, <2>3 DEF CallInv, AbsenceInv
<1>6. CASE EndOfList
  BY <1>0, <1>6 DEF EndOfList, CallInv, AbsenceInv
<1> QED BY <1>1, <1>2, <1>3, <1>4, <1>5, <1>6 DEF Call

LEMMA DesktopStep == CallInv /\ Call => DesktopInv'
<1> SUFFICES ASSUME CallInv, Call PROVE DesktopInv'
  OBVIOUS
<1>0. /\ prime' = prime /\ prime \subseteq Alive \cap Prime /\ Manager \notin prime
  BY CallQuiet, LogindAssumption DEF CallInv, HistoryInv, Quiet, history, Alive
<1> USE DEF Looping, Resolved, Finish
<1>1. CASE GetSessionByPID \/ ReadId \/ GetSession
  BY <1>0, <1>1 DEF GetSessionByPID, ReadId, GetSession, Fallback, CallInv,
     TypeOK, TierInv, DesktopInv
<1>2. CASE ListSessions
  BY <1>0, <1>2 DEF ListSessions, CallInv, TypeOK, TierInv, DesktopInv
<1>3. CASE NextRow
  BY <1>0, <1>3 DEF NextRow, Candidate, CallInv, TypeOK, DesktopInv
<1>4. CASE ReadState
  <2>1. path \in prime => state[path] = "active" /\ path \in graphical
    BY <1>0 DEF Prime
  <2>2. best' = best /\ at = "State"
    BY <1>4 DEF ReadState
  <2> QED
    BY <1>0, <1>4, <2>1, <2>2, TestedEntry DEF CallInv, DesktopInv
<1>5. CASE ReadType
  <2>1. /\ ~faulty' => ~faulty
        /\ path' = path /\ listed' = listed /\ outcome' = "running"
        /\ at = "Type" /\ at' = "next"
    BY <1>5, TestedEntry DEF ReadType
  <2>2. best.score = 7 => best'.score = 7
    BY <1>5, TestedScore DEF CallInv, TypeOK
  <2>3. best'.score = 7 => best'.path \in UserClass
    BY <1>5, TestedScore DEF CallInv, DesktopInv
  <2>4. path \in prime /\ ~faulty' => best'.score = 7
    BY <1>0, <1>5, <2>1, TestedScore DEF Prime, CallInv, DesktopInv
  <2> QED BY <1>0, <2>1, <2>2, <2>3, <2>4 DEF CallInv, DesktopInv
<1>6. CASE EndOfList
  BY <1>0, <1>6 DEF EndOfList, CallInv, TypeOK, DesktopInv
<1>7. CASE RequireGraphical
  BY <1>0, <1>7 DEF RequireGraphical, CallInv, TypeOK, DesktopInv
<1> QED BY <1>1, <1>2, <1>3, <1>4, <1>5, <1>6, <1>7 DEF Call

\* The invariant the results rest on.
LEMMA CallInvariant == Spec => []CallInv
<1>1. CallInv /\ [Next]_vars => CallInv'
  <2> SUFFICES ASSUME CallInv, [Next]_vars PROVE CallInv'
    OBVIOUS
  <2>1. CASE World
    BY <2>1, WorldCall
  <2>2. CASE Call
    <3>1. TypeOK'
      BY <2>2, CallTypes DEF CallInv
    <3>2. HistoryInv'
      BY <2>2, CallQuiet DEF CallInv, HistoryInv, Quiet, worldVars, history,
         Alive, Prime
    <3> QED
      BY <2>2, <3>1, <3>2, OwnStep, CallerStep, TierStep, AbsenceStep,
         DesktopStep DEF CallInv
  <2>3. CASE UNCHANGED vars
    BY <2>3 DEF CallInv, TypeOK, HistoryInv, OwnInv, CallerInv, TierInv,
       AbsenceInv, DesktopInv, Looping, Alive, Prime, vars, worldVars,
       callVars, history
  <2> QED BY <2>1, <2>2, <2>3 DEF Next
<1> QED BY <1>1, InitCall, PTL DEF Spec

\* Types, for any sessions: what is being tested is a row of the caller's.
THEOREM CallIsTyped == Spec => []TypeOK
<1>1. CallInv => TypeOK
  BY DEF CallInv
<1> QED BY <1>1, CallInvariant, PTL

\* The manager's path is never resolved, nor a session that is neither the
\* caller's, nor the one it is in, nor the one the environment names.
THEOREM ManagerNeverResolved == Spec => []NeverForeign
<1>1. CallInv => NeverForeign
  BY DEF CallInv, OwnInv, NeverForeign
<1> QED BY <1>1, CallInvariant, PTL

\* While logind serves, the session the caller is in comes first.
THEOREM CallerComesFirst == Spec => []CallerWins
<1>1. CallInv => CallerWins
  BY DEF CallInv, TypeOK, CallerInv, CallerWins
<1> QED BY <1>1, CallInvariant, PTL

\* While logind serves, NoSession is true of the sessions that stood throughout.
THEOREM AbsenceIsTrue == Spec => []NoFalseAbsence
<1>1. CallInv => NoFalseAbsence
  BY DEF CallInv, AbsenceInv, NoFalseAbsence
<1> QED BY <1>1, CallInvariant, PTL

\* While logind serves, scoring ends on an active graphical user session if the
\* caller has one throughout.
THEOREM DesktopIsChosen == Spec => []DesktopWins
<1>1. CallInv => DesktopWins
  BY DEF CallInv, TypeOK, DesktopInv, DesktopWins
<1> QED BY <1>1, CallInvariant, PTL
=============================================================================
