--------------------------- MODULE ProcessProofs ---------------------------
(***************************************************************************)
(* Safety of the process, for any settings, files and number of requests.  *)
(***************************************************************************)
EXTENDS Process, TLAPS

Requests == [state : States \cup {"idle", "answered", "lost", "untaken", "cut"},
             age : Nat, call : Nat]

\* Time changes nothing of a request but its ages.
LEMMA OlderType ==
  ASSUME NEW r \in Requests
  PROVE  /\ Older(r) \in Requests
         /\ Older(r).state = r.state
         /\ r.state \in States => Older(r).age = r.age + 1
         /\ r.state = "calling" => Older(r).call = r.call + 1
<1>1. CASE r.state = "calling"
  <2>1. Older(r) = [r EXCEPT !.age = @ + 1, !.call = @ + 1]
    BY <1>1 DEF Older
  <2>2. Older(r) = [r EXCEPT !.age = r.age + 1, !.call = r.call + 1]
    BY <2>1 DEF Requests
  <2>3. r.age + 1 \in Nat /\ r.call + 1 \in Nat
    BY DEF Requests
  <2>. QED
    BY <2>2, <2>3 DEF Requests
<1>2. CASE r.state \in {"reading", "writing"}
  <2>1. Older(r) = [r EXCEPT !.age = @ + 1]
    BY <1>2 DEF Older
  <2>. QED
    BY <1>2, <2>1 DEF Requests
<1>3. CASE r.state \notin States
  <2>1. Older(r) = r
    BY <1>3 DEF Older, States
  <2>. QED
    BY <1>3, <2>1 DEF States
<1>. QED
  BY <1>1, <1>2, <1>3 DEF States

\* Every variable keeps its type.
LEMMA TypeStep == TypeOK /\ [Next]_vars => TypeOK'
<1>. SUFFICES ASSUME TypeOK, [Next]_vars PROVE TypeOK'
  OBVIOUS
<1>1. CASE Start
  <2>1. config.shutdown \in Nat
    <3>1. config.shutdown \in Timeouts(config)
      BY DEF Timeouts
    <3>2. Timeouts(config) \subseteq Int
      BY ProcessAssumption DEF TypeOK
    <3>3. \A t \in Timeouts(config) : t > 0
      <4>1. Valid(config)
        BY <1>1 DEF Start
      <4>. QED
        BY <4>1 DEF Valid
    <3>. QED
      BY <3>1, <3>2, <3>3
  <2>2. registry' \subseteq {f.id : f \in files'}
    BY <1>1 DEF Start, Loaded, Json
  <2>. QED
    BY <1>1, <2>1, <2>2 DEF Start, TypeOK, Idle
<1>2. CASE StartFails
  BY <1>2 DEF StartFails, TypeOK
<1>3. CASE Notify
  BY <1>3 DEF Notify, TypeOK
<1>4. CASE ReceiveError
  BY <1>4 DEF ReceiveError, TypeOK
<1>5. CASE ReceiveSignal
  BY <1>5 DEF ReceiveSignal, TypeOK
<1>6. CASE ShutdownDone
  BY <1>6 DEF ShutdownDone, TypeOK
<1>7. CASE ShutdownTimesOut
  BY <1>7 DEF ShutdownTimesOut, TypeOK
<1>8. CASE Exit
  BY <1>8 DEF Exit, Cut, Serving, TypeOK
<1>9. CASE Killed
  BY <1>9 DEF Killed, Cut, Serving, TypeOK
<1>10. CASE Reconfigure
  BY <1>10 DEF Reconfigure, TypeOK, Idle
<1>11. CASE Bind
  BY <1>11 DEF Bind, TypeOK
<1>12. CASE AcceptFails
  BY <1>12 DEF AcceptFails, TypeOK
<1>13. CASE Signal
  BY <1>13 DEF Signal, TypeOK
<1>14. CASE Elapse
  <2>1. \A s \in Slot : Older(requests[s]) \in Requests
    BY OlderType DEF TypeOK, Requests
  <2>2. requests' \in [Slot -> Requests]
    BY <1>14, <2>1 DEF Elapse
  <2>. QED
    BY <1>14, <2>2 DEF Elapse, TypeOK, Requests
<1>15. ASSUME NEW s \in Slot, Arrive(s)
       PROVE  TypeOK'
  BY <1>15 DEF Arrive, TypeOK, Idle, States
<1>16. ASSUME NEW s \in Slot, Call(s) \/ Reply(s) \/ Take(s)
       PROVE  TypeOK'
  BY <1>16 DEF Call, Reply, Take, TypeOK, States
<1>17. CASE UNCHANGED vars
  BY <1>17 DEF vars, TypeOK
<1>. QED
  BY <1>1, <1>2, <1>3, <1>4, <1>5, <1>6, <1>7, <1>8, <1>9, <1>10, <1>11, <1>12,
     <1>13, <1>14, <1>15, <1>16, <1>17 DEF Next, Main

\* Every variable keeps its type, and the process waits only on valid settings.
THEOREM ProcessTypeCorrect == Spec => []TypeOK
<1>1. Init => TypeOK
  <2>1. [s \in Slot |-> Idle] \in [Slot -> Requests]
    BY DEF Idle, Requests
  <2>2. ASSUME Init PROVE phase = "off" /\ config \in Configs /\ files \in FileSets
                         /\ listener = "none" /\ failed = FALSE /\ quit = FALSE
    BY <2>2 DEF Init
  <2>3. ASSUME Init PROVE registry = {} /\ left = 0 /\ code = 0 /\ requests = [s \in Slot |-> Idle]
    BY <2>3 DEF Init
  <2>. QED
    BY <2>1, <2>2, <2>3 DEF TypeOK, Requests
<1>. QED
  BY <1>1, TypeStep, PTL DEF Spec

-----------------------------------------------------------------------------
(* The listener is closed, or was never opened, once the process drains or is  *)
(* off; and a serving error leaves it closed.                                  *)

ListenerInv ==
  /\ phase \in {"off", "draining", "returned"} => listener # "open"
  /\ failed => listener = "closed"

\* No step leaves a listener open behind a drain.
LEMMA ListenerStep == TypeOK /\ ListenerInv /\ [Next]_vars => ListenerInv'
<1>. SUFFICES ASSUME TypeOK, ListenerInv, [Next]_vars PROVE ListenerInv'
  OBVIOUS
<1>. USE DEF ListenerInv
<1>1. CASE Start
  BY <1>1 DEF Start
<1>2. CASE StartFails
  BY <1>2 DEF StartFails
<1>3. CASE Notify
  BY <1>3 DEF Notify
<1>4. CASE ReceiveError
  BY <1>4 DEF ReceiveError
<1>5. CASE ReceiveSignal
  BY <1>5 DEF ReceiveSignal
<1>6. CASE ShutdownDone
  BY <1>6 DEF ShutdownDone
<1>7. CASE ShutdownTimesOut
  BY <1>7 DEF ShutdownTimesOut
<1>8. CASE Exit
  BY <1>8 DEF Exit
<1>9. CASE Killed
  BY <1>9 DEF Killed
<1>10. CASE Reconfigure
  BY <1>10 DEF Reconfigure
<1>11. CASE Bind
  BY <1>11 DEF Bind
<1>12. CASE AcceptFails
  BY <1>12 DEF AcceptFails
<1>13. CASE Signal
  BY <1>13 DEF Signal
<1>14. CASE Elapse
  BY <1>14 DEF Elapse
<1>15. ASSUME NEW s \in Slot, Arrive(s) \/ Call(s) \/ Reply(s) \/ Take(s)
       PROVE  ListenerInv'
  BY <1>15 DEF Arrive, Call, Reply, Take
<1>17. CASE UNCHANGED vars
  BY <1>17 DEF vars
<1>. QED
  BY <1>1, <1>2, <1>3, <1>4, <1>5, <1>6, <1>7, <1>8, <1>9, <1>10, <1>11, <1>12,
     <1>13, <1>14, <1>15, <1>17 DEF Next, Main

LEMMA ListenerHolds == Spec => []ListenerInv
<1>1. Init => ListenerInv
  BY DEF Init, ListenerInv
<1>. QED
  BY <1>1, ListenerStep, ProcessTypeCorrect, PTL DEF Spec

\* Only Arrive starts a request.
LEMMA OnlyArrivals ==
  ASSUME TypeOK, [Next]_vars, NEW s \in Slot, ~Serving(s), Serving(s)'
  PROVE  Arrive(s)
<1>. USE DEF Serving, TypeOK, States
<1>1. CASE Start \/ Reconfigure
  BY <1>1 DEF Start, Reconfigure, Idle
<1>2. CASE Exit \/ Killed
  BY <1>2 DEF Exit, Killed, Cut
<1>3. CASE Elapse
  BY <1>3, OlderType DEF Elapse, Requests
<1>4. ASSUME NEW r \in Slot, Arrive(r)
      PROVE  Arrive(s)
  BY <1>4 DEF Arrive
<1>5. ASSUME NEW r \in Slot, Call(r) \/ Reply(r) \/ Take(r)
      PROVE  Arrive(s)
  BY <1>5 DEF Call, Reply, Take
<1>6. CASE UNCHANGED requests
  BY <1>6
<1>. QED
  BY <1>1, <1>2, <1>3, <1>4, <1>5, <1>6
  DEF Next, Main, vars, StartFails, Notify, ReceiveError, ReceiveSignal, ShutdownDone,
      ShutdownTimesOut, Bind, AcceptFails, Signal

\* No request is accepted after the signal was received, before the process is
\* there, or after run has returned.
THEOREM AcceptsOnlyWaiting == Spec => DrainAcceptsNone
<1>1. TypeOK /\ ListenerInv /\ [Next]_vars
        => [\A s \in Slot : ~Serving(s) /\ Serving(s)' => phase \in {"starting", "waiting"}]_vars
  <2>. SUFFICES ASSUME TypeOK, ListenerInv, [Next]_vars, NEW s \in Slot, ~Serving(s), Serving(s)'
                PROVE  phase \in {"starting", "waiting"}
    OBVIOUS
  <2>1. Arrive(s)
    BY OnlyArrivals
  <2>. QED
    BY <2>1 DEF Arrive, ListenerInv, TypeOK
<1>. QED
  BY <1>1, ProcessTypeCorrect, ListenerHolds, PTL DEF Spec, DrainAcceptsNone

-----------------------------------------------------------------------------
(* Requests are cut off where the process ends and not before; and a process   *)
(* that returned with requests active has a reason, and an exit code.          *)

Uncut == \A s \in Slot : requests[s].state # "cut"

CutInv ==
  /\ phase # "off" => Uncut
  /\ phase = "returned" /\ Active # {} => code # 0 /\ (left = 0 \/ failed)
  /\ CleanExit

\* What becomes of requests while the process is there.
LEMMA RequestStep ==
  ASSUME TypeOK, NEW s \in Slot, Arrive(s) \/ Call(s) \/ Reply(s) \/ Take(s)
  PROVE  /\ Uncut => Uncut'
         /\ listener # "open" => Active' \subseteq Active
<1>. USE DEF TypeOK, Uncut, Active, Serving, States
<1>1. CASE Arrive(s)
  BY <1>1 DEF Arrive, Idle
<1>2. CASE Call(s) \/ Reply(s) \/ Take(s)
  BY <1>2 DEF Call, Reply, Take
<1>. QED
  BY <1>1, <1>2

\* No step cuts a request without a cause.
LEMMA CutStep == TypeOK /\ ListenerInv /\ CutInv /\ [Next]_vars => CutInv'
<1>. SUFFICES ASSUME TypeOK, ListenerInv, CutInv, [Next]_vars PROVE CutInv'
  OBVIOUS
<1>. USE DEF CutInv, CleanExit
<1>1. CASE Start
  BY <1>1 DEF Start, Uncut, Idle
<1>2. CASE StartFails
  BY <1>2 DEF StartFails, Uncut
<1>3. CASE Notify
  BY <1>3 DEF Notify, Uncut
<1>4. CASE ReceiveError
  BY <1>4 DEF ReceiveError, Uncut
<1>5. CASE ReceiveSignal
  BY <1>5 DEF ReceiveSignal, Uncut
<1>6. CASE ShutdownDone
  BY <1>6 DEF ShutdownDone, Uncut, Active, Serving
<1>7. CASE ShutdownTimesOut
  BY <1>7 DEF ShutdownTimesOut, Uncut
<1>8. CASE Exit
  BY <1>8 DEF Exit, Cut, Uncut, Active
<1>9. CASE Killed
  BY <1>9 DEF Killed
<1>10. CASE Reconfigure
  BY <1>10 DEF Reconfigure, Idle
<1>11. CASE Bind \/ AcceptFails
  BY <1>11 DEF Bind, AcceptFails, Uncut, TypeOK
<1>12. CASE Signal
  BY <1>12 DEF Signal, Uncut, Active, Serving
<1>13. CASE Elapse
  BY <1>13, OlderType DEF Elapse, Uncut, TypeOK, Requests
<1>14. ASSUME NEW s \in Slot, Arrive(s) \/ Call(s) \/ Reply(s) \/ Take(s)
       PROVE  CutInv'
  <2>1. /\ phase' = phase /\ code' = code /\ left' = left /\ failed' = failed
        /\ phase # "off"
    BY <1>14 DEF Arrive, Call, Reply, Take, ListenerInv
  <2>2. phase = "returned" => listener # "open"
    BY DEF ListenerInv
  <2>. QED
    BY <1>14, <2>1, <2>2, RequestStep
<1>15. CASE UNCHANGED vars
  BY <1>15 DEF vars, Uncut, Active, Serving
<1>. QED
  BY <1>1, <1>2, <1>3, <1>4, <1>5, <1>6, <1>7, <1>8, <1>9, <1>10, <1>11, <1>12,
     <1>13, <1>14, <1>15 DEF Next, Main

LEMMA CutHolds == Spec => []CutInv
<1>1. Init => CutInv
  BY DEF Init, CutInv, CleanExit, Idle
<1>. QED
  BY <1>1, CutStep, ProcessTypeCorrect, ListenerHolds, PTL DEF Spec

\* A process that exits with 0 cut off no request.
THEOREM ExitsClean == Spec => []CleanExit
<1>1. CutInv => CleanExit
  BY DEF CutInv
<1>. QED
  BY <1>1, CutHolds, PTL

\* No request is cut off without one of the named reasons.
THEOREM CutsForCause == Spec => CutForCause
<1>1. TypeOK /\ CutInv /\ [Next]_vars
        => [\A s \in Slot : requests[s].state # "cut" /\ requests'[s].state = "cut"
                              => left = 0 \/ failed \/ phase = "starting"]_vars
  <2>. SUFFICES ASSUME TypeOK, CutInv, [Next]_vars,
                       NEW s \in Slot, requests[s].state # "cut", requests'[s].state = "cut"
                PROVE  left = 0 \/ failed \/ phase = "starting"
    OBVIOUS
  <2>1. CASE Start \/ Reconfigure
    BY <2>1 DEF Start, Reconfigure, Idle
  <2>2. CASE Exit
    BY <2>2 DEF Exit, Cut, CutInv, Active
  <2>3. CASE Killed
    BY <2>3 DEF Killed
  <2>4. CASE Elapse
    BY <2>4, OlderType DEF Elapse, TypeOK, Requests
  <2>5. ASSUME NEW r \in Slot, Arrive(r) \/ Call(r) \/ Reply(r) \/ Take(r)
        PROVE  FALSE
    BY <2>5 DEF Arrive, Call, Reply, Take, TypeOK, Idle, States
  <2>6. CASE UNCHANGED requests
    BY <2>6
  <2>. QED
    BY <2>1, <2>2, <2>3, <2>4, <2>5, <2>6
    DEF Next, Main, vars, StartFails, Notify, ReceiveError, ReceiveSignal, ShutdownDone,
        ShutdownTimesOut, Bind, AcceptFails, Signal
<1>. QED
  BY <1>1, ProcessTypeCorrect, CutHolds, PTL DEF Spec, CutForCause

-----------------------------------------------------------------------------
(* No body is read for longer than the read timeout, and no call is older than *)
(* its client's.                                                               *)

AgeInv == \A s \in Slot :
  /\ requests[s].state = "reading" => /\ requests[s].age <= config.read
                                      /\ requests[s].call = 0
  /\ requests[s].state = "calling" => /\ requests[s].age <= config.read + requests[s].call
                                      /\ requests[s].call <= config.upstream

RunInv == AgeInv /\ LostToWriteTimeout

\* A process that runs has timeouts of at least one tick.
LEMMA TimeoutsPositive ==
  ASSUME TypeOK, phase # "off"
  PROVE  /\ config.read \in Int /\ config.read > 0
         /\ config.upstream \in Int /\ config.upstream > 0
         /\ config.write \in Int
<1>1. {config.read, config.upstream, config.write} \subseteq Timeouts(config)
  BY DEF Timeouts
<1>2. Timeouts(config) \subseteq Int
  BY ProcessAssumption DEF TypeOK
<1>3. Valid(config)
  BY DEF TypeOK
<1>4. \A t \in Timeouts(config) : t > 0
  BY <1>3 DEF Valid
<1>. QED
  BY <1>1, <1>2, <1>4

\* No step lets a body or a call outlast its timeout.
LEMMA RunStep == TypeOK /\ ListenerInv /\ RunInv /\ [Next]_vars => RunInv'
<1>. SUFFICES ASSUME TypeOK, ListenerInv, RunInv, [Next]_vars PROVE RunInv'
  OBVIOUS
<1>. USE DEF RunInv, AgeInv, LostToWriteTimeout
<1>1. CASE Start
  BY <1>1 DEF Start, Idle
<1>2. CASE Reconfigure
  BY <1>2 DEF Reconfigure, Idle
<1>3. CASE Exit \/ Killed
  <2>1. \A s \in Slot : /\ requests'[s].state \notin States
                        /\ requests'[s].state = "lost" => requests[s].state = "lost"
    BY <1>3 DEF Exit, Killed, Cut, Serving, States, TypeOK
  <2>. QED
    BY <1>3, <2>1 DEF Exit, Killed, States
<1>4. CASE Elapse
  <2>1. config.read \in Int /\ config.upstream \in Int
    BY <1>4, TimeoutsPositive DEF Elapse
  <2>2. ASSUME NEW s \in Slot
        PROVE  requests'[s].state = requests[s].state
    BY <1>4, OlderType DEF Elapse, TypeOK, Requests
  <2>3. ASSUME NEW s \in Slot, requests[s].state = "reading"
        PROVE  requests'[s].age <= config.read /\ requests'[s].call = 0
    <3>1. ~TimedOut(s)
      BY <1>4, <2>3 DEF Elapse, Active, Serving, States
    <3>2. requests[s].age < config.read /\ requests[s].age \in Nat
      BY <2>1, <2>3, <3>1 DEF TimedOut, TypeOK
    <3>3. requests'[s] = [requests[s] EXCEPT !.age = @ + 1]
      BY <1>4, <2>3 DEF Elapse, Older
    <3>. QED
      BY <2>1, <2>3, <3>2, <3>3 DEF TypeOK
  <2>4. ASSUME NEW s \in Slot, requests[s].state = "calling"
        PROVE  /\ requests'[s].age <= config.read + requests'[s].call
               /\ requests'[s].call <= config.upstream
    <3>1. ~TimedOut(s)
      BY <1>4, <2>4 DEF Elapse, Active, Serving, States
    <3>2. /\ requests[s].call < config.upstream
          /\ requests[s].age \in Nat /\ requests[s].call \in Nat
      BY <2>1, <2>4, <3>1 DEF TimedOut, TypeOK
    <3>3. /\ requests'[s].age = requests[s].age + 1
          /\ requests'[s].call = requests[s].call + 1
      BY <1>4, <2>4, OlderType DEF Elapse, TypeOK, Requests, States
    <3>. QED
      BY <2>1, <2>4, <3>2, <3>3
  <2>5. config' = config
    BY <1>4 DEF Elapse
  <2>. QED
    BY <2>2, <2>3, <2>4, <2>5
<1>5. ASSUME NEW s \in Slot, Arrive(s)
      PROVE  RunInv'
  <2>1. phase # "off"
    BY <1>5 DEF Arrive, ListenerInv
  <2>2. \A r \in Slot : IF r = s THEN requests'[r] = [state |-> "reading", age |-> 0, call |-> 0]
                                 ELSE requests'[r] = requests[r]
    BY <1>5 DEF Arrive, Idle, TypeOK
  <2>3. config' = config /\ config.read \in Int /\ config.read > 0
    BY <1>5, <2>1, TimeoutsPositive DEF Arrive
  <2>. QED
    BY <2>2, <2>3
<1>6. ASSUME NEW s \in Slot, Call(s)
      PROVE  RunInv'
  <2>1. /\ requests[s].state = "reading"
        /\ \A r \in Slot : r # s => requests'[r] = requests[r]
        /\ config' = config
    BY <1>6 DEF Call, TypeOK
  <2>2. /\ requests'[s].state = "calling"
        /\ requests'[s].age = requests[s].age /\ requests'[s].call = requests[s].call
    BY <1>6 DEF Call, TypeOK
  <2>3. /\ config.read \in Int /\ config.upstream \in Int /\ config.upstream > 0
        /\ requests[s].age <= config.read /\ requests[s].age \in Nat
    BY <1>6, <2>1, TimeoutsPositive DEF Call, TypeOK
  <2>. QED
    BY <2>1, <2>2, <2>3
<1>7. ASSUME NEW s \in Slot, Reply(s)
      PROVE  RunInv'
  <2>1. /\ \A r \in Slot : r # s => requests'[r] = requests[r]
        /\ requests'[s].state \in {"writing", "lost"}
        /\ requests'[s].state = "lost" => ~(requests[s].age < config.write)
        /\ config' = config
    BY <1>7 DEF Reply, TypeOK
  <2>2. /\ config.read \in Int /\ config.upstream \in Int /\ config.upstream > 0
        /\ config.write \in Int
    BY <1>7, TimeoutsPositive DEF Reply
  <2>3. requests[s].age \in Nat /\ requests[s].call \in Nat
    BY DEF TypeOK
  <2>4. requests[s].age <= config.read + config.upstream
    BY <1>7, <2>2, <2>3 DEF Reply
  <2>5. requests'[s].state = "lost" => config.write <= config.read + config.upstream
    BY <2>1, <2>2, <2>3, <2>4
  <2>. QED
    BY <2>1, <2>5
<1>8. ASSUME NEW s \in Slot, Take(s)
      PROVE  RunInv'
  <2>1. /\ \A r \in Slot : r # s => requests'[r] = requests[r]
        /\ requests'[s].state \in {"answered", "untaken"}
        /\ config' = config
    BY <1>8 DEF Take, TypeOK
  <2>. QED
    BY <2>1
<1>9. CASE UNCHANGED <<config, requests>>
  BY <1>9
<1>. QED
  BY <1>1, <1>2, <1>3, <1>4, <1>5, <1>6, <1>7, <1>8, <1>9
  DEF Next, Main, vars, StartFails, Notify, ReceiveError, ReceiveSignal, ShutdownDone,
      ShutdownTimesOut, Bind, AcceptFails, Signal

LEMMA RunHolds == Spec => []RunInv
<1>1. Init => RunInv
  BY DEF Init, RunInv, AgeInv, LostToWriteTimeout, Idle
<1>. QED
  BY <1>1, RunStep, ProcessTypeCorrect, ListenerHolds, PTL DEF Spec

\* Under a write timeout longer than a body's and a call's together no response
\* is too late to be written.
THEOREM LosesOnlyToWriteTimeout == Spec => []LostToWriteTimeout
<1>1. RunInv => LostToWriteTimeout
  BY DEF RunInv
<1>. QED
  BY <1>1, RunHolds, PTL
=============================================================================
