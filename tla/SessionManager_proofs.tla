------------------------ MODULE SessionManager_proofs ------------------------
(***************************************************************************)
(* The safety of SessionManager, for any number of callers, closers,       *)
(* sessions and languages.                                                 *)
(*                                                                         *)
(* StartInv says where a session is in its one start, ServiceInv how the   *)
(* map relates to the sessions created so far, CloseInv what a Close has   *)
(* already finished and StoreInv who shares a cache.  Each is preserved    *)
(* given the ones before it.  With them, every step is one of              *)
(* LanguageService or changes nothing of it.                               *)
(***************************************************************************)
EXTENDS SessionManager, TLAPS

\* Nothing has touched the session yet.
Untouched(s) ==
  /\ ~ready[s] /\ ~initErr[s] /\ ~dead[s] /\ ~killed[s]
  /\ conn[s] = "none" /\ proc[s] = "none" /\ watch[s] = "off"

\* What holds of the session a caller is starting, at each step of start.
Started(c, s) ==
  /\ once[s] = "running"
  /\ ~ready[s]
  /\ watch[s] = "off"
  /\ pc[c] = "spawn" => proc[s] = "none" /\ conn[s] = "none"
  /\ pc[c] \in {"initialize", "initialized"} => conn[s] # "none"
  /\ pc[c] \in {"spawn", "initialize", "initialized", "failStart"} => ~initErr[s] /\ ~dead[s]
  /\ pc[c] \in {"teardown", "reap"} => initErr[s] /\ dead[s]
  /\ pc[c] = "reap" => conn[s] # "open"

\* Where a session is in its one start, and what a finished start leaves.
SessionState ==
  \A s \in Sessions :
    /\ once[s] = "fresh" => Untouched(s)
    /\ ready[s] <=> once[s] = "done"
    /\ ready[s] /\ initErr[s] => dead[s] /\ proc[s] \in {"none", "reaped"} /\ conn[s] # "open"
    /\ ready[s] /\ ~initErr[s] => conn[s] # "none" /\ watch[s] # "off"
    /\ killed[s] /\ ~ready[s] => initErr[s]
    /\ proc[s] = "reaped" => ready[s]
    /\ watch[s] # "off" => ready[s]
    /\ initErr[s] => dead[s]
    /\ dead[s] /\ ~ready[s] => initErr[s]

CallerState ==
  \A c \in Callers :
    /\ pc[c] = "idle" => arg[c] = NoSession
    /\ pc[c] \in StartPC => Started(c, arg[c])
    /\ pc[c] \in {"select", "using"} => ready[arg[c]]
    /\ pc[c] = "using" => ~initErr[arg[c]]

OneStarter ==
  \A c, d \in Callers : pc[c] \in StartPC /\ pc[d] \in StartPC /\ arg[c] = arg[d] => c = d

CloserState ==
  \A k \in Closers : kpc[k] \in {"handshake", "wait", "killWait"} => ready[cur[k]]

StartInv == SessionState /\ CallerState /\ OneStarter /\ CloserState

ServiceInv ==
  /\ \A s \in Sessions : once[s] # "fresh" => s \in Allocated
  /\ \A c \in Callers : pc[c] # "idle" => arg[c] \in Allocated
  /\ \A l \in Languages : sessions[l] # NoSession => language[sessions[l]] = l
  /\ \A k \in Closers : taken[k] \subseteq Allocated
  /\ \A k \in Closers : kpc[k] = "idle" => taken[k] = {}
  /\ \A k \in Closers, l \in Languages : sessions[l] \notin taken[k]
  /\ ClosesDisjoint
  /\ OneInService

CloseInv ==
  \A k \in Closers :
    /\ todo[k] \subseteq taken[k]
    /\ kpc[k] \in {"awaitReady", "handshake", "wait", "killWait"} => cur[k] \in todo[k]
    /\ kpc[k] = "closed" => todo[k] = {}
    /\ kpc[k] \in {"wait", "killWait"} => conn[cur[k]] # "open"
    /\ \A s \in taken[k] \ todo[k] : ready[s] /\ proc[s] \in {"none", "reaped"} /\ conn[s] # "open"

StoreInv ==
  /\ \A s \in Allocated : store[s] \in Allocated /\ language[store[s]] = language[s]
  /\ (\A k \in Closers : kpc[k] = "idle") =>
       \A s \in Allocated :
         /\ sessions[language[s]] # NoSession
         /\ store[s] = store[sessions[language[s]]]

IInv == TypeOK /\ StartInv /\ ServiceInv /\ CloseInv /\ StoreInv

-----------------------------------------------------------------------------
(* Types                                                                   *)

USE DEF managerVars, startVars, serverVars, callerVars, closerVars, vars

LEMMA TypeInit == Init => TypeOK
BY NullAssumption, NamesAssumption, HabitsAssumption DEF Init, TypeOK, CallerPC, CloserPC

LEMMA TypeStep == TypeOK /\ [Next]_vars => TypeOK'
<1> SUFFICES ASSUME TypeOK, [Next]_vars PROVE TypeOK'
  OBVIOUS
<1> USE DEF TypeOK, CallerPC, CloserPC
<1>1. ASSUME NEW c \in Callers, Session(c) PROVE TypeOK'
  <2>1. PICK n \in Names : SessionReuse(c, Canonical[n]) \/ SessionCreate(c, Canonical[n])
    BY <1>1 DEF Session
  <2>2. Canonical[n] \in Languages
    BY NamesAssumption
  <2>3. CASE SessionReuse(c, Canonical[n])
    BY <2>2, <2>3 DEF SessionReuse, Usable, Enter
  <2>4. CASE SessionCreate(c, Canonical[n])
    BY <2>2, <2>4 DEF SessionCreate, StoreFor, Enter
  <2> QED BY <2>1, <2>3, <2>4
<1>2. ASSUME NEW c \in Callers, CallStep(c) PROVE TypeOK'
  <2>1. CASE OnceFirst(c) BY <2>1 DEF OnceFirst, Goto
  <2>2. CASE OnceLater(c) BY <2>2 DEF OnceLater, Goto
  <2>3. CASE SelectReady(c)
    <3>1. CASE initErr[arg[c]]
      <4>1. Leave(c)
        BY <2>3, <3>1 DEF SelectReady
      <4> QED BY <2>3, <4>1 DEF SelectReady, Leave
    <3>2. CASE ~initErr[arg[c]]
      <4>1. pc' = [pc EXCEPT ![c] = "using"] /\ UNCHANGED <<arg, ctxDone>>
        BY <2>3, <3>2 DEF SelectReady
      <4> QED BY <2>3, <4>1 DEF SelectReady
    <3> QED BY <3>1, <3>2
  <2>4. CASE SelectDone(c) BY <2>4 DEF SelectDone, Leave
  <2>5. CASE Release(c) BY <2>5 DEF Release, Leave
  <2>6. CASE SpawnOk(c)
    <3>1. PICK h \in Habits : habit' = [habit EXCEPT ![arg[c]] = h]
      BY <2>6 DEF SpawnOk
    <3>2. habit' \in [Sessions -> {"normal", "mute", "helper"}]
      BY <3>1, HabitsAssumption
    <3> QED BY <2>6, <3>2 DEF SpawnOk, Goto
  <2>7. CASE SpawnFails(c) BY <2>7 DEF SpawnFails, Goto
  <2>8. CASE InitializeOk(c) BY <2>8 DEF InitializeOk, Goto
  <2>9. CASE InitializeFails(c) BY <2>9 DEF InitializeFails, Goto
  <2>10. CASE InitializedOk(c) BY <2>10 DEF InitializedOk, Goto, FinishStart
  <2>11. CASE InitializedFails(c) BY <2>11 DEF InitializedFails, Goto
  <2>12. CASE FailStart(c) BY <2>12 DEF FailStart, Goto
  <2>13. CASE Teardown(c) BY <2>13 DEF Teardown, Goto, CloseConn
  <2>14. CASE Reap(c) BY <2>14 DEF Reap, Goto, FinishStart
  <2> QED
    BY <1>2, <2>1, <2>2, <2>3, <2>4, <2>5, <2>6, <2>7, <2>8, <2>9, <2>10, <2>11, <2>12,
       <2>13, <2>14 DEF CallStep, StartStep
<1>3. ASSUME NEW c \in Callers, ContextDone(c) PROVE TypeOK'
  BY <1>3 DEF ContextDone
<1>4. ASSUME NEW k \in Closers, CloseTake(k) PROVE TypeOK'
  BY <1>4 DEF CloseTake, InMap
<1>5. ASSUME NEW k \in Closers, CloseStep(k) PROVE TypeOK'
  <2>1. CASE CloseNext(k) BY <2>1 DEF CloseNext, KGoto
  <2>2. CASE CloseReturn(k) BY <2>2 DEF CloseReturn, KGoto
  <2>3. CASE AwaitReady(k) BY <2>3 DEF AwaitReady, KGoto
  <2>4. CASE Handshake(k) BY <2>4 DEF Handshake, KGoto, CloseConn
  <2>w. ASSUME ShutdownReturns(k), kpc' = [kpc EXCEPT ![k] = "next"], kpc[k] \in {"wait", "killWait"}
        PROVE  /\ kpc' \in [Closers -> CloserPC] /\ todo' \in [Closers -> SUBSET Sessions]
               /\ cur' \in [Closers -> Sessions \cup {NoSession}] /\ killed' \in [Sessions -> BOOLEAN]
               /\ \A j \in Closers : kpc'[j] \notin {"idle", "next", "closed"} => cur'[j] \in Sessions
    <3>1. kpc \in [Closers -> CloserPC] /\ cur \in [Closers -> Sessions \cup {NoSession}]
      OBVIOUS
    <3>2. \A j \in Closers : kpc[j] \notin {"idle", "next", "closed"} => cur[j] \in Sessions
      OBVIOUS
    <3>3. kpc' \in [Closers -> CloserPC] /\ cur' \in [Closers -> Sessions \cup {NoSession}]
      BY ONLY <2>w, <3>1 DEF ShutdownReturns, CloserPC
    <3>4. \A j \in Closers : kpc'[j] \notin {"idle", "next", "closed"} => cur'[j] \in Sessions
      BY ONLY <2>w, <3>1, <3>2 DEF ShutdownReturns
    <3>5. todo' \in [Closers -> SUBSET Sessions] /\ killed' \in [Sessions -> BOOLEAN]
      BY <2>w DEF ShutdownReturns
    <3> QED BY <3>3, <3>4, <3>5
  <2>5. CASE WaitNoProcess(k)
    <3>1. ShutdownReturns(k) /\ kpc' = [kpc EXCEPT ![k] = "next"] /\ kpc[k] = "wait"
      BY <2>5 DEF WaitNoProcess, KGoto
    <3> QED BY <2>5, <2>w, <3>1 DEF WaitNoProcess
  <2>6. CASE WaitProcess(k)
    <3>1. ShutdownReturns(k) /\ kpc' = [kpc EXCEPT ![k] = "next"] /\ kpc[k] = "wait"
      BY <2>6 DEF WaitProcess, KGoto
    <3>2. proc' \in [Sessions -> {"none", "running", "exited", "reaped"}]
      BY <2>6 DEF WaitProcess
    <3> QED BY <2>6, <2>w, <3>1, <3>2 DEF WaitProcess
  <2>7. CASE WaitTimeout(k) BY <2>7 DEF WaitTimeout, KGoto
  <2>8. CASE WaitKilled(k)
    <3>1. ShutdownReturns(k) /\ kpc' = [kpc EXCEPT ![k] = "next"] /\ kpc[k] = "killWait"
      BY <2>8 DEF WaitKilled, KGoto
    <3>2. proc' \in [Sessions -> {"none", "running", "exited", "reaped"}]
      BY <2>8 DEF WaitKilled
    <3> QED BY <2>8, <2>w, <3>1, <3>2 DEF WaitKilled
  <2> QED
    BY <1>5, <2>1, <2>2, <2>3, <2>4, <2>5, <2>6, <2>7, <2>8 DEF CloseStep
<1>6. ASSUME NEW s \in Sessions, Watch(s) \/ World(s) PROVE TypeOK'
  <2>1. CASE Watch(s) BY <2>1 DEF Watch
  <2>2. CASE ProcessExits(s) BY <2>2 DEF ProcessExits
  <2>3. CASE HelperExits(s) BY <2>3 DEF HelperExits
  <2>4. CASE StreamEnds(s) \/ StreamBreaks(s) BY <2>4 DEF StreamEnds, StreamBreaks, CloseConn
  <2> QED BY <1>6, <2>1, <2>2, <2>3, <2>4 DEF World
<1>7. CASE UNCHANGED vars
  BY <1>7
<1> QED
  BY <1>1, <1>2, <1>3, <1>4, <1>5, <1>6, <1>7 DEF Next, Quiescent

\* Every variable keeps its type, in every instance.
THEOREM TypeCorrect == Spec => []TypeOK
BY TypeInit, TypeStep, PTL DEF Spec

-----------------------------------------------------------------------------
(* Starting a session                                                      *)

LEMMA StartInit == Init => StartInv
BY DEF Init, StartInv, SessionState, CallerState, OneStarter, CloserState, Untouched, StartPC

LEMMA StartNext == TypeOK /\ StartInv /\ [Next]_vars => StartInv'
<1> SUFFICES ASSUME TypeOK, StartInv, [Next]_vars PROVE StartInv'
  OBVIOUS
<1> USE DEF TypeOK, CallerPC, CloserPC, StartPC, StartInv, SessionState, CallerState,
            OneStarter, CloserState, Untouched, Started
<1>1. ASSUME NEW c \in Callers, Session(c) PROVE StartInv'
  <2>1. PICK n \in Names : SessionReuse(c, Canonical[n]) \/ SessionCreate(c, Canonical[n])
    BY <1>1 DEF Session
  <2>2. Canonical[n] \in Languages
    BY NamesAssumption
  <2>3. CASE SessionReuse(c, Canonical[n])
    BY <2>2, <2>3 DEF SessionReuse, Usable, Enter
  <2>4. CASE SessionCreate(c, Canonical[n])
    BY <2>2, <2>4 DEF SessionCreate, StoreFor, Enter
  <2> QED BY <2>1, <2>3, <2>4
<1>2. ASSUME NEW c \in Callers, CallStep(c) PROVE StartInv'
  <2>1. CASE OnceFirst(c) BY <2>1 DEF OnceFirst, Goto
  <2>2. CASE OnceLater(c) BY <2>2 DEF OnceLater, Goto
  <2>3. CASE SelectReady(c) 
    <3>1. CASE initErr[arg[c]]
      <4>1. Leave(c)
        BY <2>3, <3>1 DEF SelectReady
      <4> QED BY <2>3, <4>1 DEF SelectReady, Leave
    <3>2. CASE ~initErr[arg[c]]
      <4>1. pc' = [pc EXCEPT ![c] = "using"] /\ UNCHANGED <<arg, ctxDone>>
        BY <2>3, <3>2 DEF SelectReady
      <4> QED BY <2>3, <3>2, <4>1 DEF SelectReady
    <3> QED BY <3>1, <3>2
  <2>4. CASE SelectDone(c) BY <2>4 DEF SelectDone, Leave
  <2>5. CASE Release(c) BY <2>5 DEF Release, Leave
  <2>6. CASE SpawnOk(c) BY <2>6 DEF SpawnOk, Goto
  <2>7. CASE SpawnFails(c) BY <2>7 DEF SpawnFails, Goto
  <2>8. CASE InitializeOk(c) BY <2>8 DEF InitializeOk, Goto
  <2>9. CASE InitializeFails(c) BY <2>9 DEF InitializeFails, Goto
  <2>10. CASE InitializedOk(c) BY <2>10 DEF InitializedOk, Goto, FinishStart
  <2>11. CASE InitializedFails(c) BY <2>11 DEF InitializedFails, Goto
  <2>12. CASE FailStart(c) BY <2>12 DEF FailStart, Goto
  <2>13. CASE Teardown(c) BY <2>13 DEF Teardown, Goto, CloseConn
  <2>14. CASE Reap(c) BY <2>14 DEF Reap, Goto, FinishStart
  <2> QED
    BY <1>2, <2>1, <2>2, <2>3, <2>4, <2>5, <2>6, <2>7, <2>8, <2>9, <2>10, <2>11, <2>12,
       <2>13, <2>14 DEF CallStep, StartStep
<1>3. ASSUME NEW c \in Callers, ContextDone(c) PROVE StartInv'
  BY <1>3 DEF ContextDone
<1>4. ASSUME NEW k \in Closers, CloseTake(k) PROVE StartInv'
  BY <1>4 DEF CloseTake, InMap
<1>5. ASSUME NEW k \in Closers, CloseStep(k) PROVE StartInv'
  <2>1. CASE CloseNext(k) BY <2>1 DEF CloseNext, KGoto
  <2>2. CASE CloseReturn(k) BY <2>2 DEF CloseReturn, KGoto
  <2>3. CASE AwaitReady(k) BY <2>3 DEF AwaitReady, KGoto
  <2>4. CASE Handshake(k) BY <2>4 DEF Handshake, KGoto, CloseConn
  <2>5. CASE WaitNoProcess(k) BY <2>5 DEF WaitNoProcess, KGoto, ShutdownReturns
  <2>6. CASE WaitProcess(k) BY <2>6 DEF WaitProcess, KGoto, ShutdownReturns, WaitReturns
  <2>7. CASE WaitTimeout(k) BY <2>7 DEF WaitTimeout, KGoto
  <2>8. CASE WaitKilled(k) BY <2>8 DEF WaitKilled, KGoto, ShutdownReturns, WaitReturns
  <2> QED
    BY <1>5, <2>1, <2>2, <2>3, <2>4, <2>5, <2>6, <2>7, <2>8 DEF CloseStep
<1>6. ASSUME NEW s \in Sessions, Watch(s) \/ World(s) PROVE StartInv'
  <2>1. CASE Watch(s) BY <2>1 DEF Watch
  <2>2. CASE ProcessExits(s) BY <2>2 DEF ProcessExits
  <2>3. CASE HelperExits(s) BY <2>3 DEF HelperExits
  <2>4. CASE StreamEnds(s) \/ StreamBreaks(s) BY <2>4 DEF StreamEnds, StreamBreaks, CloseConn
  <2> QED BY <1>6, <2>1, <2>2, <2>3, <2>4 DEF World
<1>7. CASE UNCHANGED vars
  BY <1>7
<1> QED
  BY <1>1, <1>2, <1>3, <1>4, <1>5, <1>6, <1>7 DEF Next, Quiescent

-----------------------------------------------------------------------------
(* The map and the sessions created                                        *)

\* Steps that neither create a session nor touch the map, a caller's session
\* or Close's take, and that revive nobody, keep ServiceInv.
LEMMA ServiceFrame ==
  ASSUME TypeOK, ServiceInv,
         UNCHANGED <<sessions, language, taken>>,
         \A s \in Sessions : dead[s] => dead'[s],
         \A s \in Sessions : once'[s] # "fresh" => once[s] # "fresh" \/ s \in Allocated,
         \A c \in Callers : pc'[c] # "idle" => pc[c] # "idle" /\ arg'[c] = arg[c],
         \A k \in Closers : kpc'[k] = "idle" => kpc[k] = "idle"
  PROVE  ServiceInv'
BY DEF TypeOK, ServiceInv, ClosesDisjoint, OneInService, Allocated, TakenByClose

LEMMA ServiceInit == Init => ServiceInv
BY DEF Init, ServiceInv, ClosesDisjoint, OneInService, Allocated, TakenByClose

LEMMA ServiceNext == TypeOK /\ ServiceInv /\ [Next]_vars => ServiceInv'
<1> SUFFICES ASSUME TypeOK, ServiceInv, [Next]_vars PROVE ServiceInv'
  OBVIOUS
<1> USE NullAssumption
<1>1. ASSUME NEW c \in Callers, Session(c) PROVE ServiceInv'
  <2>1. PICK n \in Names : SessionReuse(c, Canonical[n]) \/ SessionCreate(c, Canonical[n])
    BY <1>1 DEF Session
  <2>2. Canonical[n] \in Languages
    BY NamesAssumption
  <2> DEFINE l == Canonical[n]
  <2>3. CASE SessionReuse(c, l)
    BY <2>2, <2>3 DEF SessionReuse, Usable, Enter, TypeOK, ServiceInv, ClosesDisjoint,
       OneInService, Allocated, TakenByClose
  <2>4. CASE SessionCreate(c, l)
    <3> HIDE DEF l
    <3>1. PICK s \in Sessions :
            /\ language[s] = NoLanguage
            /\ language' = [language EXCEPT ![s] = l]
            /\ sessions' = [sessions EXCEPT ![l] = s]
            /\ Enter(c, s)
      BY <2>4 DEF SessionCreate
    <3>2. UNCHANGED <<once, dead, taken, kpc>> /\ ~Usable(l)
      BY <2>4 DEF SessionCreate
    <3>3. l \in Languages
      BY <2>2 DEF l
    <3>4. \A k \in Closers : s \notin taken[k]
      BY <3>1 DEF ServiceInv, Allocated
    <3>5. \A t \in Sessions : t \in Allocated' <=> t \in Allocated \/ t = s
      BY <3>1, <3>3 DEF TypeOK, Allocated
    <3>6. \A d \in Callers : pc'[d] # "idle" => arg'[d] \in Allocated'
      BY <3>1, <3>5 DEF TypeOK, ServiceInv, Enter
    <3>7. \A m \in Languages : sessions'[m] # NoSession => language'[sessions'[m]] = m
      BY <3>1, <3>3 DEF TypeOK, ServiceInv, Enter
    <3>8. \A t \in Allocated' : sessions'[language'[t]] = t \/ dead'[t] \/ t \in TakenByClose'
      <4> TAKE t \in Allocated'
      <4>1. CASE t = s
        BY <3>1, <3>3, <4>1 DEF TypeOK
      <4>2. CASE t # s
        <5>1. t \in Allocated /\ language'[t] = language[t] /\ language[t] \in Languages
          BY <3>1, <3>5, <4>2 DEF Allocated, TypeOK
        <5>2. sessions[language[t]] = t \/ dead[t] \/ t \in TakenByClose
          BY <5>1 DEF ServiceInv, OneInService
        <5>3. TakenByClose' = TakenByClose
          BY <3>2 DEF TakenByClose
        <5>4. CASE language[t] = l
          BY <3>2, <5>1, <5>2, <5>3, <5>4 DEF Usable, Allocated
        <5>5. CASE language[t] # l
          BY <3>1, <3>2, <5>1, <5>2, <5>3, <5>5 DEF TypeOK
        <5> QED BY <5>4, <5>5
      <4> QED BY <4>1, <4>2
    <3>9. \A k \in Closers : taken'[k] \subseteq Allocated'
      BY <3>2, <3>5 DEF ServiceInv, TypeOK
    <3>10. \A k \in Closers, m \in Languages : sessions'[m] \notin taken'[k]
      BY <3>1, <3>2, <3>3, <3>4 DEF ServiceInv, TypeOK
    <3>11. \A t \in Sessions : once'[t] # "fresh" => t \in Allocated'
      BY <3>2, <3>5 DEF ServiceInv
    <3> QED
      BY <3>2, <3>6, <3>7, <3>8, <3>9, <3>10, <3>11 DEF ServiceInv, OneInService, ClosesDisjoint
  <2> QED BY <2>1, <2>3, <2>4
<1>2. ASSUME NEW c \in Callers, CallStep(c) PROVE ServiceInv'
  <2>1. UNCHANGED <<sessions, language, taken, kpc>>
    BY <1>2 DEF CallStep, StartStep, OnceFirst, OnceLater, SelectReady, SelectDone, Release,
       SpawnOk, SpawnFails, InitializeOk, InitializeFails, InitializedOk, InitializedFails,
       FailStart, Teardown, Reap
  <2>2. dead' = dead \/ \E s \in Sessions : dead' = [dead EXCEPT ![s] = TRUE]
    <3>1. CASE FailStart(c)
      BY <3>1 DEF FailStart, Goto, TypeOK
    <3> QED
      BY <1>2, <3>1 DEF CallStep, StartStep, OnceFirst, OnceLater, SelectReady, SelectDone,
         Release, SpawnOk, SpawnFails, InitializeOk, InitializeFails, InitializedOk,
         InitializedFails, Teardown, Reap
  <2>3. \A d \in Callers : pc'[d] # "idle" => pc[d] # "idle" /\ arg'[d] = arg[d]
    <3>1. CASE Leave(c) 
      BY <3>1 DEF Leave, TypeOK
    <3>2. CASE pc[c] # "idle" /\ (\E to \in CallerPC : pc' = [pc EXCEPT ![c] = to]) /\ arg' = arg
      BY <3>2 DEF TypeOK
    <3> QED
      BY <1>2, <3>1, <3>2 DEF CallStep, StartStep, OnceFirst, OnceLater, SelectReady,
         SelectDone, Release, SpawnOk, SpawnFails, InitializeOk, InitializeFails, InitializedOk,
         InitializedFails, FailStart, Teardown, Reap, Goto, CallerPC
  <2>4. \A s \in Sessions : once'[s] # "fresh" => once[s] # "fresh" \/ s \in Allocated
    <3>1. CASE OnceFirst(c)
      BY <3>1 DEF OnceFirst, Goto, ServiceInv, TypeOK
    <3>2. CASE InitializedOk(c) \/ Reap(c)
      BY <3>2 DEF InitializedOk, Reap, FinishStart, Goto, ServiceInv, TypeOK
    <3> QED
      BY <1>2, <3>1, <3>2 DEF CallStep, StartStep, OnceLater, SelectReady, SelectDone, Release,
         SpawnOk, SpawnFails, InitializeOk, InitializeFails, InitializedFails, FailStart, Teardown
  <2> QED BY <2>1, <2>2, <2>3, <2>4, ServiceFrame DEF TypeOK
<1>3. ASSUME NEW c \in Callers, ContextDone(c) PROVE ServiceInv'
  BY <1>3, ServiceFrame DEF ContextDone
<1>4. ASSUME NEW k \in Closers, CloseTake(k) PROVE ServiceInv'
  <2>1. InMap \subseteq Allocated
    BY DEF InMap, Allocated, ServiceInv, TypeOK
  <2>2. taken[k] = {} /\ taken' = [taken EXCEPT ![k] = InMap] /\ kpc'[k] # "idle"
    BY <1>4 DEF CloseTake, ServiceInv, TypeOK
  <2>3. \A j \in Closers : InMap \cap taken[j] = {}
    BY DEF InMap, ServiceInv
  <2>4. /\ sessions' = [l \in Languages |-> NoSession]
        /\ kpc' = [kpc EXCEPT ![k] = "next"]
        /\ UNCHANGED <<language, once, dead, pc, arg>>
    BY <1>4 DEF CloseTake
  <2>5. \A s \in TakenByClose \cup InMap : s \in TakenByClose'
    BY <2>2 DEF TakenByClose, TypeOK
  <2>6. OneInService'
    <3> SUFFICES ASSUME NEW t \in Allocated PROVE dead[t] \/ t \in TakenByClose'
      BY <2>4 DEF OneInService, Allocated
    <3>1. sessions[language[t]] = t => t \in InMap
      BY DEF InMap, Allocated, TypeOK
    <3> QED BY <2>5, <3>1 DEF ServiceInv, OneInService
  <2>7. ClosesDisjoint'
    BY <2>2, <2>3 DEF ClosesDisjoint, ServiceInv, TypeOK
  <2> QED
    BY <2>1, <2>2, <2>4, <2>6, <2>7 DEF ServiceInv, Allocated, TypeOK
<1>5. ASSUME NEW k \in Closers, CloseStep(k) PROVE ServiceInv'
  <2>1. UNCHANGED <<sessions, language, taken, once, dead, pc, arg>>
    BY <1>5 DEF CloseStep, CloseNext, CloseReturn, AwaitReady, Handshake, WaitNoProcess,
       WaitProcess, WaitTimeout, WaitKilled
  <2>2. \A j \in Closers : kpc'[j] = "idle" => kpc[j] = "idle"
    BY <1>5 DEF CloseStep, CloseNext, CloseReturn, AwaitReady, Handshake, WaitNoProcess,
       WaitProcess, WaitTimeout, WaitKilled, KGoto, TypeOK
  <2> QED BY <2>1, <2>2, ServiceFrame
<1>6. ASSUME NEW s \in Sessions, Watch(s) \/ World(s) PROVE ServiceInv'
  <2>1. UNCHANGED <<sessions, language, taken, once, kpc, pc, arg>>
    BY <1>6 DEF Watch, World, ProcessExits, HelperExits, StreamEnds, StreamBreaks
  <2>2. \A t \in Sessions : dead[t] => dead'[t]
    BY <1>6 DEF Watch, World, ProcessExits, HelperExits, StreamEnds, StreamBreaks, TypeOK
  <2> QED BY <2>1, <2>2, ServiceFrame
<1>7. CASE UNCHANGED vars
  BY <1>7, ServiceFrame
<1> QED
  BY <1>1, <1>2, <1>3, <1>4, <1>5, <1>6, <1>7 DEF Next, Quiescent

-----------------------------------------------------------------------------
(* What Close has finished                                                 *)

\* Steps outside Close keep CloseInv as long as a started session never
\* becomes unready, regains its process or reconnects.
LEMMA CloseFrame ==
  ASSUME TypeOK, StartInv, CloseInv,
         UNCHANGED <<kpc, todo, cur, taken>>,
         \A s \in Sessions : ready[s] =>
           /\ ready'[s]
           /\ proc[s] \in {"none", "reaped"} => proc'[s] = proc[s]
           /\ conn[s] # "open" => conn'[s] # "open"
  PROVE  CloseInv'
BY DEF TypeOK, CloserPC, StartInv, CloserState, CloseInv

LEMMA CloseInit == Init => CloseInv
BY DEF Init, CloseInv

LEMMA CloseNextStep == TypeOK /\ StartInv /\ ServiceInv /\ CloseInv /\ [Next]_vars => CloseInv'
<1> SUFFICES ASSUME TypeOK, StartInv, ServiceInv, CloseInv, [Next]_vars PROVE CloseInv'
  OBVIOUS
<1>1. ASSUME NEW c \in Callers, Session(c) \/ ContextDone(c) PROVE CloseInv'
  BY <1>1, CloseFrame DEF Session, SessionReuse, SessionCreate, ContextDone
<1>2. ASSUME NEW c \in Callers, CallStep(c) PROVE CloseInv'
  <2>1. UNCHANGED closerVars
    BY <1>2 DEF CallStep, StartStep, OnceFirst, OnceLater, SelectReady, SelectDone, Release,
       SpawnOk, SpawnFails, InitializeOk, InitializeFails, InitializedOk, InitializedFails,
       FailStart, Teardown, Reap
  <2>2. \/ UNCHANGED <<ready, proc, conn>>
        \/ SpawnOk(c) \/ InitializedOk(c) \/ Teardown(c) \/ Reap(c)
    BY <1>2 DEF CallStep, StartStep, OnceFirst, OnceLater, SelectReady, SelectDone, Release,
       SpawnFails, InitializeOk, InitializeFails, InitializedFails, FailStart
  <2>3. CASE SpawnOk(c) \/ InitializedOk(c) \/ Teardown(c) \/ Reap(c)
    <3>1. pc[c] \in StartPC
      BY <2>3 DEF SpawnOk, InitializedOk, Teardown, Reap, Goto, StartPC
    <3>2. arg[c] \in Sessions /\ ~ready[arg[c]]
      BY <3>1 DEF TypeOK, StartPC, StartInv, CallerState, Started
    <3>3. \A s \in Sessions : s # arg[c] => ready'[s] = ready[s] /\ proc'[s] = proc[s] /\ conn'[s] = conn[s]
      BY <2>3, <3>2 DEF SpawnOk, InitializedOk, Teardown, Reap, CloseConn, FinishStart, TypeOK
    <3> QED BY <2>1, <3>2, <3>3, CloseFrame
  <2> QED BY <2>1, <2>2, <2>3, CloseFrame
<1>3. ASSUME NEW k \in Closers, CloseTake(k) PROVE CloseInv'
  BY <1>3 DEF CloseTake, InMap, CloseInv, TypeOK, CloserPC
<1>4. ASSUME NEW k \in Closers, CloseStep(k) PROVE CloseInv'
  <2> USE DEF TypeOK, CloserPC, CloseInv, StartInv, CloserState
  <2>1. CASE CloseNext(k) BY <2>1 DEF CloseNext, KGoto
  <2>2. CASE CloseReturn(k) BY <2>2 DEF CloseReturn, KGoto
  <2>3. CASE AwaitReady(k) BY <2>3 DEF AwaitReady, KGoto
  <2>4. CASE Handshake(k) BY <2>4 DEF Handshake, KGoto, CloseConn
  <2>5. CASE WaitNoProcess(k) BY <2>5 DEF WaitNoProcess, KGoto, ShutdownReturns
  <2>6. CASE WaitProcess(k) BY <2>6 DEF WaitProcess, KGoto, ShutdownReturns
  <2>7. CASE WaitTimeout(k) BY <2>7 DEF WaitTimeout, KGoto
  <2>8. CASE WaitKilled(k) BY <2>8 DEF WaitKilled, KGoto, ShutdownReturns
  <2> QED
    BY <1>4, <2>1, <2>2, <2>3, <2>4, <2>5, <2>6, <2>7, <2>8 DEF CloseStep
<1>5. ASSUME NEW s \in Sessions, Watch(s) \/ World(s) PROVE CloseInv'
  <2>1. UNCHANGED <<closerVars, ready>>
    BY <1>5 DEF Watch, World, ProcessExits, HelperExits, StreamEnds, StreamBreaks
  <2>2. \A t \in Sessions :
          /\ proc[t] \in {"none", "reaped"} => proc'[t] = proc[t]
          /\ conn[t] # "open" => conn'[t] # "open"
    BY <1>5 DEF Watch, World, ProcessExits, HelperExits, StreamEnds, StreamBreaks, CloseConn, TypeOK
  <2> QED BY <2>1, <2>2, CloseFrame
<1>6. CASE UNCHANGED vars
  BY <1>6, CloseFrame
<1> QED
  BY <1>1, <1>2, <1>3, <1>4, <1>5, <1>6 DEF Next, Quiescent

-----------------------------------------------------------------------------
(* Who shares a diagnostics cache                                          *)

LEMMA StoreInit == Init => StoreInv
BY DEF Init, StoreInv, Allocated

LEMMA StoreNext == TypeOK /\ ServiceInv /\ StoreInv /\ [Next]_vars => StoreInv'
<1> SUFFICES ASSUME TypeOK, ServiceInv, StoreInv, [Next]_vars PROVE StoreInv'
  OBVIOUS
<1>1. ASSUME NEW c \in Callers, NEW l \in Languages, SessionCreate(c, l) PROVE StoreInv'
  <2>1. PICK s \in Sessions :
          /\ language[s] = NoLanguage
          /\ language' = [language EXCEPT ![s] = l]
          /\ store' = [store EXCEPT ![s] = StoreFor(sessions[l], s)]
          /\ sessions' = [sessions EXCEPT ![l] = s]
    BY <1>1 DEF SessionCreate
  <2>2. kpc' = kpc
    BY <1>1 DEF SessionCreate
  <2>3. \A t \in Sessions : t \in Allocated' <=> t \in Allocated \/ t = s
    BY <2>1, NullAssumption DEF TypeOK, Allocated
  <2>4. CASE sessions[l] = NoSession
    <3>1. store'[s] = s /\ language'[s] = l /\ sessions'[l] = s
      BY <2>1, <2>4 DEF StoreFor, TypeOK
    <3>2. (\A k \in Closers : kpc[k] = "idle") => \A t \in Allocated : language[t] # l
      BY <2>4 DEF StoreInv
    <3>3. \A t \in Allocated : t # s /\ store'[t] = store[t] /\ language'[t] = language[t]
      BY <2>1 DEF Allocated, TypeOK
    <3>4. \A t \in Allocated' : store'[t] \in Allocated' /\ language'[store'[t]] = language'[t]
      BY <2>3, <3>1, <3>3 DEF StoreInv, Allocated
    <3>5. ASSUME \A k \in Closers : kpc[k] = "idle", NEW t \in Allocated'
          PROVE  sessions'[language'[t]] # NoSession /\ store'[t] = store'[sessions'[language'[t]]]
      <4>1. CASE t = s
        BY <3>1, <4>1, NullAssumption
      <4>2. CASE t # s
        <5>1. t \in Allocated /\ language[t] \in Languages /\ language[t] # l
          BY <2>3, <3>2, <3>5, <4>2 DEF Allocated, TypeOK
        <5>2. sessions'[language[t]] = sessions[language[t]]
          BY <2>1, <5>1 DEF TypeOK
        <5>3. sessions[language[t]] # NoSession /\ store[t] = store[sessions[language[t]]]
          BY <3>5, <5>1 DEF StoreInv
        <5>4. sessions[language[t]] \in Allocated
          BY <5>1, <5>3, NullAssumption DEF ServiceInv, TypeOK, Allocated
        <5> QED BY <3>3, <5>1, <5>2, <5>3, <5>4
      <4> QED BY <4>1, <4>2
    <3> QED BY <2>2, <3>4, <3>5 DEF StoreInv
  <2>5. CASE sessions[l] # NoSession
    <3> DEFINE p == sessions[l]
    <3>1. p \in Allocated /\ language[p] = l /\ p # s
      BY <2>1, <2>5, NullAssumption DEF ServiceInv, TypeOK, Allocated
    <3>2. store'[s] = store[p] /\ language'[s] = l /\ sessions'[l] = s
      BY <2>1, <2>5 DEF StoreFor, TypeOK
    <3>3. \A t \in Allocated : store'[t] = store[t] /\ language'[t] = language[t]
      BY <2>1 DEF Allocated, TypeOK
    <3>4. \A t \in Allocated' : store'[t] \in Allocated' /\ language'[store'[t]] = language'[t]
      BY <2>3, <3>1, <3>2, <3>3 DEF StoreInv, Allocated
    <3>5. ASSUME \A k \in Closers : kpc[k] = "idle", NEW t \in Allocated'
          PROVE  sessions'[language'[t]] # NoSession /\ store'[t] = store'[sessions'[language'[t]]]
      <4>1. CASE t = s
        BY <3>2, <4>1, NullAssumption
      <4>2. CASE t # s /\ language[t] = l
        BY <2>3, <3>2, <3>3, <3>5, <4>2, NullAssumption DEF StoreInv, Allocated
      <4>3. CASE t # s /\ language[t] # l
        <5>1. t \in Allocated /\ language[t] \in Languages
          BY <2>3, <4>3 DEF Allocated, TypeOK
        <5>2. sessions'[language[t]] = sessions[language[t]]
          BY <2>1, <4>3, <5>1 DEF TypeOK
        <5>3. sessions[language[t]] # NoSession /\ store[t] = store[sessions[language[t]]]
          BY <3>5, <5>1 DEF StoreInv
        <5>4. sessions[language[t]] \in Allocated
          BY <5>1, <5>3, NullAssumption DEF ServiceInv, TypeOK, Allocated
        <5> QED BY <3>3, <5>1, <5>2, <5>3, <5>4
      <4> QED BY <4>1, <4>2, <4>3
    <3> QED BY <2>2, <3>4, <3>5 DEF StoreInv
  <2> QED BY <2>4, <2>5
<1>2. ASSUME NEW k \in Closers, CloseTake(k) PROVE StoreInv'
  BY <1>2 DEF CloseTake, StoreInv, Allocated, TypeOK
<1>3. CASE UNCHANGED managerVars /\ (\A k \in Closers : kpc'[k] = "idle" => kpc[k] = "idle")
  BY <1>3 DEF StoreInv, Allocated
<1>4. ASSUME NEW k \in Closers, CloseStep(k) PROVE StoreInv'
  BY <1>3, <1>4 DEF CloseStep, CloseNext, CloseReturn, AwaitReady, Handshake, WaitNoProcess,
     WaitProcess, WaitTimeout, WaitKilled, KGoto, TypeOK
<1>5. ASSUME NEW c \in Callers, Session(c) PROVE StoreInv'
  BY <1>1, <1>3, <1>5, NamesAssumption DEF Session, SessionReuse
<1>6. ASSUME NEW c \in Callers, CallStep(c) \/ ContextDone(c) PROVE StoreInv'
  BY <1>3, <1>6 DEF CallStep, StartStep, OnceFirst, OnceLater, SelectReady, SelectDone, Release,
     SpawnOk, SpawnFails, InitializeOk, InitializeFails, InitializedOk, InitializedFails,
     FailStart, Teardown, Reap, ContextDone
<1>7. ASSUME NEW s \in Sessions, Watch(s) \/ World(s) PROVE StoreInv'
  BY <1>3, <1>7 DEF Watch, World, ProcessExits, HelperExits, StreamEnds, StreamBreaks
<1>8. CASE UNCHANGED vars
  BY <1>3, <1>8
<1> QED
  BY <1>2, <1>4, <1>5, <1>6, <1>7, <1>8 DEF Next, Quiescent

-----------------------------------------------------------------------------
(* The theorems                                                            *)

LEMMA Invariance == Spec => []IInv
<1>1. Init => IInv
  BY TypeInit, StartInit, ServiceInit, CloseInit, StoreInit DEF IInv
<1>2. IInv /\ [Next]_vars => IInv'
  BY TypeStep, StartNext, ServiceNext, CloseNextStep, StoreNext DEF IInv
<1> QED BY <1>1, <1>2, PTL DEF Spec

\* No session is handed out before its start has succeeded.
THEOREM UserSeesStartedHolds == Spec => []UserSeesStarted
<1>1. IInv => UserSeesStarted
  BY DEF IInv, TypeOK, StartInv, SessionState, CallerState, UserSeesStarted
<1> QED BY <1>1, Invariance, PTL

\* A failed start leaves no process and no connection to whoever waited on it.
THEOREM FailedStartReapedHolds == Spec => []FailedStartReaped
<1>1. IInv => FailedStartReaped
  BY DEF IInv, StartInv, SessionState, FailedStartReaped
<1> QED BY <1>1, Invariance, PTL

\* Per language, only the session in the map is in service.
THEOREM OneInServiceHolds == Spec => []OneInService
<1>1. IInv => OneInService
  BY DEF IInv, ServiceInv
<1> QED BY <1>1, Invariance, PTL

\* No session is shut down by two Closes.
THEOREM ClosesDisjointHolds == Spec => []ClosesDisjoint
<1>1. IInv => ClosesDisjoint
  BY DEF IInv, ServiceInv
<1> QED BY <1>1, Invariance, PTL

\* Shutdown never interrupts a start.
THEOREM ShutdownAfterStartHolds == Spec => []ShutdownAfterStart
<1>1. IInv => ShutdownAfterStart
  BY DEF IInv, StartInv, SessionState, ShutdownAfterStart
<1> QED BY <1>1, Invariance, PTL

\* A Close that has returned leaves no process and no connection behind.
THEOREM CloseLeavesNothingHolds == Spec => []CloseLeavesNothing
<1>1. IInv => CloseLeavesNothing
  BY DEF IInv, CloseInv, CloseLeavesNothing
<1> QED BY <1>1, Invariance, PTL

\* Caches stay with their language, and until a Close they survive respawns.
THEOREM StoreFollowsLanguageHolds == Spec => []StoreFollowsLanguage
<1>1. IInv => StoreFollowsLanguage
  BY DEF IInv, StoreInv, StoreFollowsLanguage
<1> QED BY <1>1, Invariance, PTL

\* No session spawns twice.
THEOREM SpawnOnceHolds == Spec => SpawnOnce
<1>1. IInv /\ [Next]_vars => [\A c \in Callers : SpawnOk(c) => proc[arg[c]] = "none"]_vars
  BY DEF IInv, StartInv, CallerState, Started, StartPC, SpawnOk, Goto
<1> QED BY <1>1, Invariance, PTL DEF Spec, SpawnOnce

\* A start in progress is somebody's.
StarterInv == \A s \in Sessions : once[s] = "running" => \E c \in Callers : pc[c] \in StartPC /\ arg[c] = s

LEMMA StarterNext == TypeOK /\ StartInv /\ StarterInv /\ [Next]_vars => StarterInv'
<1> SUFFICES ASSUME TypeOK, StartInv, StarterInv, [Next]_vars, NEW s \in Sessions, once'[s] = "running"
             PROVE  \E c \in Callers : pc'[c] \in StartPC /\ arg'[c] = s
  BY DEF StarterInv
<1> DEFINE Goal == \E c \in Callers : pc'[c] \in StartPC /\ arg'[c] = s
<1>t. /\ once \in [Sessions -> {"fresh", "running", "done"}] /\ pc \in [Callers -> CallerPC]
      /\ arg \in [Callers -> Sessions \cup {NoSession}]
  BY DEF TypeOK
<1>s. once[s] = "running" => \E c \in Callers : pc[c] \in StartPC /\ arg[c] = s
  BY DEF StarterInv
<1> USE DEF StartPC, managerVars, startVars, serverVars, callerVars, closerVars
\* A caller that starts nothing moves.
<1>k. ASSUME once' = once, NEW c \in Callers, pc[c] \notin StartPC,
             \A d \in Callers : d # c => pc'[d] = pc[d] /\ arg'[d] = arg[d]
      PROVE  Goal
  BY <1>k, <1>s
<1>0. ASSUME UNCHANGED <<once, pc, arg>> PROVE Goal
  BY <1>0, <1>s
<1>1. ASSUME NEW c \in Callers, Session(c) PROVE Goal
  <2>1. once' = once /\ pc[c] = "idle" /\ \E t : Enter(c, t)
    BY <1>1 DEF Session, SessionReuse, SessionCreate
  <2> QED BY <2>1, <1>k, <1>t DEF Enter
<1>2. ASSUME NEW c \in Callers, CallStep(c) PROVE Goal
  <2>1. CASE OnceFirst(c)
    <3>1. /\ once' = [once EXCEPT ![arg[c]] = "running"] /\ arg' = arg /\ pc[c] = "once" /\ pc'[c] = "spawn"
          /\ \A d \in Callers : d # c => pc'[d] = pc[d]
      BY <2>1, <1>t DEF OnceFirst, Goto
    <3>2. CASE arg[c] = s
      BY <3>1, <3>2
    <3>3. CASE arg[c] # s
      <4>1. once[s] = "running"
        BY <3>1, <3>3, <1>t
      <4> QED BY <4>1, <3>1, <1>s
    <3> QED BY <3>2, <3>3
  <2>2. CASE OnceLater(c) \/ SelectReady(c) \/ SelectDone(c) \/ Release(c)
    <3>1. once' = once /\ pc[c] \notin StartPC /\ \A d \in Callers : d # c => pc'[d] = pc[d] /\ arg'[d] = arg[d]
      BY <2>2, <1>t DEF OnceLater, Goto, SelectReady, SelectDone, Release, Leave
    <3> QED BY <3>1, <1>k
  <2>3. CASE \/ SpawnOk(c) \/ SpawnFails(c) \/ InitializeOk(c) \/ InitializeFails(c) \/ InitializedFails(c)
             \/ FailStart(c) \/ Teardown(c)
    <3>1. once' = once /\ arg' = arg /\ pc'[c] \in StartPC /\ \A d \in Callers : d # c => pc'[d] = pc[d]
      BY <2>3, <1>t DEF SpawnOk, SpawnFails, InitializeOk, InitializeFails, InitializedFails, FailStart, Teardown, Goto
    <3> QED BY <3>1, <1>s
  <2>4. CASE InitializedOk(c) \/ Reap(c)
    <3>1. /\ once' = [once EXCEPT ![arg[c]] = "done"] /\ arg' = arg /\ pc[c] \in StartPC
          /\ \A d \in Callers : d # c => pc'[d] = pc[d]
      BY <2>4, <1>t DEF InitializedOk, Reap, Goto, FinishStart
    <3>2. arg[c] \in Sessions
      BY <3>1 DEF TypeOK
    <3>3. arg[c] # s /\ once[s] = "running"
      BY <3>1, <3>2, <1>t
    <3> QED BY <3>1, <3>3, <1>s
  <2> QED BY <1>2, <2>1, <2>2, <2>3, <2>4 DEF CallStep, StartStep
<1>3. ASSUME NEW c \in Callers, ContextDone(c) PROVE Goal
  BY <1>3, <1>0 DEF ContextDone
<1>4. ASSUME NEW k \in Closers, CloseTake(k) \/ CloseStep(k) PROVE Goal
  BY <1>4, <1>0 DEF CloseTake, CloseStep, CloseNext, CloseReturn, AwaitReady, Handshake, WaitNoProcess, WaitProcess,
                   WaitTimeout, WaitKilled
<1>5. ASSUME NEW t \in Sessions, Watch(t) \/ World(t) PROVE Goal
  BY <1>5, <1>0 DEF Watch, World, ProcessExits, HelperExits, StreamEnds, StreamBreaks
<1>6. CASE Quiescent \/ UNCHANGED vars
  BY <1>6, <1>0 DEF Quiescent, vars
<1> QED BY <1>1, <1>2, <1>3, <1>4, <1>5, <1>6 DEF Next

LEMMA OwnedNow == ASSUME IInv, StarterInv PROVE OwnedUnlessLost
<1> SUFFICES ASSUME NEW s \in Sessions, proc[s] \in {"running", "exited"}
             PROVE  \/ s \in InMap
                    \/ \E c \in Callers : arg[c] = s
                    \/ \E k \in Closers : s \in todo[k]
                    \/ dead[s] /\ ~initErr[s]
  BY DEF OwnedUnlessLost
<1>1. s \in Allocated /\ once[s] # "fresh"
  BY DEF IInv, StartInv, SessionState, Untouched, ServiceInv
<1>2. sessions[language[s]] = s \/ dead[s] \/ s \in TakenByClose
  BY <1>1 DEF IInv, ServiceInv, OneInService
<1>3. CASE sessions[language[s]] = s
  <2>1. language[s] \in Languages
    BY <1>1 DEF Allocated, IInv, TypeOK
  <2> QED BY <1>3, <2>1, NullAssumption DEF InMap
<1>4. CASE dead[s] /\ initErr[s]
  <2>1. ~ready[s]
    BY <1>4 DEF IInv, StartInv, SessionState
  <2>2. once[s] = "running"
    BY <1>1, <2>1 DEF IInv, TypeOK, StartInv, SessionState
  <2> QED BY <2>2 DEF StarterInv
<1>5. CASE s \in TakenByClose
  <2>1. PICK k \in Closers : s \in taken[k]
    BY <1>5 DEF TakenByClose
  <2>2. s \in todo[k]
    BY <2>1 DEF IInv, CloseInv
  <2> QED BY <2>2
<1> QED BY <1>2, <1>3, <1>4, <1>5

\* A process that has not been waited for belongs to somebody who will, unless its
\* connection was lost after its start.
THEOREM OwnedUnlessLostHolds == Spec => []OwnedUnlessLost
<1>1. Init => StarterInv
  BY DEF Init, StarterInv
<1>2. IInv /\ StarterInv /\ [Next]_vars => StarterInv'
  BY StarterNext DEF IInv
<1>3. IInv /\ StarterInv => OwnedUnlessLost
  BY OwnedNow
<1> QED BY <1>1, <1>2, <1>3, Invariance, PTL DEF Spec

\* A session nobody has begun to start has a caller on its way to do so.
AskedInv == \A s \in Allocated : once[s] = "fresh" => \E c \in Callers : pc[c] = "once" /\ arg[c] = s

LEMMA AskedNext == TypeOK /\ AskedInv /\ [Next]_vars => AskedInv'
<1> SUFFICES ASSUME TypeOK, AskedInv, [Next]_vars, NEW s \in Sessions, language'[s] # NoLanguage, once'[s] = "fresh"
             PROVE  \E c \in Callers : pc'[c] = "once" /\ arg'[c] = s
  BY DEF AskedInv, Allocated
<1> DEFINE Goal == \E c \in Callers : pc'[c] = "once" /\ arg'[c] = s
<1>t. /\ once \in [Sessions -> {"fresh", "running", "done"}] /\ pc \in [Callers -> CallerPC]
      /\ arg \in [Callers -> Sessions \cup {NoSession}] /\ language \in [Sessions -> Languages \cup {NoLanguage}]
  BY DEF TypeOK
<1>s. language[s] # NoLanguage /\ once[s] = "fresh" => \E c \in Callers : pc[c] = "once" /\ arg[c] = s
  BY DEF AskedInv, Allocated
\* A caller that is not about to start s moves.
<1>k. ASSUME language'[s] = language[s], once[s] = "fresh", NEW c \in Callers, pc[c] # "once" \/ arg[c] # s,
             \A d \in Callers : d # c => pc'[d] = pc[d] /\ arg'[d] = arg[d]
      PROVE  Goal
  BY <1>k, <1>s
<1>0. ASSUME UNCHANGED <<language, once, pc, arg>> PROVE Goal
  BY <1>0, <1>s
<1>1. ASSUME NEW c \in Callers, Session(c) PROVE Goal
  <2>1. PICK n \in Names : SessionReuse(c, Canonical[n]) \/ SessionCreate(c, Canonical[n])
    BY <1>1 DEF Session
  <2>2. once' = once /\ pc[c] = "idle" /\ \E t : Enter(c, t)
    BY <2>1 DEF SessionReuse, SessionCreate
  <2>3. \A d \in Callers : d # c => pc'[d] = pc[d] /\ arg'[d] = arg[d]
    BY <2>2, <1>t DEF Enter
  <2>4. CASE language'[s] = language[s]
    BY <2>2, <2>3, <2>4, <1>k
  <2>5. CASE language'[s] # language[s]
    <3>1. SessionCreate(c, Canonical[n])
      BY <2>1, <2>5 DEF SessionReuse
    <3>2. PICK t \in Sessions : language' = [language EXCEPT ![t] = Canonical[n]] /\ Enter(c, t)
      BY <3>1 DEF SessionCreate
    <3>3. t = s
      BY <3>2, <2>5, <1>t
    <3>4. pc'[c] = "once" /\ arg'[c] = s
      BY <3>2, <3>3, <1>t DEF Enter
    <3> QED BY <3>4
  <2> QED BY <2>4, <2>5
<1>2. ASSUME NEW c \in Callers, CallStep(c) PROVE Goal
  <2>1. language' = language /\ \A d \in Callers : d # c => pc'[d] = pc[d] /\ arg'[d] = arg[d]
    BY <1>2, <1>t DEF CallStep, StartStep, OnceFirst, OnceLater, SelectReady, SelectDone, Release, Leave, SpawnOk,
       SpawnFails, InitializeOk, InitializeFails, InitializedOk, InitializedFails, FailStart, Teardown, Reap, Goto
  <2>2. CASE OnceFirst(c)
    <3>1. arg[c] # s /\ once[s] = "fresh"
      BY <2>2, <1>t DEF OnceFirst, Goto
    <3> QED BY <2>1, <3>1, <1>k
  <2>3. CASE OnceLater(c)
    <3>1. arg[c] # s /\ once[s] = "fresh"
      BY <2>3, <1>t DEF OnceLater, Goto
    <3> QED BY <2>1, <3>1, <1>k
  <2>4. CASE SelectReady(c) \/ SelectDone(c) \/ Release(c) \/ StartStep(c)
    <3>1. pc[c] # "once"
      BY <2>4 DEF SelectReady, SelectDone, Release, StartStep, SpawnOk, SpawnFails, InitializeOk, InitializeFails,
         InitializedOk, InitializedFails, FailStart, Teardown, Reap, Goto
    <3>2. once[s] = "fresh"
      BY <2>4, <1>t DEF SelectReady, SelectDone, Release, StartStep, SpawnOk, SpawnFails, InitializeOk,
         InitializeFails, InitializedOk, InitializedFails, FailStart, Teardown, Reap, FinishStart
    <3> QED BY <2>1, <3>1, <3>2, <1>k
  <2> QED BY <1>2, <2>2, <2>3, <2>4 DEF CallStep
<1>3. ASSUME NEW c \in Callers, ContextDone(c) PROVE Goal
  BY <1>3, <1>0 DEF ContextDone
<1>4. ASSUME NEW k \in Closers, CloseTake(k) \/ CloseStep(k) PROVE Goal
  BY <1>4, <1>0 DEF CloseTake, CloseStep, CloseNext, CloseReturn, AwaitReady, Handshake, WaitNoProcess, WaitProcess,
                   WaitTimeout, WaitKilled
<1>5. ASSUME NEW t \in Sessions, Watch(t) \/ World(t) PROVE Goal
  BY <1>5, <1>0 DEF Watch, World, ProcessExits, HelperExits, StreamEnds, StreamBreaks
<1>6. CASE Quiescent \/ UNCHANGED vars
  BY <1>6, <1>0 DEF Quiescent, vars
<1> QED BY <1>1, <1>2, <1>3, <1>4, <1>5, <1>6 DEF Next

\* A session that can be found has a caller that is bound to run its start, or
\* runs it, until its ready is closed: a Close that waits for it waits for
\* somebody (session.go:232).
THEOREM StartAttendedHolds == Spec => []StartAttended
<1>1. Init => StarterInv /\ AskedInv
  BY DEF Init, StarterInv, AskedInv, Allocated
<1>2. IInv /\ StarterInv /\ AskedInv /\ [Next]_vars => (StarterInv /\ AskedInv)'
  BY StarterNext, AskedNext DEF IInv
<1>3. IInv /\ StarterInv /\ AskedInv => StartAttended
  <2> SUFFICES ASSUME IInv, StarterInv, AskedInv, NEW s \in Allocated, ~ready[s]
               PROVE  \E c \in Callers : arg[c] = s /\ pc[c] \in {"once"} \cup StartPC
    BY DEF StartAttended
  <2>1. s \in Sessions
    BY DEF Allocated
  <2>2. once[s] = "fresh" \/ once[s] = "running"
    BY <2>1 DEF IInv, TypeOK, StartInv, SessionState
  <2>3. CASE once[s] = "fresh"
    BY <2>3 DEF AskedInv
  <2>4. CASE once[s] = "running"
    BY <2>1, <2>4 DEF StarterInv
  <2> QED BY <2>2, <2>3, <2>4
<1> QED BY <1>1, <1>2, <1>3, Invariance, PTL DEF Spec

-----------------------------------------------------------------------------
(* The service the sessions are                                            *)

Bar == [s \in Sessions |-> ServerState(s)]
Given == [c \in Callers |-> pc[c] = "using"]

USE DEF managerVars, startVars, serverVars, callerVars, closerVars, vars, Service!vars

\* The state of a server depends on four variables only.
LEMMA BarFrame ==
  ASSUME UNCHANGED <<language, once, initErr, dead>>
  PROVE  Bar' = Bar
BY DEF Bar, ServerState

\* A step that moves a caller between places where it is not using a session.
LEMMA GivenFrame ==
  ASSUME TypeOK, NEW c \in Callers, NEW to \in CallerPC,
         pc' = [pc EXCEPT ![c] = to], pc[c] # "using", to # "using"
  PROVE  Given' = Given
BY DEF TypeOK, Given

\* A step that moves one server along its life.
LEMMA BarChange ==
  ASSUME TypeOK, NEW s \in Sessions, NEW to,
         \A t \in Sessions : t # s => ServerState(t)' = ServerState(t),
         ServerState(s)' = to
  PROVE  Bar' = [Bar EXCEPT ![s] = to]
BY DEF Bar

\* A caller leaves.
LEMMA LeaveMaps ==
  ASSUME TypeOK, NEW c \in Callers, Leave(c), Bar' = Bar, UNCHANGED sessions
  PROVE  Service!Leave(c)
<1>1. Given' = [Given EXCEPT ![c] = FALSE]
  BY DEF TypeOK, Leave, Given
<1> QED BY <1>1 DEF Service!Leave, Leave, Bar, Given

LEMMA CallStepMaps ==
  ASSUME IInv, NEW c \in Callers, CallStep(c)
  PROVE  Service!Next \/ UNCHANGED Service!vars
<1>s. PICK s \in Sessions : s = arg[c] /\ pc[c] # "idle" /\ language[s] # NoLanguage
  <2>1. pc[c] # "idle"
    BY DEF CallStep, StartStep, OnceFirst, OnceLater, SelectReady, SelectDone, Release, SpawnOk,
       SpawnFails, InitializeOk, InitializeFails, InitializedOk, InitializedFails, FailStart,
       Teardown, Reap, Goto
  <2> QED BY <2>1 DEF IInv, TypeOK, ServiceInv, Allocated
<1>0. TypeOK
  BY DEF IInv
<1> USE <1>s
<1>1. CASE OnceFirst(c)
  <2>1. Bar[s] = "asked"
    BY <1>0, <1>1 DEF OnceFirst, Bar, ServerState
  <2>2. Bar' = [Bar EXCEPT ![s] = "starting"]
    <3>1. ~initErr[s]
      BY <1>0, <1>1 DEF OnceFirst, IInv, StartInv, SessionState, Untouched
    <3>2. ServerState(s)' = "starting"
      BY <1>0, <1>1, <3>1 DEF OnceFirst, ServerState, TypeOK
    <3>3. \A t \in Sessions : t # s => ServerState(t)' = ServerState(t)
      BY <1>0, <1>1 DEF OnceFirst, ServerState, TypeOK
    <3> QED BY <1>0, <3>2, <3>3, BarChange
  <2>3. Given' = Given
    BY <1>0, <1>1, GivenFrame DEF OnceFirst, Goto, CallerPC
  <2>4. Service!Change(s, "asked", "starting")
    BY <1>0, <1>1, <2>1, <2>2, <2>3 DEF Service!Change, Bar, Given, OnceFirst, Goto
  <2> QED BY <1>0, <2>4 DEF Service!Next, Service!Live
<1>2. CASE SelectReady(c)
  <2>0. Bar' = Bar /\ UNCHANGED sessions
    BY <1>2, BarFrame DEF SelectReady
  <2>1. CASE initErr[s]
    <3>1. Leave(c)
      BY <1>2, <2>1 DEF SelectReady
    <3>2. Service!Leave(c)
      BY <1>0, <2>0, <3>1, LeaveMaps
    <3> QED BY <3>2 DEF Service!Next
  <2>2. CASE ~initErr[s]
    <3>1. pc' = [pc EXCEPT ![c] = "using"] /\ UNCHANGED arg
      BY <1>2, <2>2 DEF SelectReady
    <3>2. Given' = [Given EXCEPT ![c] = TRUE]
      BY <1>0, <3>1 DEF TypeOK, Given
    <3>3. once[s] = "done"
      BY <1>0, <1>2 DEF SelectReady, IInv, StartInv, SessionState
    <3>4. Bar[s] \in {"up", "lost"}
      BY <1>0, <2>2, <3>3 DEF Bar, ServerState
    <3>5. s # NoSession
      BY <1>0, NullAssumption
    <3>6. Service!Give(c)
      BY <2>0, <3>1, <3>2, <3>4, <3>5 DEF Service!Give, Bar, Given
    <3> QED BY <3>6 DEF Service!Next
  <2> QED BY <2>1, <2>2
<1>3. CASE SelectDone(c) \/ Release(c)
  <2>1. Leave(c) /\ Bar' = Bar /\ UNCHANGED sessions
    BY <1>3, BarFrame DEF SelectDone, Release
  <2>2. Service!Leave(c)
    BY <1>0, <2>1, LeaveMaps
  <2> QED BY <2>2 DEF Service!Next
<1>4. CASE \/ OnceLater(c) \/ SpawnOk(c) \/ SpawnFails(c) \/ InitializeOk(c) \/ InitializeFails(c)
           \/ InitializedFails(c) \/ Teardown(c)
  <2>1. UNCHANGED <<language, once, initErr, dead, sessions, arg>>
    BY <1>4 DEF OnceLater, SpawnOk, SpawnFails, InitializeOk, InitializeFails, InitializedFails,
       Teardown, Goto
  <2>2. pc[c] # "using" /\ \E to \in CallerPC \ {"using"} : pc' = [pc EXCEPT ![c] = to]
    BY <1>4 DEF OnceLater, SpawnOk, SpawnFails, InitializeOk, InitializeFails, InitializedFails,
       Teardown, Goto, CallerPC
  <2>3. Given' = Given
    BY <1>0, <2>2, GivenFrame
  <2> QED BY <2>1, <2>3, BarFrame DEF Bar, Given
<1>5. CASE InitializedOk(c)
  <2>1. once[s] = "running" /\ ~initErr[s] /\ ~dead[s]
    BY <1>5 DEF InitializedOk, Goto, IInv, StartInv, CallerState, Started, StartPC
  <2>2. Bar[s] = "starting"
    BY <1>0, <2>1 DEF Bar, ServerState
  <2>3. Bar' = [Bar EXCEPT ![s] = "up"]
    <3>1. ServerState(s)' = "up"
      BY <1>0, <1>5, <2>1 DEF InitializedOk, FinishStart, ServerState, TypeOK
    <3>2. \A t \in Sessions : t # s => ServerState(t)' = ServerState(t)
      BY <1>0, <1>5 DEF InitializedOk, FinishStart, ServerState, TypeOK
    <3> QED BY <1>0, <3>1, <3>2, BarChange
  <2>4. Given' = Given
    BY <1>0, <1>5, GivenFrame DEF InitializedOk, Goto, CallerPC
  <2>5. Service!Change(s, "starting", "up")
    BY <1>5, <2>2, <2>3, <2>4 DEF Service!Change, Bar, Given, InitializedOk, Goto
  <2> QED BY <1>0, <2>5 DEF Service!Next, Service!Live
<1>6. CASE FailStart(c)
  <2>1. once[s] = "running" /\ ~initErr[s] /\ ~dead[s]
    BY <1>6 DEF FailStart, Goto, IInv, StartInv, CallerState, Started, StartPC
  <2>2. Bar[s] = "starting"
    BY <1>0, <2>1 DEF Bar, ServerState
  <2>3. Bar' = [Bar EXCEPT ![s] = "failed"]
    <3>1. ServerState(s)' = "failed"
      BY <1>0, <1>6, <2>1 DEF FailStart, ServerState, TypeOK
    <3>2. \A t \in Sessions : t # s => ServerState(t)' = ServerState(t)
      BY <1>0, <1>6 DEF FailStart, ServerState, TypeOK
    <3> QED BY <1>0, <3>1, <3>2, BarChange
  <2>4. Given' = Given
    BY <1>0, <1>6, GivenFrame DEF FailStart, Goto, CallerPC
  <2>5. Service!Change(s, "starting", "failed")
    BY <1>6, <2>2, <2>3, <2>4 DEF Service!Change, Bar, Given, FailStart, Goto
  <2> QED BY <1>0, <2>5 DEF Service!Next, Service!Live
<1>7. CASE Reap(c)
  <2>1. once[s] = "running" /\ initErr[s]
    BY <1>7 DEF Reap, Goto, IInv, StartInv, CallerState, Started, StartPC
  <2>2. \A t \in Sessions : ServerState(t)' = ServerState(t)
    BY <1>0, <1>7, <2>1 DEF Reap, FinishStart, ServerState, TypeOK
  <2>3. Given' = Given
    BY <1>0, <1>7, GivenFrame DEF Reap, Goto, CallerPC
  <2> QED BY <1>7, <2>2, <2>3 DEF Bar, Given, Reap, Goto
<1> QED
  BY <1>1, <1>2, <1>3, <1>4, <1>5, <1>6, <1>7 DEF CallStep, StartStep

LEMMA SessionMaps ==
  ASSUME IInv, NEW c \in Callers, Session(c)
  PROVE  Service!Next
<1>1. PICK n \in Names : SessionReuse(c, Canonical[n]) \/ SessionCreate(c, Canonical[n])
  BY DEF Session
<1> DEFINE l == Canonical[n]
<1>2. l \in Languages
  BY NamesAssumption
<1>3. TypeOK /\ pc[c] = "idle"
  BY <1>1 DEF IInv, SessionReuse, SessionCreate
<1>4. arg[c] = NoSession
  BY <1>3 DEF IInv, StartInv, CallerState
<1>5. Given' = Given
  BY <1>1, <1>3, GivenFrame DEF SessionReuse, SessionCreate, Enter, CallerPC
<1> HIDE DEF l
<1>6. CASE SessionReuse(c, l)
  <2> DEFINE s == sessions[l]
  <2>1. s \in Sessions /\ s # NoSession /\ ~dead[s] /\ language[s] # NoLanguage
    BY <1>2, <1>3, <1>6, NullAssumption DEF SessionReuse, Usable, TypeOK, IInv, ServiceInv
  <2>2. initErr[s] => dead[s]
    BY <2>1 DEF IInv, StartInv, SessionState
  <2>3. Bar[s] \in {"asked", "starting", "up"}
    BY <1>3, <2>1, <2>2 DEF Bar, ServerState
  <2>4. Bar' = Bar
    BY <1>6, BarFrame DEF SessionReuse
  <2>5. Service!Join(c, l)
    BY <1>4, <1>5, <1>6, <2>1, <2>3, <2>4 DEF Service!Join, Bar, Given, SessionReuse, Enter
  <2> QED BY <1>2, <2>5 DEF Service!Next
<1>7. CASE SessionCreate(c, l)
  <2>1. PICK s \in Sessions :
          /\ language[s] = NoLanguage
          /\ language' = [language EXCEPT ![s] = l]
          /\ sessions' = [sessions EXCEPT ![l] = s]
          /\ Enter(c, s)
    BY <1>7 DEF SessionCreate
  <2>2. UNCHANGED <<once, initErr, dead>> /\ ~Usable(l)
    BY <1>7 DEF SessionCreate
  <2>3. Bar[s] = "absent"
    BY <2>1 DEF Bar, ServerState
  <2>4. once[s] = "fresh"
    BY <2>1 DEF IInv, ServiceInv, Allocated, TypeOK
  <2>5. Bar' = [Bar EXCEPT ![s] = "asked"]
    <3>1. ServerState(s)' = "asked"
      BY <1>2, <1>3, <2>1, <2>2, <2>4, NullAssumption DEF ServerState, TypeOK
    <3>2. \A t \in Sessions : t # s => ServerState(t)' = ServerState(t)
      BY <1>3, <2>1, <2>2 DEF ServerState, TypeOK
    <3> QED BY <1>3, <3>1, <3>2, BarChange
  <2>6. ASSUME sessions[l] # NoSession PROVE Bar[sessions[l]] \in {"failed", "lost"}
    <3> DEFINE p == sessions[l]
    <3>1. p \in Sessions /\ dead[p] /\ language[p] # NoLanguage
      BY <1>2, <1>3, <2>2, <2>6, NullAssumption DEF Usable, TypeOK, IInv, ServiceInv
    <3>2. once[p] # "fresh" /\ (once[p] = "running" => initErr[p])
      BY <1>3, <3>1 DEF IInv, StartInv, SessionState, Untouched, TypeOK
    <3> QED BY <1>3, <3>1, <3>2 DEF Bar, ServerState
  <2>7. Service!Replace(c, l, s)
    BY <1>4, <1>5, <2>1, <2>3, <2>5, <2>6 DEF Service!Replace, Bar, Given, Enter
  <2> QED BY <1>2, <2>1, <2>7 DEF Service!Next
<1> QED BY <1>1, <1>6, <1>7 DEF l

\* Every other step leaves the service alone, or loses a server, or stops it.
LEMMA OtherMaps ==
  ASSUME IInv, [Next]_vars,
         \A c \in Callers : ~Session(c) /\ ~CallStep(c)
  PROVE  Service!Next \/ UNCHANGED Service!vars
<1>1. ASSUME NEW c \in Callers, ContextDone(c) PROVE UNCHANGED Service!vars
  BY <1>1, BarFrame DEF ContextDone, Bar, Given
<1>2. ASSUME NEW k \in Closers, CloseTake(k) PROVE Service!Next
  <2>1. Bar' = Bar /\ Given' = Given
    BY <1>2, BarFrame DEF CloseTake, Given
  <2>2. Service!Stop
    BY <1>2, <2>1 DEF CloseTake, Service!Stop, Bar, Given
  <2> QED BY <2>2 DEF Service!Next
<1>3. ASSUME NEW k \in Closers, CloseStep(k) PROVE UNCHANGED Service!vars
  <2>1. UNCHANGED <<language, once, initErr, dead, sessions, arg, pc>>
    BY <1>3 DEF CloseStep, CloseNext, CloseReturn, AwaitReady, Handshake, WaitNoProcess,
       WaitProcess, WaitTimeout, WaitKilled
  <2> QED BY <2>1, BarFrame DEF Bar, Given
<1>4. ASSUME NEW s \in Sessions, World(s) PROVE UNCHANGED Service!vars
  <2>1. UNCHANGED <<language, once, initErr, dead, sessions, arg, pc>>
    BY <1>4 DEF World, ProcessExits, HelperExits, StreamEnds, StreamBreaks
  <2> QED BY <2>1, BarFrame DEF Bar, Given
<1>5. ASSUME NEW s \in Sessions, Watch(s) PROVE Service!Next \/ UNCHANGED Service!vars
  <2>1. once[s] = "done" /\ TypeOK
    BY <1>5 DEF Watch, IInv, StartInv, SessionState
  <2>2. UNCHANGED <<language, once, initErr, sessions, arg, pc>> /\ dead' = [dead EXCEPT ![s] = TRUE]
    BY <1>5 DEF Watch
  <2>3. \A t \in Sessions : t # s => ServerState(t)' = ServerState(t)
    BY <2>1, <2>2 DEF ServerState, TypeOK
  <2>4. CASE ServerState(s) = "up"
    <3>1. ServerState(s)' = "lost"
      BY <2>1, <2>2, <2>4 DEF ServerState, TypeOK
    <3>2. Bar' = [Bar EXCEPT ![s] = "lost"] /\ Bar[s] = "up"
      BY <2>1, <2>3, <2>4, <3>1, BarChange DEF Bar
    <3>3. Service!Change(s, "up", "lost")
      BY <2>2, <3>2 DEF Service!Change, Bar, Given
    <3> QED BY <3>3 DEF Service!Next, Service!Live
  <2>5. CASE ServerState(s) # "up"
    <3>1. ServerState(s)' = ServerState(s)
      BY <2>1, <2>2, <2>5 DEF ServerState, TypeOK
    <3> QED BY <2>2, <2>3, <3>1 DEF Bar, Given
  <2> QED BY <2>4, <2>5
<1>6. CASE UNCHANGED vars
  BY <1>6, BarFrame DEF Bar, Given
<1> QED
  BY <1>1, <1>2, <1>3, <1>4, <1>5, <1>6 DEF Next, Quiescent

\* Every behaviour of the session manager is a behaviour of the service it
\* promises, for any number of callers, Closes, sessions and languages.
THEOREM ImplementsService == Spec => ServiceSpec
<1>1. Init => Service!Init
  <2> SUFFICES ASSUME Init PROVE Service!Init
    OBVIOUS
  <2>1. \A s \in Sessions : ServerState(s) = "absent"
    BY DEF Init, ServerState
  <2>2. \A c \in Callers : (pc[c] = "using") = FALSE
    BY DEF Init
  <2> QED BY <2>1, <2>2 DEF Init, Service!Init
<1>2. IInv /\ [Next]_vars => [Service!Next]_(Service!vars)
  BY SessionMaps, CallStepMaps, OtherMaps
<1> QED BY <1>1, <1>2, Invariance, PTL DEF Spec, ServiceSpec, Service!Spec
=============================================================================
