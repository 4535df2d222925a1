--------------------------- MODULE SessionManager ---------------------------
(***************************************************************************)
(* The life of language-server sessions: pkg/lsp/manager.go (which session *)
(* a call gets) and pkg/lsp/session.go (how a session starts, fails, dies  *)
(* and is shut down).                                                      *)
(*                                                                         *)
(* Actors: the goroutines inside Manager.session (Callers), the goroutines *)
(* inside Manager.Close (Closers), one watch goroutine per session, and    *)
(* the outside world: the server processes and the callers' contexts.      *)
(*                                                                         *)
(* A session is an element of the pool Sessions; it is allocated when      *)
(* language[s] leaves NoLanguage.  The pool is the one bound of the model: *)
(* a call that would need a new session is not made once it is empty.      *)
(***************************************************************************)
EXTENDS Naturals, FiniteSets

CONSTANTS
  Callers,      \* goroutines that call Manager.session
  Closers,      \* goroutines that call Manager.Close
  Sessions,     \* pool of *serverSession values
  Names,        \* language names a tool call may carry ("py", "python", ...)
  Languages,    \* canonical languages
  Canonical,    \* catalog.go CanonicalLanguage
  Configured,   \* keys of Manager.cfg
  NoSession, NoLanguage,
  Habits        \* how a spawned server may behave, see HabitsAssumption

ASSUME NullAssumption == NoSession \notin Sessions /\ NoLanguage \notin Languages
ASSUME NamesAssumption == Canonical \in [Names -> Languages] /\ Configured \subseteq Languages

\* "normal": answers initialize, and its stderr ends with it.
\* "mute":   never answers initialize, yet keeps running.
\* "helper": leaves a child process holding its stderr when it exits.
ASSUME HabitsAssumption == Habits \subseteq {"normal", "mute", "helper"}

VARIABLES
  sessions,   \* Manager.sessions
  language,   \* the language a session was created for; NoLanguage in the pool
  store,      \* serverSession.store, named by the session that created it
  once,       \* serverSession.once
  ready,      \* the channel ready is closed
  initErr,    \* serverSession.initErr # nil
  dead,       \* serverSession.dead
  conn,       \* the jsonrpc2 connection
  proc,       \* the subprocess; "reaped" once cmd.Wait has returned
  killed,     \* the process was killed or its context canceled
  habit,      \* how the spawned server behaves
  stderrHeld, \* some process still holds the write end of stderr
  watch,      \* the watch goroutine
  pc, arg,    \* where a caller stands in Manager.session, and on which session
  ctxDone,    \* the caller's context is canceled or past its deadline
  kpc,        \* where a closer stands in Manager.Close
  todo,       \* the sessions Close has still to shut down, the current one included
  cur,        \* the session it is shutting down
  taken       \* the sessions it took from the map

managerVars == <<sessions, language, store>>
startVars   == <<once, ready, initErr>>
serverVars  == <<proc, killed, habit, stderrHeld>>
callerVars  == <<pc, arg, ctxDone>>
closerVars  == <<kpc, todo, cur, taken>>
vars == <<managerVars, startVars, dead, conn, serverVars, watch, callerVars, closerVars>>

CallerPC == {"idle", "once", "spawn", "initialize", "initialized", "failStart",
             "teardown", "reap", "select", "using"}
StartPC  == {"spawn", "initialize", "initialized", "failStart", "teardown", "reap"}
CloserPC == {"idle", "next", "awaitReady", "handshake", "wait", "killWait", "closed"}

TypeOK ==
  /\ sessions \in [Languages -> Sessions \cup {NoSession}]
  /\ language \in [Sessions -> Languages \cup {NoLanguage}]
  /\ store \in [Sessions -> Sessions \cup {NoSession}]
  /\ once \in [Sessions -> {"fresh", "running", "done"}]
  /\ ready \in [Sessions -> BOOLEAN]
  /\ initErr \in [Sessions -> BOOLEAN]
  /\ dead \in [Sessions -> BOOLEAN]
  /\ conn \in [Sessions -> {"none", "open", "closed"}]
  /\ proc \in [Sessions -> {"none", "running", "exited", "reaped"}]
  /\ killed \in [Sessions -> BOOLEAN]
  /\ habit \in [Sessions -> {"normal", "mute", "helper"}]
  /\ stderrHeld \in [Sessions -> BOOLEAN]
  /\ watch \in [Sessions -> {"off", "armed", "done"}]
  /\ pc \in [Callers -> CallerPC]
  /\ arg \in [Callers -> Sessions \cup {NoSession}]
  /\ ctxDone \in [Callers -> BOOLEAN]
  /\ kpc \in [Closers -> CloserPC]
  /\ todo \in [Closers -> SUBSET Sessions]
  /\ cur \in [Closers -> Sessions \cup {NoSession}]
  /\ taken \in [Closers -> SUBSET Sessions]
  /\ \A c \in Callers : pc[c] # "idle" => arg[c] \in Sessions
  /\ \A k \in Closers : kpc[k] \notin {"idle", "next", "closed"} => cur[k] \in Sessions

Init ==
  /\ sessions = [l \in Languages |-> NoSession]
  /\ language = [s \in Sessions |-> NoLanguage]
  /\ store = [s \in Sessions |-> NoSession]
  /\ once = [s \in Sessions |-> "fresh"]
  /\ ready = [s \in Sessions |-> FALSE]
  /\ initErr = [s \in Sessions |-> FALSE]
  /\ dead = [s \in Sessions |-> FALSE]
  /\ conn = [s \in Sessions |-> "none"]
  /\ proc = [s \in Sessions |-> "none"]
  /\ killed = [s \in Sessions |-> FALSE]
  /\ habit = [s \in Sessions |-> "normal"]
  /\ stderrHeld = [s \in Sessions |-> FALSE]
  /\ watch = [s \in Sessions |-> "off"]
  /\ pc = [c \in Callers |-> "idle"]
  /\ arg = [c \in Callers |-> NoSession]
  /\ ctxDone = [c \in Callers |-> FALSE]
  /\ kpc = [k \in Closers |-> "idle"]
  /\ todo = [k \in Closers |-> {}]
  /\ cur = [k \in Closers |-> NoSession]
  /\ taken = [k \in Closers |-> {}]

-----------------------------------------------------------------------------
(* Manager.session                                                         *)

\* The session the map holds for l can be handed out.
Usable(l) == sessions[l] # NoSession /\ ~dead[sessions[l]]

\* (mutant) A respawned session starts with an empty cache.
StoreForFresh(prev, new) == new

\* The store of the replaced session, or a new one.
StoreFor(prev, new) == IF prev # NoSession THEN store[prev] ELSE new

Enter(c, s) ==
  /\ pc' = [pc EXCEPT ![c] = "once"]
  /\ arg' = [arg EXCEPT ![c] = s]

\* The section under Manager.mu, when the language has a session in service.
\* A name outside Configured is refused at once and changes nothing.
SessionReuse(c, l) ==
  /\ pc[c] = "idle"
  /\ l \in Configured
  /\ Usable(l)
  /\ Enter(c, sessions[l])
  /\ UNCHANGED <<managerVars, startVars, dead, conn, serverVars, watch, ctxDone, closerVars>>

\* (mutant) The map is checked before the lock is taken.
SessionCreateUnlocked(c, l) ==
  /\ pc[c] = "idle"
  /\ l \in Configured
  /\ \E s \in Sessions :
       /\ language[s] = NoLanguage
       /\ language' = [language EXCEPT ![s] = l]
       /\ store' = [store EXCEPT ![s] = StoreFor(sessions[l], s)]
       /\ sessions' = [sessions EXCEPT ![l] = s]
       /\ Enter(c, s)
  /\ UNCHANGED <<startVars, dead, conn, serverVars, watch, ctxDone, closerVars>>

\* The same section when there is none, or a dead one to replace.
SessionCreate(c, l) ==
  /\ pc[c] = "idle"
  /\ l \in Configured
  /\ ~Usable(l)
  /\ \E s \in Sessions :
       /\ language[s] = NoLanguage
       /\ language' = [language EXCEPT ![s] = l]
       /\ store' = [store EXCEPT ![s] = StoreFor(sessions[l], s)]
       /\ sessions' = [sessions EXCEPT ![l] = s]
       /\ Enter(c, s)
  /\ UNCHANGED <<startVars, dead, conn, serverVars, watch, ctxDone, closerVars>>

Session(c) == \E n \in Names : SessionReuse(c, Canonical[n]) \/ SessionCreate(c, Canonical[n])

Goto(c, from, to) ==
  /\ pc[c] = from
  /\ pc' = [pc EXCEPT ![c] = to]
  /\ UNCHANGED <<arg, ctxDone>>

\* (mutant) A started flag that is set when start returns, instead of a Once.
OnceFirstFlag(c) ==
  /\ Goto(c, "once", "spawn")
  /\ once[arg[c]] # "done"
  /\ once' = [once EXCEPT ![arg[c]] = "running"]
  /\ UNCHANGED <<managerVars, ready, initErr, dead, conn, serverVars, watch, closerVars>>

\* sess.once.Do: the first caller runs start in its own goroutine ...
OnceFirst(c) ==
  /\ Goto(c, "once", "spawn")
  /\ once[arg[c]] = "fresh"
  /\ once' = [once EXCEPT ![arg[c]] = "running"]
  /\ UNCHANGED <<managerVars, ready, initErr, dead, conn, serverVars, watch, closerVars>>

\* ... and every other one blocks until it has returned, whatever its context.
OnceLater(c) ==
  /\ Goto(c, "once", "select")
  /\ once[arg[c]] = "done"
  /\ UNCHANGED <<managerVars, startVars, dead, conn, serverVars, watch, closerVars>>

Leave(c) ==
  /\ pc' = [pc EXCEPT ![c] = "idle"]
  /\ arg' = [arg EXCEPT ![c] = NoSession]
  /\ ctxDone' = [ctxDone EXCEPT ![c] = FALSE]

\* case <-sess.ready: return sess, sess.initErr
SelectReady(c) ==
  /\ pc[c] = "select"
  /\ ready[arg[c]]
  /\ IF initErr[arg[c]] THEN Leave(c)
     ELSE pc' = [pc EXCEPT ![c] = "using"] /\ UNCHANGED <<arg, ctxDone>>
  /\ UNCHANGED <<managerVars, startVars, dead, conn, serverVars, watch, closerVars>>

\* (mutant) A call whose context has ended leaves before it runs the start.
SelectDoneEarly(c) ==
  /\ pc[c] \in {"once", "select"}
  /\ ctxDone[c]
  /\ Leave(c)
  /\ UNCHANGED <<managerVars, startVars, dead, conn, serverVars, watch, closerVars>>

\* case <-ctx.Done(): return nil, ctx.Err()
SelectDone(c) ==
  /\ pc[c] = "select"
  /\ ctxDone[c]
  /\ Leave(c)
  /\ UNCHANGED <<managerVars, startVars, dead, conn, serverVars, watch, closerVars>>

\* The feature method that called Manager.session is through with the session.
Release(c) ==
  /\ pc[c] = "using"
  /\ Leave(c)
  /\ UNCHANGED <<managerVars, startVars, dead, conn, serverVars, watch, closerVars>>

-----------------------------------------------------------------------------
(* serverSession.start and failStart, run by the caller that won once.Do   *)

\* Pipes and cmd.Start succeed; NewClient starts the connection's read loop.
SpawnOk(c) ==
  /\ Goto(c, "spawn", "initialize")
  /\ proc' = [proc EXCEPT ![arg[c]] = "running"]
  /\ conn' = [conn EXCEPT ![arg[c]] = "open"]
  /\ \E h \in Habits : habit' = [habit EXCEPT ![arg[c]] = h]
  /\ stderrHeld' = [stderrHeld EXCEPT ![arg[c]] = TRUE]
  /\ UNCHANGED <<managerVars, startVars, dead, killed, watch, closerVars>>

\* A pipe or cmd.Start fails: s.cmd and s.conn stay nil.
SpawnFails(c) ==
  /\ Goto(c, "spawn", "failStart")
  /\ UNCHANGED <<managerVars, startVars, dead, conn, serverVars, watch, closerVars>>

\* server.Initialize returns.  Its context is detached from the caller's, so
\* only an answer or the end of the connection gets here.
InitializeOk(c) ==
  /\ Goto(c, "initialize", "initialized")
  /\ conn[arg[c]] = "open"
  /\ habit[arg[c]] # "mute"
  /\ UNCHANGED <<managerVars, startVars, dead, conn, serverVars, watch, closerVars>>

\* ... with an error reply, or because the connection is gone.
InitializeFails(c) ==
  /\ Goto(c, "initialize", "failStart")
  /\ conn[arg[c]] = "closed" \/ habit[arg[c]] # "mute"
  /\ UNCHANGED <<managerVars, startVars, dead, conn, serverVars, watch, closerVars>>

\* (mutant) ready is closed at the end of start only, not on its error paths.
FinishStartNoDefer(c) ==
  /\ ready' = [ready EXCEPT ![arg[c]] = ~initErr[arg[c]]]
  /\ once' = [once EXCEPT ![arg[c]] = "done"]

\* The deferred close(s.ready), after which once.Do returns.
FinishStart(c) ==
  /\ ready' = [ready EXCEPT ![arg[c]] = TRUE]
  /\ once' = [once EXCEPT ![arg[c]] = "done"]

\* Initialized is sent, the capabilities are recorded, watch is started.
InitializedOk(c) ==
  /\ Goto(c, "initialized", "select")
  /\ conn[arg[c]] = "open"
  /\ watch' = [watch EXCEPT ![arg[c]] = "armed"]
  /\ FinishStart(c)
  /\ UNCHANGED <<managerVars, initErr, dead, conn, serverVars, closerVars>>

\* The notification cannot be written.
InitializedFails(c) ==
  /\ Goto(c, "initialized", "failStart")
  /\ conn[arg[c]] = "closed" \/ proc[arg[c]] # "running"
  /\ UNCHANGED <<managerVars, startVars, dead, conn, serverVars, watch, closerVars>>

\* failStart records the error and marks the session dead: from here on
\* another call may replace it.
FailStart(c) ==
  /\ Goto(c, "failStart", "teardown")
  /\ initErr' = [initErr EXCEPT ![arg[c]] = TRUE]
  /\ dead' = [dead EXCEPT ![arg[c]] = TRUE]
  /\ UNCHANGED <<managerVars, once, ready, conn, serverVars, watch, closerVars>>

CloseConn(s) == conn' = [conn EXCEPT ![s] = IF @ = "none" THEN "none" ELSE "closed"]

\* failStart closes the connection and cancels the context, which kills the
\* process.
Teardown(c) ==
  /\ Goto(c, "teardown", "reap")
  /\ CloseConn(arg[c])
  /\ killed' = [killed EXCEPT ![arg[c]] = TRUE]
  /\ UNCHANGED <<managerVars, startVars, dead, proc, habit, stderrHeld, watch, closerVars>>

\* cmd.Wait can return: the process is gone and nobody holds its stderr (a
\* log writer and not a file, so Wait copies it to the end).
WaitReturns(s) == proc[s] \in {"exited", "reaped"} /\ ~stderrHeld[s]

\* (mutant) failStart leaves the process to a later shutdown.
ReapLater(c) ==
  /\ Goto(c, "reap", "select")
  /\ FinishStart(c)
  /\ UNCHANGED <<managerVars, initErr, dead, conn, serverVars, watch, closerVars>>

\* failStart waits for the process, if one was started, and start returns.
Reap(c) ==
  /\ Goto(c, "reap", "select")
  /\ proc[arg[c]] = "none" \/ WaitReturns(arg[c])
  /\ proc' = [proc EXCEPT ![arg[c]] = IF @ = "none" THEN "none" ELSE "reaped"]
  /\ FinishStart(c)
  /\ UNCHANGED <<managerVars, initErr, dead, conn, killed, habit, stderrHeld, watch, closerVars>>

-----------------------------------------------------------------------------
(* watch                                                                   *)

\* The read loop has ended: mark the session dead (the diagnostics waiters it
\* then wakes are those of DiagnosticsStore).
Watch(s) ==
  /\ watch[s] = "armed"
  /\ conn[s] = "closed"
  /\ watch' = [watch EXCEPT ![s] = "done"]
  /\ dead' = [dead EXCEPT ![s] = TRUE]
  /\ UNCHANGED <<managerVars, startVars, conn, serverVars, callerVars, closerVars>>

-----------------------------------------------------------------------------
(* Manager.Close and serverSession.shutdown                                *)

\* (mutant) Languages that have no session count too.
InMapWithNil == {sessions[l] : l \in Languages}

InMap == {sessions[l] : l \in Languages} \ {NoSession}

\* The section under Manager.mu: take the sessions and clear the map.
CloseTake(k) ==
  /\ kpc[k] = "idle"
  /\ todo' = [todo EXCEPT ![k] = InMap]
  /\ taken' = [taken EXCEPT ![k] = InMap]
  /\ sessions' = [l \in Languages |-> NoSession]
  /\ kpc' = [kpc EXCEPT ![k] = "next"]
  /\ UNCHANGED <<language, store, startVars, dead, conn, serverVars, watch, callerVars, cur>>

KGoto(k, from, to) ==
  /\ kpc[k] = from
  /\ kpc' = [kpc EXCEPT ![k] = to]

\* Next session of the loop, in map order, which is any order.  Only Close
\* calls shutdown and no two Closes hold the same session (ClosesDisjoint), so
\* shutdownOnce always runs doShutdown.
CloseNext(k) ==
  /\ KGoto(k, "next", "awaitReady")
  /\ \E s \in todo[k] : cur' = [cur EXCEPT ![k] = s]
  /\ UNCHANGED <<managerVars, startVars, dead, conn, serverVars, watch, callerVars, todo, taken>>

CloseReturn(k) ==
  /\ KGoto(k, "next", "closed")
  /\ todo[k] = {}
  /\ UNCHANGED <<managerVars, startVars, dead, conn, serverVars, watch, callerVars, todo, cur, taken>>

\* doShutdown: <-s.ready, with no context.
AwaitReady(k) ==
  /\ KGoto(k, "awaitReady", "handshake")
  /\ ready[cur[k]]
  /\ UNCHANGED <<managerVars, startVars, dead, conn, serverVars, watch, callerVars, todo, cur, taken>>

\* didClose, shutdown and exit are over, answered or timed out (shutdownWait),
\* and the connection is closed.
Handshake(k) ==
  /\ KGoto(k, "handshake", "wait")
  /\ CloseConn(cur[k])
  /\ UNCHANGED <<managerVars, startVars, dead, serverVars, watch, callerVars, todo, cur, taken>>

\* shutdown of the current session returns, canceling the context.
ShutdownReturns(k) ==
  /\ todo' = [todo EXCEPT ![k] = @ \ {cur[k]}]
  /\ cur' = [cur EXCEPT ![k] = NoSession]
  /\ killed' = [killed EXCEPT ![cur[k]] = TRUE]

\* waitProcess with nothing to wait for.
WaitNoProcess(k) ==
  /\ KGoto(k, "wait", "next")
  /\ proc[cur[k]] = "none"
  /\ ShutdownReturns(k)
  /\ UNCHANGED <<managerVars, startVars, dead, conn, proc, habit, stderrHeld, watch, callerVars, taken>>

\* cmd.Wait returns in time; on a process that failStart has waited for, at once.
WaitProcess(k) ==
  /\ KGoto(k, "wait", "next")
  /\ WaitReturns(cur[k])
  /\ ShutdownReturns(k)
  /\ proc' = [proc EXCEPT ![cur[k]] = "reaped"]
  /\ UNCHANGED <<managerVars, startVars, dead, conn, habit, stderrHeld, watch, callerVars, taken>>

\* (mutant) The timeout gives up on the process without killing it ...
WaitTimeoutNoKill(k) ==
  /\ KGoto(k, "wait", "killWait")
  /\ proc[cur[k]] \in {"running", "exited"}
  /\ UNCHANGED <<managerVars, startVars, dead, conn, serverVars, watch, callerVars, todo, cur, taken>>

\* (mutant) ... or kills it and does not wait.
WaitTimeoutNoWait(k) ==
  /\ KGoto(k, "wait", "next")
  /\ proc[cur[k]] \in {"running", "exited"}
  /\ ShutdownReturns(k)
  /\ UNCHANGED <<managerVars, startVars, dead, conn, proc, habit, stderrHeld, watch, callerVars, taken>>

\* shutdownWait elapses first: Process.Kill.
WaitTimeout(k) ==
  /\ KGoto(k, "wait", "killWait")
  /\ proc[cur[k]] \in {"running", "exited"}
  /\ killed' = [killed EXCEPT ![cur[k]] = TRUE]
  /\ UNCHANGED <<managerVars, startVars, dead, conn, proc, habit, stderrHeld, watch, callerVars, todo, cur, taken>>

\* <-done after the kill, with no bound of its own.
WaitKilled(k) ==
  /\ KGoto(k, "killWait", "next")
  /\ WaitReturns(cur[k])
  /\ ShutdownReturns(k)
  /\ proc' = [proc EXCEPT ![cur[k]] = "reaped"]
  /\ UNCHANGED <<managerVars, startVars, dead, conn, habit, stderrHeld, watch, callerVars, taken>>

-----------------------------------------------------------------------------
(* The world outside                                                       *)

\* The server process ends: a crash, an answer to exit, the end of its stdin.
ProcessExits(s) ==
  /\ proc[s] = "running"
  /\ proc' = [proc EXCEPT ![s] = "exited"]
  /\ stderrHeld' = [stderrHeld EXCEPT ![s] = (habit[s] = "helper")]
  /\ UNCHANGED <<managerVars, startVars, dead, conn, killed, habit, watch, callerVars, closerVars>>

\* The child that kept stderr open goes away, if it ever does.
HelperExits(s) ==
  /\ proc[s] = "exited"
  /\ stderrHeld[s]
  /\ stderrHeld' = [stderrHeld EXCEPT ![s] = FALSE]
  /\ UNCHANGED <<managerVars, startVars, dead, conn, proc, killed, habit, watch, callerVars, closerVars>>

\* The read loop meets the end of the stream of a process that is gone ...
StreamEnds(s) ==
  /\ conn[s] = "open"
  /\ proc[s] \in {"exited", "reaped"}
  /\ CloseConn(s)
  /\ UNCHANGED <<managerVars, startVars, dead, serverVars, watch, callerVars, closerVars>>

\* ... or a malformed frame, or the end of a stream its live process closed.
StreamBreaks(s) ==
  /\ conn[s] = "open"
  /\ proc[s] = "running"
  /\ CloseConn(s)
  /\ UNCHANGED <<managerVars, startVars, dead, serverVars, watch, callerVars, closerVars>>

\* The tool call is canceled, or its deadline passes.
ContextDone(c) ==
  /\ pc[c] # "idle"
  /\ ~ctxDone[c]
  /\ ctxDone' = [ctxDone EXCEPT ![c] = TRUE]
  /\ UNCHANGED <<managerVars, startVars, dead, conn, serverVars, watch, pc, arg, closerVars>>

-----------------------------------------------------------------------------
StartStep(c) ==
  \/ SpawnOk(c) \/ SpawnFails(c)
  \/ InitializeOk(c) \/ InitializeFails(c)
  \/ InitializedOk(c) \/ InitializedFails(c)
  \/ FailStart(c) \/ Teardown(c) \/ Reap(c)

CallStep(c) ==
  \/ OnceFirst(c) \/ OnceLater(c)
  \/ SelectReady(c) \/ SelectDone(c) \/ Release(c)
  \/ StartStep(c)

CloseStep(k) ==
  \/ CloseNext(k) \/ CloseReturn(k)
  \/ AwaitReady(k) \/ Handshake(k)
  \/ WaitNoProcess(k) \/ WaitProcess(k) \/ WaitTimeout(k) \/ WaitKilled(k)

World(s) == ProcessExits(s) \/ HelperExits(s) \/ StreamEnds(s) \/ StreamBreaks(s)

\* Nobody is inside Manager any more.
Quiescent ==
  /\ \A c \in Callers : pc[c] = "idle"
  /\ \A k \in Closers : kpc[k] \in {"idle", "closed"}
  /\ UNCHANGED vars

Next ==
  \/ \E c \in Callers : Session(c) \/ CallStep(c) \/ ContextDone(c)
  \/ \E k \in Closers : CloseTake(k) \/ CloseStep(k)
  \/ \E s \in Sessions : Watch(s) \/ World(s)
  \/ Quiescent

Spec == Init /\ [][Next]_vars

\* Goroutines that can run do run; a killed process dies; the read loop sees
\* the end of a stream.  Nothing makes a server crash, a helper exit, a stream
\* break, a context end or anybody call.
Fairness ==
  /\ \A c \in Callers : WF_vars(CallStep(c))
  /\ \A k \in Closers : WF_vars(CloseStep(k))
  /\ \A s \in Sessions :
       /\ WF_vars(Watch(s))
       /\ WF_vars(StreamEnds(s))
       /\ WF_vars(killed[s] /\ ProcessExits(s))

FairSpec == Spec /\ Fairness

-----------------------------------------------------------------------------
(* Safety                                                                  *)

Allocated == {s \in Sessions : language[s] # NoLanguage}
TakenByClose == UNION {taken[k] : k \in Closers}

\* A session spawns at most one process, however many calls arrive at once
\* and whichever of them wins once.Do (manager.go:91-93).
SpawnOnce == [][\A c \in Callers : SpawnOk(c) => proc[arg[c]] = "none"]_vars

\* A session is handed out only after its start has succeeded: connected,
\* watched, and with its capabilities recorded (session.go:132-182).
UserSeesStarted ==
  \A c \in Callers : pc[c] = "using" =>
    /\ ready[arg[c]]
    /\ ~initErr[arg[c]]
    /\ conn[arg[c]] # "none"
    /\ watch[arg[c]] # "off"

\* Of the sessions ever created for a language at most one is neither dead
\* nor in the hands of Close, and that one is the one in the map, under
\* whatever alias the calls name the language (manager.go:36-38, 103-108).
OneInService ==
  \A s \in Allocated :
    \/ sessions[language[s]] = s
    \/ dead[s]
    \/ s \in TakenByClose

\* Whoever waits on ready finds a failed start cleaned up: the child reaped
\* and the connection closed, although the session may already have been
\* replaced in the map (session.go:184-190).
FailedStartReaped ==
  \A s \in Sessions : ready[s] /\ initErr[s] =>
    /\ dead[s]
    /\ proc[s] \in {"none", "reaped"}
    /\ conn[s] # "open"

\* Diagnostics caches never leak between languages, and until a Close every
\* replacement inherits its language's cache (manager.go:122-130).
StoreFollowsLanguage ==
  \A s, t \in Allocated :
    /\ store[s] = store[t] => language[s] = language[t]
    /\ language[s] = language[t] /\ (\A k \in Closers : kpc[k] = "idle") => store[s] = store[t]

\* Two Closes never shut down the same session (manager.go:133-140).
ClosesDisjoint == \A j, k \in Closers : j # k => taken[j] \cap taken[k] = {}

\* Shutdown waits for a start in progress: only failStart itself kills a
\* process before ready is closed (session.go:232).
ShutdownAfterStart == \A s \in Sessions : killed[s] /\ ~ready[s] => initErr[s]

\* When Close has returned, every session it took is finished: process
\* reaped, connection closed, no start of it still to come (manager.go:132-149).
CloseLeavesNothing ==
  \A k \in Closers : kpc[k] = "closed" =>
    \A s \in taken[k] :
      /\ ready[s]
      /\ proc[s] \in {"none", "reaped"}
      /\ conn[s] # "open"

\* A process that has not been waited for belongs to somebody who will, the
\* map, a call or a Close, unless its connection was lost after its start
\* (manager.go:36-38, session.go:184-190, session.go:212-219).
OwnedUnlessLost ==
  \A s \in Sessions : proc[s] \in {"running", "exited"} =>
    \/ s \in InMap
    \/ \E c \in Callers : arg[c] = s
    \/ \E k \in Closers : s \in todo[k]
    \/ dead[s] /\ ~initErr[s]

\* Nobody waits on ready for a start that nobody runs: as soon as a session can
\* be found in the map, and until its ready is closed, some call is bound to run
\* its start or is running it, even one whose context has ended; so Close, which
\* waits with no context, waits for a goroutine that moves (session.go:232,
\* manager.go:103-112).
StartAttended ==
  \A s \in Allocated : ~ready[s] => \E c \in Callers : arg[c] = s /\ pc[c] \in {"once"} \cup StartPC

-----------------------------------------------------------------------------
(* What the callers are promised                                           *)

ServerState(s) ==
  IF language[s] = NoLanguage THEN "absent"
  ELSE IF once[s] = "fresh" THEN "asked"
  ELSE IF initErr[s] THEN "failed"
  ELSE IF once[s] = "running" THEN "starting"
  ELSE IF dead[s] THEN "lost" ELSE "up"

Service == INSTANCE LanguageService WITH
  Servers <- Sessions,
  NoServer <- NoSession,
  state <- [s \in Sessions |-> ServerState(s)],
  serving <- sessions,
  waits <- arg,
  given <- [c \in Callers |-> pc[c] = "using"]

\* The goroutines, the Once, the ready channel, the dead flag and the map
\* under its lock implement the service LanguageService promises: one start
\* per server, one server per language, only started servers handed out
\* (manager.go:91-120).
ServiceSpec == Service!Spec

-----------------------------------------------------------------------------
(* Liveness, of FairSpec                                                   *)

\* The two ways a server can hold up whoever waits for it: it does not answer
\* initialize, or a child of it keeps its stderr open.
Withheld(s) ==
  \/ habit[s] = "mute" /\ proc[s] = "running" /\ conn[s] = "open"
  \/ proc[s] = "exited" /\ stderrHeld[s]

\* Every call of Manager.session that starts comes back, with a session or an
\* error, unless the server it waits for withholds its answer or its end.
CallReturns == \A c \in Callers : pc[c] # "idle" ~> (pc[c] = "idle" \/ Withheld(arg[c]))

\* Close returns, even on a server that ignores shutdown and exit
\* (session.go:237-242), with the same two exceptions.
CloseReturns ==
  \A k \in Closers : kpc[k] # "idle" ~>
    (kpc[k] = "closed" \/ (cur[k] # NoSession /\ Withheld(cur[k])))
=============================================================================
