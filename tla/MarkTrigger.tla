---------------------------- MODULE MarkTrigger -----------------------------
(***************************************************************************)
(* What starts the mark publisher's ticks: a cron and a stream of swap     *)
(* creations ask, a coalescer debounces the requests, runs one tick at a   *)
(* time and remembers one request made meanwhile; a shutdown stops all of  *)
(* it (oracle/src/services/mark-publisher/{coalesced-tick,                 *)
(* swap-stream-watcher}.ts and their wiring in oracle/src/index.ts).       *)
(*                                                                         *)
(* One event of Node's loop is one step.  Time passes in units in which    *)
(* every timer is due at its time: the loop is never blocked for a unit.   *)
(***************************************************************************)
EXTENDS Integers

CONSTANTS
  Debounce,        \* debounceMs
  Period,          \* of the cron
  Base, Cap,       \* RECONNECT_BASE_MS, RECONNECT_CAP_MS
  Loops,           \* chains of connect(), reconnection timer and socket
  MaxCreates       \* bound: swaps accepted

ASSUME TimingAssumption ==
  /\ Debounce \in Nat
  /\ Period \in Nat \ {0}
  /\ Base \in Nat
  /\ Cap \in Nat
  /\ Base =< Cap

ASSUME LoopAssumption == Loops # {} /\ MaxCreates \in Nat

VARIABLES
  running, queued, pendingTimer, stopped,     \* the coalescer's
  cron,          \* time left until the cron fires
  conn,          \* where each chain of the watcher is
  reconnectTimer,    \* time left of each chain
  inbox,         \* the chains whose socket has an undelivered created event
  backoff,       \* the delay of the next reconnection
  creates,       \* how many swaps were created on the ledger
  unseen         \* one was created since a tick last started

tickVars == <<running, queued, pendingTimer, stopped>>
watcherVars == <<conn, reconnectTimer, inbox, backoff>>
createdVars == <<creates, unseen>>
triggerVars == <<tickVars, cron, watcherVars, createdVars>>

Off == -1      \* a timer that is not set

\* Math.min
Lesser(a, b) == IF a < b THEN a ELSE b

\* One unit less on a timer that is set.
Counted(t) == IF t > 0 THEN t - 1 ELSE t

TriggerInit ==
  /\ running = FALSE
  /\ queued = FALSE
  /\ pendingTimer = Off
  /\ stopped = FALSE
  /\ cron = Period
  /\ \E l \in Loops : conn = [k \in Loops |-> IF k = l THEN "token" ELSE "none"]
  /\ reconnectTimer = [l \in Loops |-> Off]
  /\ inbox = {}
  /\ backoff = Base
  /\ creates = 0
  /\ unseen = FALSE

-----------------------------------------------------------------------------
(* The coalescer.                                                          *)

\* Mutant of Trigger: a request arms the timer although a tick runs.
TriggerAnyway ==
  \/ stopped /\ UNCHANGED tickVars
  \/ ~stopped /\ pendingTimer' = Debounce /\ UNCHANGED <<running, queued, stopped>>

\* trigger()
Trigger ==
  \/ stopped /\ UNCHANGED tickVars
  \/ ~stopped /\ running /\ queued' = TRUE /\ UNCHANGED <<running, pendingTimer, stopped>>
  \/ /\ ~stopped
     /\ ~running
     /\ pendingTimer' = Debounce
     /\ UNCHANGED <<running, queued, stopped>>

\* The tick reads the ledger after it started, so it sees every earlier swap.
Fire ==
  /\ pendingTimer = 0
  /\ pendingTimer' = Off
  /\ running' = TRUE
  /\ unseen' = FALSE
  /\ UNCHANGED <<queued, stopped, cron, watcherVars, creates>>

\* Mutant of FollowUp: the request made meanwhile is forgotten.
FollowUpForgotten == queued' = FALSE /\ running' = FALSE /\ UNCHANGED pendingTimer

\* Mutant of FollowUp: running is cleared only if nothing is queued.
FollowUpWithoutReset == running' = queued /\ UNCHANGED <<queued, pendingTimer>>

\* The finally block of runOnce; its trigger() finds nothing running.
FollowUp ==
  /\ running' = FALSE
  /\ IF queued /\ ~stopped
       THEN queued' = FALSE /\ pendingTimer' = Debounce
       ELSE UNCHANGED <<queued, pendingTimer>>

\* A tick ends; whether it failed makes no difference here.
FinishTick ==
  /\ running
  /\ FollowUp
  /\ UNCHANGED <<stopped, cron, watcherVars, createdVars>>

CronFires ==
  /\ cron = 0
  /\ cron' = Period
  /\ Trigger
  /\ UNCHANGED <<watcherVars, createdVars>>

-----------------------------------------------------------------------------
(* The watcher.                                                            *)

\* Chain l goes on to a place without a timer.
MoveTo(l, place) ==
  /\ conn' = [conn EXCEPT ![l] = place]
  /\ reconnectTimer' = [reconnectTimer EXCEPT ![l] = Off]

Schedule(l) ==
  /\ conn' = [conn EXCEPT ![l] = "waiting"]
  /\ reconnectTimer' = [reconnectTimer EXCEPT ![l] = backoff]
  /\ backoff' = Lesser(2 * backoff, Cap)

\* Mutant of ScheduleReconnect: the timer is set after stop() as well.
ScheduleAlways(l) == Schedule(l)

\* scheduleReconnect(); RECONNECT_BASE_MS * 2 ** reconnectAttempt, capped, is
\* the doubling of the last delay, capped.
ScheduleReconnect(l) ==
  \/ stopped /\ MoveTo(l, "none") /\ UNCHANGED backoff
  \/ ~stopped /\ Schedule(l)

\* The timer fires and connect() asks for a token.
Connect(l) ==
  /\ reconnectTimer[l] = 0
  /\ ~stopped
  /\ MoveTo(l, "token")
  /\ UNCHANGED <<tickVars, cron, inbox, backoff, createdVars>>

\* getToken() resolves and the socket is made, without another look at stopped.
GetToken(l) ==
  /\ conn[l] = "token"
  /\ MoveTo(l, "connecting")
  /\ UNCHANGED <<tickVars, cron, inbox, backoff, createdVars>>

\* getToken() or the socket's constructor throws.
FailToken(l) ==
  /\ conn[l] = "token"
  /\ ScheduleReconnect(l)
  /\ UNCHANGED <<tickVars, cron, inbox, createdVars>>

\* The stream begins with the contracts there are.
Open(l) ==
  /\ conn[l] = "connecting"
  /\ MoveTo(l, "open")
  /\ inbox' = IF creates > 0 THEN inbox \union {l} ELSE inbox
  /\ backoff' = Base
  /\ UNCHANGED <<tickVars, cron, createdVars>>

\* A message with a created event; messages without one change nothing.
Message(l) ==
  /\ l \in inbox
  /\ inbox' = inbox \ {l}
  /\ Trigger
  /\ UNCHANGED <<cron, conn, reconnectTimer, backoff, createdVars>>

\* Mutant of SocketError: the handler reconnects by itself, and so does close.
SocketErrorReconnects(l) ==
  /\ conn[l] \in {"connecting", "open"}
  /\ \E k \in Loops \ {l} :
       /\ conn' = [conn EXCEPT ![l] = "failed", ![k] = "waiting"]
       /\ reconnectTimer' = [reconnectTimer EXCEPT ![k] = backoff]
  /\ inbox' = inbox \ {l}
  /\ UNCHANGED <<tickVars, cron, backoff, createdVars>>

\* The socket's error event; its close event follows.
SocketError(l) ==
  /\ conn[l] \in {"connecting", "open"}
  /\ MoveTo(l, "failed")
  /\ inbox' = inbox \ {l}
  /\ UNCHANGED <<tickVars, cron, backoff, createdVars>>

SocketClose(l) ==
  /\ conn[l] \in {"open", "failed", "closing"}
  /\ ScheduleReconnect(l)
  /\ inbox' = inbox \ {l}
  /\ UNCHANGED <<tickVars, cron, createdVars>>

-----------------------------------------------------------------------------
(* The environment: swaps, time and the shutdown.                          *)

Opened == {l \in Loops : conn[l] = "open"}

CreateSwap ==
  /\ creates < MaxCreates
  /\ creates' = creates + 1
  /\ unseen' = TRUE
  /\ inbox' = inbox \union Opened
  /\ UNCHANGED <<tickVars, cron, conn, reconnectTimer, backoff>>

Due == pendingTimer = 0 \/ cron = 0 \/ \E l \in Loops : reconnectTimer[l] = 0

Elapse ==
  /\ ~Due
  /\ pendingTimer' = Counted(pendingTimer)
  /\ cron' = Counted(cron)
  /\ reconnectTimer' = [l \in Loops |-> Counted(reconnectTimer[l])]
  /\ UNCHANGED <<running, queued, stopped, conn, inbox, backoff, createdVars>>

\* ws.close() on a socket that has not failed; a token request goes on.
AfterStop(place) ==
  IF place = "waiting" THEN "none"
  ELSE IF place \in {"connecting", "open"} THEN "closing"
  ELSE place

\* The three stop() calls of main's shutdown, which no event comes between.
Shutdown ==
  /\ ~stopped
  /\ stopped' = TRUE
  /\ pendingTimer' = Off
  /\ cron' = Off
  /\ conn' = [l \in Loops |-> AfterStop(conn[l])]
  /\ reconnectTimer' = [l \in Loops |-> Off]
  /\ inbox' = {}
  /\ UNCHANGED <<running, queued, backoff, createdVars>>

Coalescer == Fire \/ FinishTick \/ CronFires

Watcher ==
  \E l \in Loops :
    \/ Connect(l)
    \/ GetToken(l)
    \/ FailToken(l)
    \/ Open(l)
    \/ Message(l)
    \/ SocketError(l)
    \/ SocketClose(l)

Environment == CreateSwap \/ Elapse \/ Shutdown

TriggerNext == Coalescer \/ Watcher \/ Environment

\* Timers fire and ticks return; sockets, tokens and swaps owe nothing.
Fairness ==
  /\ WF_triggerVars(Elapse)
  /\ WF_triggerVars(Fire)
  /\ WF_triggerVars(FinishTick)
  /\ WF_triggerVars(CronFires)
  /\ \A l \in Loops : WF_triggerVars(Connect(l))

TriggerSpec == TriggerInit /\ [][TriggerNext]_triggerVars /\ Fairness

-----------------------------------------------------------------------------
(* Properties.                                                             *)

Timer(most) == {Off} \union 0..most

\* Every variable stays within its type.
TriggerTypeOK ==
  /\ running \in BOOLEAN /\ queued \in BOOLEAN /\ stopped \in BOOLEAN
  /\ pendingTimer \in Timer(Debounce)
  /\ cron \in Timer(Period)
  /\ conn \in [Loops ->
       {"none", "waiting", "token", "connecting", "open", "failed", "closing"}]
  /\ reconnectTimer \in [Loops -> Timer(Cap)]
  /\ inbox \subseteq Loops
  /\ backoff \in Base..Cap
  /\ creates \in 0..MaxCreates
  /\ unseen \in BOOLEAN

\* Until shutdown there is one chain of connections, no matter in which order
\* tokens, errors and closes arrive: the watcher neither gives up for good
\* nor runs two reconnections at a time.
OneChain == ~stopped => \E l \in Loops : \A k \in Loops : conn[k] = "none" <=> k # l

\* While the stream is up, a swap no tick has seen is on its way to one: its
\* event is undelivered, or a tick that has yet to start is asked for.
PushReachesTick ==
  unseen /\ ~stopped =>
    \/ pendingTimer # Off
    \/ queued /\ running
    \/ inbox # {}
    \/ Opened = {}

\* After the stops no timer is left that keeps the process alive or wakes it,
\* though a token request or a tick was under way.
StopTakes ==
  stopped =>
    /\ pendingTimer = Off
    /\ cron = Off
    /\ \A l \in Loops : conn[l] # "waiting" /\ reconnectTimer[l] = Off

Promise == INSTANCE TickRequests WITH
  owed <- ~stopped /\ (queued \/ pendingTimer # Off),
  busy <- running,
  closed <- stopped

\* One chain until the stops, and none of its timers, nor of the tick's, after.
OneChainUntilStop == OneChain /\ StopTakes

\* The coalescer keeps what TickRequests promises: no overlap, no tick after
\* stop, and each request is followed by the start of a tick.
ServesRequests == Promise!Spec

\* The safety half of that promise.
NoOverlap == Promise!Safety

\* The cron alone, should the stream never come up, has every swap seen.
EventuallySeen == unseen ~> (~unseen \/ stopped)

=============================================================================
