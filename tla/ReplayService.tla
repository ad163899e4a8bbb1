--------------------------- MODULE ReplayService ---------------------------
(***************************************************************************)
(* packages/backend/src/services/ReplayService.ts and the routes over it:  *)
(* the one replay session of the process, driven by a chain of timers.     *)
(*                                                                         *)
(* `timer` is the timeout that this.timer refers to while it is pending,   *)
(* with the trade its callback captured; a timeout whose handle was        *)
(* overwritten by the next setTimeout can no longer be cleared and is in   *)
(* `strays`.  startReplay() waits for its rows, so several calls can be    *)
(* between their stopReplay() and their scheduleNextTick(): `starting`.    *)
(***************************************************************************)
EXTENDS Integers, SequencesExt

CONSTANTS Symbols, DefaultSymbol,
          Speeds,      \* speeds the callers ask for
          Limits,      \* session lengths they ask for
          MinRows      \* fewer stored trades than this (5) are not replayed

ASSUME ReplayAssumption ==
  DefaultSymbol \in Symbols /\ Speeds \subseteq Int \ {0} /\ Limits \subseteq Nat \ {0} /\ MinRows \in Nat

VARIABLES active, paused, symbol, speed, trades, currentIndex, timer, strays, starting,
          session,     \* history: how many sessions were loaded; a trade carries its number
          replayed,    \* history: what was emitted since the session was last reset
          overtaken    \* history: a start resumed after a later start or stop, and what it
                       \* left behind is not cleared up yet

sessionVars == <<active, paused, symbol, speed, trades, currentIndex>>
timerVars == <<timer, strays>>
historyVars == <<session, replayed, overtaken>>
replayVars == <<sessionVars, timerVars, starting, historyVars>>

None == << >>
Start == [symbol: Symbols, speed: Speeds, limit: Limits]
ReplayTrade == [symbol: Symbols, n: Nat \ {0}, session: Nat]

ReplayInit ==
  /\ active = FALSE /\ paused = FALSE
  /\ symbol = DefaultSymbol /\ speed = 1
  /\ trades = << >> /\ currentIndex = 0
  /\ timer = None /\ strays = << >> /\ starting = << >>
  /\ session = 0 /\ replayed = << >> /\ overtaken = FALSE

\* scheduleNextTick() with the session as given; `pending` is what is left in
\* this.timer, which a new timeout overwrites without clearing it.
ScheduleNextTick(isActive, isPaused, list, index, pending, others) ==
  LET more == index < Len(list)
  IN  IF isActive /\ ~isPaused /\ more
      THEN /\ active' = TRUE
           /\ timer' = <<list[index + 1]>>
           /\ strays' = others \o pending
      ELSE /\ active' = (isActive /\ more)
           /\ timer' = pending
           /\ strays' = others

\* stopReplay(): every start that is still waiting for its rows is overtaken.
Reset ==
  /\ active' = FALSE /\ paused' = FALSE
  /\ timer' = None
  /\ trades' = << >> /\ currentIndex' = 0
  /\ replayed' = << >>
  /\ overtaken' = (overtaken /\ strays # << >>)
  /\ UNCHANGED <<strays, session>>

Overtake(list) == [i \in DOMAIN list |-> [list[i] EXCEPT !.stale = TRUE]]

StopReplay ==
  /\ Reset
  /\ starting' = Overtake(starting)
  /\ UNCHANGED <<symbol, speed>>

StartReplay(options) ==
  /\ Reset
  /\ symbol' = options.symbol
  /\ speed' = options.speed
  /\ starting' = Append(Overtake(starting),
                        [symbol |-> options.symbol, limit |-> options.limit, stale |-> FALSE])

\* The rows of the query when there are enough of them, else (and when the query
\* throws) a synthetic session, for the symbol that is current by then.
Session(of, n) == [i \in 1..n |-> [symbol |-> of, n |-> i, session |-> session + 1]]
Sessions(call) ==
  {Session(call.symbol, n) : n \in MinRows..call.limit} \cup {Session(symbol, call.limit)}

RowsArrive(i) ==
  /\ \E list \in Sessions(starting[i]) :
       /\ trades' = list
       /\ ScheduleNextTick(TRUE, FALSE, list, 0, timer, strays)
  /\ paused' = FALSE /\ currentIndex' = 0
  /\ starting' = RemoveAt(starting, i)
  /\ session' = session + 1 /\ replayed' = << >>
  /\ overtaken' = (overtaken \/ starting[i].stale)
  /\ UNCHANGED <<symbol, speed>>

\* Mutant: pause without clearTimeout.
PauseReplayKeepsTimer ==
  /\ paused' = (paused \/ active)
  /\ UNCHANGED <<active, symbol, speed, trades, currentIndex, timerVars, starting,
                 historyVars>>

PauseReplay ==
  /\ paused' = (paused \/ active)
  /\ timer' = IF active THEN None ELSE timer
  /\ UNCHANGED <<active, symbol, speed, trades, currentIndex, strays, starting,
                 historyVars>>

\* Mutant: resume does not ask whether the replay is paused.
ResumeReplayTwice ==
  /\ paused' = (paused /\ ~active)
  /\ IF active
     THEN ScheduleNextTick(TRUE, FALSE, trades, currentIndex, timer, strays)
     ELSE UNCHANGED <<active, timerVars>>
  /\ UNCHANGED <<symbol, speed, trades, currentIndex, starting, historyVars>>

\* Mutant: resume without scheduleNextTick.
ResumeReplayUnscheduled ==
  /\ paused' = (paused /\ ~active)
  /\ UNCHANGED <<active, symbol, speed, trades, currentIndex, timerVars, starting,
                 historyVars>>

ResumeReplay ==
  /\ paused' = (paused /\ ~active)
  /\ IF active /\ paused
     THEN ScheduleNextTick(TRUE, FALSE, trades, currentIndex, timer, strays)
     ELSE UNCHANGED <<active, timerVars>>
  /\ UNCHANGED <<symbol, speed, trades, currentIndex, starting, historyVars>>

SetSpeed(s) ==
  /\ speed' = IF s < 1 THEN 1 ELSE IF s > 100 THEN 100 ELSE s
  /\ UNCHANGED <<active, paused, symbol, trades, currentIndex, timerVars, starting,
                 historyVars>>

\* A timeout fires with the trade it captured: emit, count, schedule the next.
Tick(trade, pending, others) ==
  /\ replayed' = Append(replayed, trade)
  /\ currentIndex' = currentIndex + 1
  /\ ScheduleNextTick(active, paused, trades, currentIndex + 1, pending, others)
  /\ UNCHANGED <<paused, symbol, speed, trades, starting, session, overtaken>>

TimerFires == timer # None /\ Tick(timer[1], None, strays)
StrayFires(i) == Tick(strays[i], timer, RemoveAt(strays, i))

ReplayTypeOK ==
  /\ active \in BOOLEAN /\ paused \in BOOLEAN
  /\ symbol \in Symbols /\ speed \in Int
  /\ Range(trades) \cup Range(replayed) \cup Range(strays) \cup Range(timer) \subseteq ReplayTrade
  /\ currentIndex \in Nat
  /\ \A i \in DOMAIN starting :
       starting[i] \in [symbol: Symbols, limit: Limits, stale: BOOLEAN]
  /\ session \in Nat /\ overtaken \in BOOLEAN

\* Whatever calls overlap, and however many chains of timeouts they leave, no trade of
\* a session is emitted twice: the trades emitted since the last reset and those that a
\* pending timeout has captured are all different.
ReplayedOnce == IsInjective(replayed \o timer \o strays)

\* What has been emitted is the session up to currentIndex, each trade once and in
\* order, and exactly one timeout, for the next trade, is pending while the replay
\* runs and none while it is stopped or paused.  It is a promise only to callers
\* that wait: a start that another start or a stop overtakes while it awaits its
\* rows begins anyway, and may leave two chains of timers, which the next reset
\* stops only once the timeout that nobody can clear has fired.
ReplayedInOrder ==
  ~overtaken => /\ replayed = SubSeq(trades, 1, currentIndex)
                /\ strays = << >>
                /\ timer = IF active /\ ~paused THEN <<trades[currentIndex + 1]>> ELSE None

=============================================================================
