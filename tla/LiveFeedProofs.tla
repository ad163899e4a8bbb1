--------------------------- MODULE LiveFeedProofs ---------------------------
(***************************************************************************)
(* Theorems about the market data feed, for every set of users, symbols,   *)
(* speeds and session lengths, and every budget.                           *)
(*                                                                         *)
(* ReplayedOnce needs to know that every trade of the session that was     *)
(* emitted, or that a timeout has captured, comes before the next one that *)
(* a timeout will capture; ReplayedInOrder, that no start waits for its    *)
(* rows while a session runs, unless a later call has overtaken it;        *)
(* TicksOnce, that the page reads one socket of each chain at a time and   *)
(* that what is on its way there has not come over that chain already.     *)
(***************************************************************************)
EXTENDS LiveFeed, BookOpsProofs

(***************************************************************************)
(* The replay session.                                                     *)
(***************************************************************************)
StartCall == [symbol: Symbols, limit: Limits, stale: BOOLEAN]

SessionTypes ==
  /\ active \in BOOLEAN /\ paused \in BOOLEAN
  /\ symbol \in Symbols /\ speed \in Int
  /\ trades \in Seq(ReplayTrade) /\ replayed \in Seq(ReplayTrade)
  /\ strays \in Seq(ReplayTrade) /\ timer \in Seq(ReplayTrade)
  /\ currentIndex \in Nat
  /\ starting \in Seq(StartCall)
  /\ session \in Nat /\ overtaken \in BOOLEAN

\* Only the last start to arrive is not overtaken.
LastStartOnly ==
  \A i \in 1..Len(starting) : ~ starting[i].stale => i = Len(starting)

\* While such a start waits the session is reset, and while a session is
\* active something is left to replay.
InOrder ==
  /\ currentIndex <= Len(trades)
  /\ replayed = SubSeq(trades, 1, currentIndex)
  /\ strays = << >>
  /\ timer = IF active /\ ~ paused THEN <<trades[currentIndex + 1]>> ELSE None
  /\ active => currentIndex < Len(trades)
  /\ (\E i \in 1..Len(starting) : ~ starting[i].stale) => ~ active

ReplayInv ==
  /\ SessionTypes
  /\ LastStartOnly
  /\ ~ overtaken => InOrder

LEMMA EmptyFirst ==
  ASSUME NEW S
  PROVE  << >> \in Seq(S) /\ Len(<< >>) = 0 /\ SubSeq(<< >>, 1, 0) = << >>
<1>1. << >> \in Seq(S) /\ Len(<< >>) = 0
  BY EmptySeq
<1>2. SubSeq(<< >>, 1, 0) \in Seq(S) /\ Len(SubSeq(<< >>, 1, 0)) = 0
  BY <1>1, SubSeqProperties
<1>3. SubSeq(<< >>, 1, 0) = << >>
  BY <1>2, EmptySeq
<1> QED
  BY <1>1, <1>3

\* What scheduleNextTick leaves, as far as types go.
LEMMA ScheduleTypes ==
  ASSUME NEW isActive \in BOOLEAN, NEW isPaused \in BOOLEAN,
         NEW list \in Seq(ReplayTrade), NEW index \in Nat,
         NEW pending \in Seq(ReplayTrade), NEW others \in Seq(ReplayTrade),
         ScheduleNextTick(isActive, isPaused, list, index, pending, others)
  PROVE  /\ active' \in BOOLEAN
         /\ timer' \in Seq(ReplayTrade) /\ strays' \in Seq(ReplayTrade)
<1>1. Len(list) \in Nat
  BY LenProperties
<1>2. CASE isActive /\ ~ isPaused /\ index < Len(list)
  <2>1. list[index + 1] \in ReplayTrade
    <3>1. index + 1 \in 1..Len(list)
      BY <1>1, <1>2
    <3> QED
      BY <3>1, ElementOfSeq
  <2>2. others \o pending \in Seq(ReplayTrade)
    BY ConcatProperties
  <2>3. <<list[index + 1]>> \in Seq(ReplayTrade)
    <3> DEFINE t == list[index + 1]
    <3>1. t \in ReplayTrade
      BY <2>1
    <3> HIDE DEF t
    <3>2. <<t>> \in Seq(ReplayTrade)
      BY <3>1
    <3> QED
      BY <3>2 DEF t
  <2> QED
    BY <1>2, <2>2, <2>3 DEF ScheduleNextTick
<1>3. CASE ~ (isActive /\ ~ isPaused /\ index < Len(list))
  BY <1>3 DEF ScheduleNextTick
<1> QED
  BY <1>2, <1>3

\* With no timeout pending it leaves exactly the one that is due.
LEMMA ScheduleOne ==
  ASSUME NEW isActive \in BOOLEAN, NEW isPaused \in BOOLEAN,
         NEW list \in Seq(ReplayTrade), NEW index \in Nat,
         ScheduleNextTick(isActive, isPaused, list, index, None, << >>)
  PROVE  /\ active' = (isActive /\ index < Len(list))
         /\ strays' = << >>
         /\ timer' = IF active' /\ ~ isPaused THEN <<list[index + 1]>> ELSE None
<1>1. << >> \o << >> = << >>
  <2>1. << >> \in Seq(ReplayTrade)
    BY EmptySeq
  <2> QED
    BY <2>1, ConcatEmptySeq
<1> QED
  BY <1>1 DEF ScheduleNextTick, None

\* stopReplay() overtakes every start that waits.
LEMMA AllOvertaken ==
  ASSUME starting \in Seq(StartCall)
  PROVE  /\ Overtake(starting) \in Seq(StartCall)
         /\ Len(Overtake(starting)) = Len(starting)
         /\ \A i \in 1..Len(starting) : Overtake(starting)[i].stale
<1>1. Len(starting) \in Nat /\ DOMAIN starting = 1..Len(starting)
  BY LenProperties
<1>2. \A i \in 1..Len(starting) :
        /\ starting[i] \in StartCall
        /\ [starting[i] EXCEPT !.stale = TRUE] \in StartCall
        /\ [starting[i] EXCEPT !.stale = TRUE].stale = TRUE
  <2> SUFFICES ASSUME NEW i \in 1..Len(starting)
               PROVE  /\ starting[i] \in StartCall
                      /\ [starting[i] EXCEPT !.stale = TRUE] \in StartCall
                      /\ [starting[i] EXCEPT !.stale = TRUE].stale = TRUE
    OBVIOUS
  <2>1. starting[i] \in StartCall
    BY ElementOfSeq
  <2> QED
    BY <2>1 DEF StartCall
<1> DEFINE n == Len(starting)
           new == [i \in 1..n |-> [starting[i] EXCEPT !.stale = TRUE]]
<1>3. Overtake(starting) = new
  BY <1>1 DEF Overtake
<1>4. new \in Seq(StartCall) /\ Len(new) = n
  <2>1. n \in Nat /\ \A i \in 1..n : [starting[i] EXCEPT !.stale = TRUE] \in StartCall
    BY <1>1, <1>2
  <2> HIDE DEF n
  <2> QED
    BY <2>1
<1> QED
  BY <1>2, <1>3, <1>4

\* A reset session is in order whatever was before it.
LEMMA ResetSession ==
  ASSUME ReplayInv, Reset, symbol' \in Symbols, speed' \in Int,
         starting' \in Seq(StartCall), LastStartOnly'
  PROVE  ReplayInv'
<1>1. /\ active' = FALSE /\ paused' = FALSE /\ timer' = << >> /\ trades' = << >>
      /\ currentIndex' = 0 /\ replayed' = << >> /\ session' = session
      /\ strays' = strays /\ overtaken' = (overtaken /\ strays # << >>)
  BY DEF Reset, None
<1>2. /\ << >> \in Seq(ReplayTrade) /\ Len(<< >>) = 0 /\ SubSeq(<< >>, 1, 0) = << >>
  BY EmptyFirst
<1>3. SessionTypes'
  BY <1>1, <1>2 DEF ReplayInv, SessionTypes
<1>4. ASSUME ~ overtaken' PROVE InOrder'
  <2>1. strays = << >>
    BY <1>1, <1>4 DEF ReplayInv, InOrder
  <2> QED
    BY <1>1, <1>2, <2>1 DEF InOrder, None
<1> QED
  BY <1>1, <1>3, <1>4 DEF ReplayInv

LEMMA StopReplayStep ==
  ASSUME ReplayInv, StopReplay
  PROVE  ReplayInv'
<1>1. starting' = Overtake(starting) /\ symbol' = symbol /\ speed' = speed /\ Reset
  BY DEF StopReplay
<1>2. starting' \in Seq(StartCall) /\ \A i \in 1..Len(starting') : starting'[i].stale
  BY <1>1, AllOvertaken DEF ReplayInv, SessionTypes
<1>3. LastStartOnly'
  BY <1>2 DEF LastStartOnly
<1>4. symbol' \in Symbols /\ speed' \in Int
  BY <1>1 DEF ReplayInv, SessionTypes
<1> QED
  BY <1>1, <1>2, <1>3, <1>4, ResetSession

LEMMA StartReplayStep ==
  ASSUME ReplayInv, NEW options \in Start, StartReplay(options)
  PROVE  ReplayInv'
<1> DEFINE call == [symbol |-> options.symbol, limit |-> options.limit, stale |-> FALSE]
           before == Overtake(starting)
<1>1. starting' = Append(before, call) /\ Reset
      /\ symbol' = options.symbol /\ speed' = options.speed
  BY DEF StartReplay
<1>2. call \in StartCall /\ symbol' \in Symbols /\ speed' \in Int
  BY <1>1, ReplayAssumption DEF Start, StartCall
<1>3. /\ before \in Seq(StartCall) /\ Len(before) \in Nat
      /\ \A i \in 1..Len(before) : before[i].stale
  BY AllOvertaken, LenProperties DEF ReplayInv, SessionTypes
<1> HIDE DEF call, before
<1>4. /\ starting' \in Seq(StartCall) /\ Len(starting') = Len(before) + 1
      /\ \A i \in 1..Len(before) : starting'[i] = before[i]
  BY <1>1, <1>2, <1>3, AppendProperties
<1>5. LastStartOnly'
  BY <1>3, <1>4 DEF LastStartOnly
<1> QED
  BY <1>1, <1>2, <1>4, <1>5, ResetSession

\* The sessions that the rows may make.
LEMMA SessionType ==
  ASSUME NEW of \in Symbols, NEW n \in Nat, session \in Nat
  PROVE  Session(of, n) \in Seq(ReplayTrade) /\ Len(Session(of, n)) = n
<1>1. \A i \in 1..n : [symbol |-> of, n |-> i, session |-> session + 1] \in ReplayTrade
  BY DEF ReplayTrade
<1> QED
  BY <1>1 DEF Session

LEMMA RowsArriveStep ==
  ASSUME ReplayInv, NEW i \in DOMAIN starting, RowsArrive(i)
  PROVE  ReplayInv'
<1>1. /\ starting \in Seq(StartCall) /\ Len(starting) \in Nat /\ i \in 1..Len(starting)
      /\ starting[i] \in StartCall
  <2>1. starting \in Seq(StartCall)
    BY DEF ReplayInv, SessionTypes
  <2> QED
    BY <2>1, LenProperties, ElementOfSeq
<1>2. PICK list \in Sessions(starting[i]) :
        /\ trades' = list
        /\ ScheduleNextTick(TRUE, FALSE, list, 0, timer, strays)
  BY DEF RowsArrive
<1>3. list \in Seq(ReplayTrade) /\ Len(list) \in Nat
  <2>1. PICK of \in Symbols, n \in Nat : list = Session(of, n)
    <3>1. starting[i].symbol \in Symbols /\ starting[i].limit \in Nat
          /\ symbol \in Symbols
      BY <1>1, ReplayAssumption DEF StartCall, ReplayInv, SessionTypes
    <3>2. \A n \in MinRows..starting[i].limit : n \in Nat
      BY <3>1, ReplayAssumption
    <3> QED
      BY <3>1, <3>2 DEF Sessions
  <2> QED
    BY <2>1, SessionType DEF ReplayInv, SessionTypes
<1>4. /\ paused' = FALSE /\ currentIndex' = 0 /\ replayed' = << >>
      /\ session' = session + 1
      /\ starting' = RemoveAt(starting, i)
      /\ overtaken' = (overtaken \/ starting[i].stale)
      /\ symbol' = symbol /\ speed' = speed
  BY DEF RowsArrive
<1>5. /\ starting' \in Seq(StartCall) /\ Len(starting') = Len(starting) - 1
      /\ \A j \in 1..Len(starting) - 1 :
           starting'[j] = IF j < i THEN starting[j] ELSE starting[j + 1]
  BY <1>1, <1>4, RemoveAtProperties
<1>6. SessionTypes'
  <2>1. starting[i].stale \in BOOLEAN
    BY <1>1 DEF StartCall
  <2>2. active' \in BOOLEAN /\ timer' \in Seq(ReplayTrade) /\ strays' \in Seq(ReplayTrade)
    BY <1>2, <1>3, ScheduleTypes DEF ReplayInv, SessionTypes
  <2>3. session' \in Nat /\ currentIndex' \in Nat
    BY <1>4 DEF ReplayInv, SessionTypes
  <2>4. overtaken' \in BOOLEAN
    BY <1>4, <2>1 DEF ReplayInv, SessionTypes
  <2>5. replayed' \in Seq(ReplayTrade)
    BY <1>4, EmptySeq
  <2> QED
    BY <1>2, <1>3, <1>4, <1>5, <2>2, <2>3, <2>4, <2>5 DEF ReplayInv, SessionTypes
<1>7. LastStartOnly'
  <2> SUFFICES ASSUME NEW j \in 1..Len(starting'), ~ starting'[j].stale
               PROVE  j = Len(starting')
    BY DEF LastStartOnly
  <2>1. j \in 1..Len(starting) - 1 /\ j \in Nat
    BY <1>1, <1>5
  <2>2. CASE j < i
    <3>1. j = Len(starting)
      BY <1>1, <1>5, <2>1, <2>2 DEF ReplayInv, LastStartOnly
    <3> QED
      BY <1>1, <2>1, <3>1
  <2>3. CASE ~ (j < i)
    <3>1. j + 1 = Len(starting)
      BY <1>1, <1>5, <2>1, <2>3 DEF ReplayInv, LastStartOnly
    <3> QED
      BY <1>1, <1>5, <3>1
  <2> QED
    BY <2>2, <2>3
<1>8. ASSUME ~ overtaken' PROVE InOrder'
  <2>1. ~ overtaken /\ ~ starting[i].stale
    BY <1>4, <1>8 DEF ReplayInv, SessionTypes
  <2>2. i = Len(starting) /\ ~ active /\ strays = << >> /\ timer = None
    BY <1>1, <2>1 DEF ReplayInv, LastStartOnly, InOrder
  <2>3. /\ active' = (0 < Len(list)) /\ strays' = << >>
        /\ timer' = IF active' THEN <<list[0 + 1]>> ELSE None
    <3>1. ScheduleNextTick(TRUE, FALSE, list, 0, None, << >>)
      BY <1>2, <2>2
    <3>2. TRUE \in BOOLEAN /\ FALSE \in BOOLEAN /\ 0 \in Nat
      OBVIOUS
    <3>3. /\ active' = (TRUE /\ 0 < Len(list)) /\ strays' = << >>
          /\ timer' = IF active' /\ ~ FALSE THEN <<list[0 + 1]>> ELSE None
      BY <1>3, <3>1, <3>2, ScheduleOne
    <3> QED
      BY <3>3
  <2>4. \A j \in 1..Len(starting') : starting'[j].stale
    BY <1>1, <1>5, <2>2 DEF ReplayInv, LastStartOnly
  <2>5. SubSeq(list, 1, 0) = << >>
    <3>1. SubSeq(list, 1, 0) \in Seq(ReplayTrade) /\ Len(SubSeq(list, 1, 0)) = 0
      BY <1>3, SubSeqProperties
    <3> QED
      BY <3>1, EmptySeq
  <2>6. active' \in BOOLEAN /\ (active' => 0 < Len(list))
    BY <1>6, <2>3 DEF SessionTypes
  <2>7. timer' = IF active' /\ ~ paused' THEN <<trades'[currentIndex' + 1]>> ELSE None
    BY <1>2, <1>4, <2>3
  <2> QED
    BY <1>2, <1>3, <1>4, <2>3, <2>4, <2>5, <2>6, <2>7 DEF InOrder
<1> QED
  BY <1>6, <1>7, <1>8 DEF ReplayInv

LEMMA PauseReplayStep ==
  ASSUME ReplayInv, PauseReplay
  PROVE  ReplayInv'
<1>1. SessionTypes'
  BY EmptySeq DEF ReplayInv, SessionTypes, PauseReplay, None, historyVars
<1> QED
  BY <1>1 DEF ReplayInv, SessionTypes, PauseReplay, LastStartOnly, InOrder,
         historyVars

LEMMA ResumeReplayStep ==
  ASSUME ReplayInv, ResumeReplay
  PROVE  ReplayInv'
<1>1. /\ paused' = (paused /\ ~ active)
      /\ symbol' = symbol /\ speed' = speed /\ trades' = trades
      /\ currentIndex' = currentIndex /\ starting' = starting
      /\ replayed' = replayed /\ overtaken' = overtaken /\ session' = session
  BY DEF ResumeReplay, historyVars
<1>2. SessionTypes
  BY DEF ReplayInv
<1>3. CASE active /\ paused
  <2>1. ScheduleNextTick(TRUE, FALSE, trades, currentIndex, timer, strays)
    BY <1>3 DEF ResumeReplay
  <2>2. active' \in BOOLEAN /\ timer' \in Seq(ReplayTrade) /\ strays' \in Seq(ReplayTrade)
    BY <1>2, <2>1, ScheduleTypes DEF SessionTypes
  <2>3. ASSUME ~ overtaken PROVE InOrder'
    <3>1. InOrder /\ timer = None /\ strays = << >> /\ currentIndex < Len(trades)
      BY <1>3, <2>3 DEF ReplayInv, InOrder
    <3>2. /\ active' = (currentIndex < Len(trades)) /\ strays' = << >>
          /\ timer' = IF active' THEN <<trades[currentIndex + 1]>> ELSE None
      BY <1>2, <2>1, <3>1, ScheduleOne DEF SessionTypes
    <3> QED
      BY <1>1, <1>3, <3>1, <3>2 DEF InOrder
  <2> QED
    BY <1>1, <1>2, <2>2, <2>3 DEF ReplayInv, SessionTypes, LastStartOnly
<1>4. CASE ~ (active /\ paused)
  <2>1. active' = active /\ timer' = timer /\ strays' = strays
    BY <1>4 DEF ResumeReplay, timerVars
  <2> QED
    BY <1>1, <1>2, <1>4, <2>1 DEF ReplayInv, SessionTypes, LastStartOnly, InOrder
<1> QED
  BY <1>3, <1>4

LEMMA SetSpeedStep ==
  ASSUME ReplayInv, NEW s \in Speeds, SetSpeed(s)
  PROVE  ReplayInv'
<1>1. s \in Int
  BY ReplayAssumption
<1>2. speed' \in Int
  BY <1>1 DEF SetSpeed
<1> QED
  BY <1>2 DEF ReplayInv, SessionTypes, LastStartOnly, InOrder, SetSpeed, timerVars,
         historyVars

\* A timeout that nobody may be able to clear.
LEMMA TickTypes ==
  ASSUME ReplayInv, NEW trade \in ReplayTrade, NEW pending \in Seq(ReplayTrade),
         NEW others \in Seq(ReplayTrade), Tick(trade, pending, others)
  PROVE  SessionTypes' /\ LastStartOnly'
<1>1. /\ replayed' = Append(replayed, trade) /\ currentIndex' = currentIndex + 1
      /\ ScheduleNextTick(active, paused, trades, currentIndex + 1, pending, others)
      /\ paused' = paused /\ symbol' = symbol /\ speed' = speed /\ trades' = trades
      /\ starting' = starting /\ overtaken' = overtaken /\ session' = session
  BY DEF Tick
<1>2. SessionTypes /\ currentIndex + 1 \in Nat
  BY DEF ReplayInv, SessionTypes
<1>3. active' \in BOOLEAN /\ timer' \in Seq(ReplayTrade) /\ strays' \in Seq(ReplayTrade)
  BY <1>1, <1>2, ScheduleTypes DEF SessionTypes
<1>4. replayed' \in Seq(ReplayTrade)
  BY <1>1, <1>2, AppendProperties DEF SessionTypes
<1> QED
  BY <1>1, <1>2, <1>3, <1>4 DEF ReplayInv, SessionTypes, LastStartOnly

LEMMA TimerFiresStep ==
  ASSUME ReplayInv, TimerFires
  PROVE  ReplayInv'
<1>1. timer # << >> /\ Tick(timer[1], None, strays)
  BY DEF TimerFires, None
<1>2. SessionTypes /\ Len(trades) \in Nat /\ currentIndex + 1 \in Nat
  BY LenProperties DEF ReplayInv, SessionTypes
<1>3. timer[1] \in ReplayTrade /\ None \in Seq(ReplayTrade)
  <2>1. 1 \in 1..Len(timer)
    BY <1>1, <1>2, EmptySeq, LenProperties DEF SessionTypes
  <2> QED
    BY <1>2, <2>1, ElementOfSeq, EmptySeq DEF SessionTypes, None
<1>4. SessionTypes' /\ LastStartOnly'
  BY <1>1, <1>2, <1>3, TickTypes DEF SessionTypes
<1>5. /\ replayed' = Append(replayed, timer[1]) /\ currentIndex' = currentIndex + 1
      /\ ScheduleNextTick(active, paused, trades, currentIndex + 1, None, strays)
      /\ paused' = paused /\ trades' = trades
      /\ starting' = starting /\ overtaken' = overtaken
  BY <1>1 DEF Tick
<1>6. ASSUME ~ overtaken PROVE InOrder'
  <2>1. /\ active /\ ~ paused /\ currentIndex < Len(trades) /\ strays = << >>
        /\ timer[1] = trades[currentIndex + 1]
        /\ replayed = SubSeq(trades, 1, currentIndex)
        /\ ~ \E j \in 1..Len(starting) : ~ starting[j].stale
    BY <1>1, <1>6 DEF ReplayInv, InOrder, None
  <2>2. /\ active' = (currentIndex + 1 < Len(trades)) /\ strays' = << >>
        /\ timer' = IF active' THEN <<trades[(currentIndex + 1) + 1]>> ELSE None
    <3>1. ScheduleNextTick(TRUE, FALSE, trades, currentIndex + 1, None, << >>)
      BY <1>2, <1>5, <2>1 DEF SessionTypes
    <3>2. TRUE \in BOOLEAN /\ FALSE \in BOOLEAN /\ trades \in Seq(ReplayTrade)
      BY <1>2 DEF SessionTypes
    <3>3. /\ active' = (TRUE /\ currentIndex + 1 < Len(trades)) /\ strays' = << >>
          /\ timer' = IF active' /\ ~ FALSE
                      THEN <<trades[(currentIndex + 1) + 1]>> ELSE None
      BY <1>2, <3>1, <3>2, ScheduleOne
    <3> QED
      BY <3>3
  <2>3. Append(SubSeq(trades, 1, currentIndex), trades[currentIndex + 1]) =
          SubSeq(trades, 1, currentIndex + 1)
    <3> DEFINE n == currentIndex
    <3>1. n \in Nat /\ n + 1 <= Len(trades) /\ trades \in Seq(ReplayTrade)
      BY <1>2, <2>1 DEF SessionTypes
    <3> HIDE DEF n
    <3>2. /\ SubSeq(trades, 1, n) \in Seq(ReplayTrade) /\ Len(SubSeq(trades, 1, n)) = n
          /\ \A j \in 1..n : SubSeq(trades, 1, n)[j] = trades[j]
      BY <1>2, <3>1, SubSeqProperties, ElementOfSeq
    <3>3. /\ SubSeq(trades, 1, n + 1) \in Seq(ReplayTrade)
          /\ Len(SubSeq(trades, 1, n + 1)) = n + 1
          /\ \A j \in 1..n + 1 : SubSeq(trades, 1, n + 1)[j] = trades[j]
      BY <1>2, <3>1, SubSeqProperties, ElementOfSeq
    <3>4. trades[n + 1] \in ReplayTrade
      BY <1>2, <3>1, ElementOfSeq
    <3> DEFINE a == SubSeq(trades, 1, n)
               b == SubSeq(trades, 1, n + 1)
               c == Append(a, trades[n + 1])
    <3> HIDE DEF a, b
    <3>5. /\ c \in Seq(ReplayTrade) /\ Len(c) = n + 1
          /\ \A j \in 1..n + 1 : c[j] = trades[j]
      BY <3>1, <3>2, <3>4, AppendProperties DEF a
    <3>6. c = b
      <4> HIDE DEF c
      <4> QED
        BY <3>3, <3>5, SeqEqual DEF b
    <3> QED
      BY <3>6 DEF a, b, n
  <2> QED
    BY <1>2, <1>5, <2>1, <2>2, <2>3 DEF InOrder, SessionTypes
<1> QED
  BY <1>4, <1>5, <1>6 DEF ReplayInv

\* Only a session that was overtaken has timeouts that nothing refers to.
LEMMA StrayFiresStep ==
  ASSUME ReplayInv, NEW i \in DOMAIN strays, StrayFires(i)
  PROVE  ReplayInv'
<1>1. SessionTypes /\ i \in 1..Len(strays) /\ Tick(strays[i], timer, RemoveAt(strays, i))
  BY LenProperties DEF ReplayInv, SessionTypes, StrayFires
<1>2. strays[i] \in ReplayTrade /\ RemoveAt(strays, i) \in Seq(ReplayTrade)
  BY <1>1, ElementOfSeq, RemoveAtProperties DEF SessionTypes
<1>3. SessionTypes' /\ LastStartOnly'
  BY <1>1, <1>2, TickTypes DEF SessionTypes
<1>4. strays # << >>
  BY <1>1, EmptySeq
<1>5. overtaken /\ overtaken'
  BY <1>1, <1>4 DEF ReplayInv, SessionTypes, InOrder, Tick
<1> QED
  BY <1>3, <1>5 DEF ReplayInv

-----------------------------------------------------------------------------
(***************************************************************************)
(* No trade of a session is emitted twice.                                 *)
(***************************************************************************)
Distinct(s) == \A i, j \in 1..Len(s) : s[i] = s[j] => i = j
Apart(s, t) == \A i \in 1..Len(s), j \in 1..Len(t) : s[i] # t[j]

AllDifferent(r, t, s) ==
  /\ Distinct(r) /\ Distinct(t) /\ Distinct(s)
  /\ Apart(r, t) /\ Apart(r, s) /\ Apart(t, s)

\* The trades of session k, and what was taken of sessions up to k.
Numbered(list, k) == \A i \in 1..Len(list) : list[i].n = i /\ list[i].session = k
UpTo(s, k) == \A i \in 1..Len(s) : s[i].session <= k
Below(s, k, index) == \A i \in 1..Len(s) : s[i].session = k => s[i].n <= index

\* Of the session that is loaded, what was taken lies below what is taken next; while
\* it is paused a timeout may be pending only if nothing refers to it.
Unrepeated ==
  /\ Numbered(trades, session)
  /\ AllDifferent(replayed, timer, strays)
  /\ UpTo(replayed, session) /\ UpTo(timer, session) /\ UpTo(strays, session)
  /\ trades # << >> => /\ Below(replayed, session, currentIndex)
                       /\ Below(timer, session, currentIndex + 1)
                       /\ Below(strays, session, currentIndex)
  /\ active /\ paused => timer = << >>

LEMMA TradeFields ==
  ASSUME NEW s \in Seq(ReplayTrade)
  PROVE  \A i \in 1..Len(s) : s[i].n \in Nat /\ s[i].session \in Nat
<1> SUFFICES ASSUME NEW i \in 1..Len(s) PROVE s[i].n \in Nat /\ s[i].session \in Nat
  OBVIOUS
<1>1. s[i] \in ReplayTrade
  BY ElementOfSeq
<1> QED
  BY <1>1 DEF ReplayTrade

LEMMA ConcatElement ==
  ASSUME NEW S, NEW s \in Seq(S), NEW t \in Seq(S), NEW i \in 1..Len(s \o t)
  PROVE  \/ i \in 1..Len(s) /\ (s \o t)[i] = s[i]
         \/ i - Len(s) \in 1..Len(t) /\ (s \o t)[i] = t[i - Len(s)]
<1>1. /\ Len(s) \in Nat /\ Len(t) \in Nat /\ Len(s \o t) = Len(s) + Len(t)
      /\ (s \o t)[i] = IF i <= Len(s) THEN s[i] ELSE t[i - Len(s)]
  BY ConcatProperties, LenProperties
<1>2. i \in Int /\ i >= 1 /\ i <= Len(s) + Len(t)
  BY <1>1
<1>3. CASE i <= Len(s)
  BY <1>1, <1>2, <1>3
<1>4. CASE ~ (i <= Len(s))
  BY <1>1, <1>2, <1>4
<1> QED
  BY <1>3, <1>4

LEMMA ConcatDistinct ==
  ASSUME NEW S, NEW s \in Seq(S), NEW t \in Seq(S), Distinct(s), Distinct(t), Apart(s, t)
  PROVE  Distinct(s \o t)
<1> SUFFICES ASSUME NEW i \in 1..Len(s \o t), NEW j \in 1..Len(s \o t),
                    (s \o t)[i] = (s \o t)[j]
             PROVE  i = j
  BY DEF Distinct
<1> DEFINE u == s \o t
<1>1. \A k \in 1..Len(u) : \/ k \in 1..Len(s) /\ u[k] = s[k]
                           \/ k - Len(s) \in 1..Len(t) /\ u[k] = t[k - Len(s)]
  BY ConcatElement
<1>2. Len(s) \in Nat /\ Len(t) \in Nat /\ Len(u) \in Nat
  BY ConcatProperties, LenProperties
<1> HIDE DEF u
<1>3. i \in 1..Len(u) /\ j \in 1..Len(u) /\ u[i] = u[j]
  BY DEF u
<1>4. CASE i \in 1..Len(s) /\ u[i] = s[i]
  <2>1. CASE j \in 1..Len(s) /\ u[j] = s[j]
    BY <1>3, <1>4, <2>1 DEF Distinct
  <2>2. CASE j - Len(s) \in 1..Len(t) /\ u[j] = t[j - Len(s)]
    BY <1>3, <1>4, <2>2 DEF Apart
  <2> QED
    BY <1>1, <1>3, <2>1, <2>2
<1>5. CASE i - Len(s) \in 1..Len(t) /\ u[i] = t[i - Len(s)]
  <2>1. CASE j \in 1..Len(s) /\ u[j] = s[j]
    BY <1>3, <1>5, <2>1 DEF Apart
  <2>2. CASE j - Len(s) \in 1..Len(t) /\ u[j] = t[j - Len(s)]
    <3>1. i - Len(s) = j - Len(s)
      BY <1>3, <1>5, <2>2 DEF Distinct
    <3> QED
      BY <1>2, <1>3, <3>1
  <2> QED
    BY <1>1, <1>3, <2>1, <2>2
<1> QED
  BY <1>1, <1>3, <1>4, <1>5

LEMMA ConcatApart ==
  ASSUME NEW S, NEW s \in Seq(S), NEW t \in Seq(S), NEW r, Apart(r, s), Apart(r, t)
  PROVE  Apart(r, s \o t)
<1> SUFFICES ASSUME NEW i \in 1..Len(r), NEW j \in 1..Len(s \o t) PROVE r[i] # (s \o t)[j]
  BY DEF Apart
<1>1. \/ j \in 1..Len(s) /\ (s \o t)[j] = s[j]
      \/ j - Len(s) \in 1..Len(t) /\ (s \o t)[j] = t[j - Len(s)]
  BY ConcatElement
<1> QED
  BY <1>1 DEF Apart

LEMMA AppendDistinct ==
  ASSUME NEW S, NEW s \in Seq(S), NEW x \in S, Distinct(s), Apart(<<x>>, s)
  PROVE  Distinct(Append(s, x))
<1> DEFINE u == Append(s, x)
<1>1. /\ Len(s) \in Nat /\ Len(u) = Len(s) + 1 /\ u[Len(s) + 1] = x
      /\ \A i \in 1..Len(s) : u[i] = s[i]
  BY AppendProperties, LenProperties
<1>2. \A i \in 1..Len(s) : s[i] # x
  <2>1. Len(<<x>>) = 1 /\ <<x>>[1] = x
    OBVIOUS
  <2> QED
    BY <2>1 DEF Apart
<1> HIDE DEF u
<1> SUFFICES ASSUME NEW i \in 1..Len(u), NEW j \in 1..Len(u), u[i] = u[j] PROVE i = j
  BY DEF Distinct, u
<1>3. (i \in 1..Len(s) \/ i = Len(s) + 1) /\ (j \in 1..Len(s) \/ j = Len(s) + 1)
  BY <1>1
<1> QED
  BY <1>1, <1>2, <1>3 DEF Distinct

\* What is left of a sequence without one of its elements.
LEMMA RemovedDistinct ==
  ASSUME NEW S, NEW s \in Seq(S), NEW i \in 1..Len(s), Distinct(s)
  PROVE  /\ Distinct(RemoveAt(s, i))
         /\ \A j \in 1..Len(RemoveAt(s, i)) :
              /\ \E m \in 1..Len(s) : RemoveAt(s, i)[j] = s[m]
              /\ RemoveAt(s, i)[j] # s[i]
<1> DEFINE u == RemoveAt(s, i)
           at(j) == IF j < i THEN j ELSE j + 1
<1>1. Len(s) \in Nat /\ i \in Nat /\ Len(u) = Len(s) - 1
      /\ \A j \in 1..Len(s) - 1 : u[j] = IF j < i THEN s[j] ELSE s[j + 1]
  BY RemoveAtProperties, LenProperties
<1> HIDE DEF u
<1>2. \A j \in 1..Len(u) : at(j) \in 1..Len(s) /\ at(j) # i /\ u[j] = s[at(j)]
  BY <1>1
<1>3. \A j, k \in 1..Len(u) : at(j) = at(k) => j = k
  BY <1>1
<1> HIDE DEF at
<1>4. Distinct(u)
  BY <1>2, <1>3 DEF Distinct
<1> QED
  BY <1>2, <1>4 DEF Distinct, u

\* scheduleNextTick captures a trade that nobody has taken.
LEMMA ScheduleUnrepeated ==
  ASSUME NEW isActive \in BOOLEAN, NEW isPaused \in BOOLEAN,
         NEW list \in Seq(ReplayTrade), NEW index \in Nat,
         NEW pending \in Seq(ReplayTrade), NEW others \in Seq(ReplayTrade),
         NEW r \in Seq(ReplayTrade), NEW k \in Nat,
         ScheduleNextTick(isActive, isPaused, list, index, pending, others),
         Numbered(list, k), AllDifferent(r, pending, others),
         UpTo(pending, k), UpTo(others, k),
         list # << >> => /\ Below(r, k, index) /\ Below(pending, k, index)
                         /\ Below(others, k, index)
  PROVE  /\ AllDifferent(r, timer', strays')
         /\ UpTo(timer', k) /\ UpTo(strays', k)
         /\ list # << >> => Below(timer', k, index + 1) /\ Below(strays', k, index)
         /\ isPaused => timer' = pending
<1>1. Len(list) \in Nat
  BY LenProperties
<1>2. CASE isActive /\ ~ isPaused /\ index < Len(list)
  <2>1. PICK x \in ReplayTrade : x = list[index + 1] /\ x.n = index + 1 /\ x.session = k
    <3>1. index + 1 \in 1..Len(list)
      BY <1>1, <1>2
    <3>2. list[index + 1] \in ReplayTrade
      BY <3>1, ElementOfSeq
    <3> QED
      BY <3>1, <3>2 DEF Numbered
  <2>2. timer' = <<x>> /\ strays' = others \o pending
    BY <1>2, <2>1 DEF ScheduleNextTick
  <2>3. list # << >>
    <3>1. Len(<< >>) = 0
      OBVIOUS
    <3> QED
      BY <1>2, <3>1
  <2>4. Below(r, k, index) /\ Below(pending, k, index) /\ Below(others, k, index)
    BY <2>3
  <2>5. Len(<<x>>) = 1 /\ <<x>>[1] = x
    OBVIOUS
  <2>6. \A i \in 1..Len(others \o pending) :
          \/ i \in 1..Len(others) /\ (others \o pending)[i] = others[i]
          \/ /\ i - Len(others) \in 1..Len(pending)
             /\ (others \o pending)[i] = pending[i - Len(others)]
    BY ConcatElement
  <2>7. UpTo(strays', k) /\ Below(strays', k, index)
    BY <2>2, <2>4, <2>6 DEF UpTo, Below
  <2>8. UpTo(timer', k) /\ Below(timer', k, index + 1) /\ Distinct(timer')
    BY <2>1, <2>2, <2>5 DEF UpTo, Below, Distinct
  <2>9. Distinct(strays')
    <3>1. Apart(others, pending) /\ Distinct(others) /\ Distinct(pending)
      BY DEF AllDifferent, Apart
    <3> QED
      BY <2>2, <3>1, ConcatDistinct
  <2>10. Apart(r, strays')
    <3>1. Apart(r, others) /\ Apart(r, pending)
      BY DEF AllDifferent
    <3> QED
      BY <2>2, <3>1, ConcatApart
  <2>11. ASSUME NEW s, Below(s, k, index) PROVE Apart(s, timer') /\ Apart(timer', s)
    <3>1. \A i \in 1..Len(s) : s[i] # x
      BY <2>1, <2>11 DEF Below
    <3> QED
      BY <2>2, <2>5, <3>1 DEF Apart
  <2>12. Apart(r, timer') /\ Apart(timer', strays')
    BY <2>4, <2>7, <2>11
  <2> QED
    BY <1>2, <2>7, <2>8, <2>9, <2>10, <2>12 DEF AllDifferent
<1>3. CASE ~ (isActive /\ ~ isPaused /\ index < Len(list))
  <2>1. timer' = pending /\ strays' = others
    BY <1>3 DEF ScheduleNextTick
  <2>2. list # << >> => Below(pending, k, index + 1)
    <3>1. \A i \in 1..Len(pending) : pending[i].n \in Nat
      BY TradeFields
    <3> QED
      BY <3>1 DEF Below
  <2> QED
    BY <2>1, <2>2
<1> QED
  BY <1>2, <1>3

LEMMA NothingTaken ==
  ASSUME NEW s, AllDifferent(<< >>, << >>, s) \/ Distinct(s), NEW k, NEW n
  PROVE  /\ AllDifferent(<< >>, << >>, s)
         /\ UpTo(<< >>, k) /\ Below(<< >>, k, n) /\ Numbered(<< >>, k)
<1>1. Len(<< >>) = 0
  OBVIOUS
<1> QED
  BY <1>1 DEF AllDifferent, Distinct, Apart, UpTo, Below, Numbered

LEMMA ResetUnrepeated ==
  ASSUME Unrepeated, Reset
  PROVE  Unrepeated'
<1>1. /\ active' = FALSE /\ timer' = << >> /\ trades' = << >> /\ replayed' = << >>
      /\ session' = session /\ strays' = strays
  BY DEF Reset, None
<1>2. Distinct(strays) /\ UpTo(strays, session)
  BY DEF Unrepeated, AllDifferent
<1>3. /\ AllDifferent(<< >>, << >>, strays)
      /\ UpTo(<< >>, session) /\ Numbered(<< >>, session)
  BY <1>2, NothingTaken
<1> QED
  BY <1>1, <1>2, <1>3 DEF Unrepeated

LEMMA RowsArriveUnrepeated ==
  ASSUME ReplayInv, Unrepeated, NEW i \in DOMAIN starting, RowsArrive(i)
  PROVE  Unrepeated'
<1>1. /\ session \in Nat /\ timer \in Seq(ReplayTrade) /\ strays \in Seq(ReplayTrade)
      /\ symbol \in Symbols /\ starting \in Seq(StartCall)
  BY DEF ReplayInv, SessionTypes
<1>2. starting[i].symbol \in Symbols /\ starting[i].limit \in Nat
  <2>1. i \in 1..Len(starting)
    BY <1>1, LenProperties
  <2>2. starting[i] \in StartCall
    BY <1>1, <2>1, ElementOfSeq
  <2> QED
    BY <2>2, ReplayAssumption DEF StartCall
<1>3. PICK list \in Sessions(starting[i]) :
        /\ trades' = list
        /\ ScheduleNextTick(TRUE, FALSE, list, 0, timer, strays)
  BY DEF RowsArrive
<1>4. PICK of \in Symbols, n \in Nat : list = Session(of, n)
  <2>1. \A n \in MinRows..starting[i].limit : n \in Nat
    BY <1>2, ReplayAssumption
  <2> QED
    BY <1>1, <1>2, <2>1 DEF Sessions
<1>5. list \in Seq(ReplayTrade)
  BY <1>1, <1>4, SessionType
<1>6. PICK k \in Nat : k = session + 1
  BY <1>1
<1>7. Numbered(list, k)
  <2>1. list = [j \in 1..n |-> [symbol |-> of, n |-> j, session |-> k]]
    BY <1>4, <1>6 DEF Session
  <2>2. Len(list) = n
    BY <1>1, <1>4, SessionType
  <2> QED
    BY <2>1, <2>2 DEF Numbered
<1>8. /\ \A j \in 1..Len(timer) : timer[j].session < k
      /\ \A j \in 1..Len(strays) : strays[j].session < k
  <2>1. /\ \A j \in 1..Len(timer) : timer[j].session \in Nat
        /\ \A j \in 1..Len(strays) : strays[j].session \in Nat
    BY <1>1, TradeFields
  <2>2. UpTo(timer, session) /\ UpTo(strays, session)
    BY DEF Unrepeated
  <2> QED
    BY <1>1, <1>6, <2>1, <2>2 DEF UpTo
<1>9. /\ UpTo(timer, k) /\ UpTo(strays, k) /\ Below(timer, k, 0) /\ Below(strays, k, 0)
  <2>1. /\ \A j \in 1..Len(timer) : timer[j].session \in Nat
        /\ \A j \in 1..Len(strays) : strays[j].session \in Nat
    BY <1>1, TradeFields
  <2> QED
    BY <1>8, <2>1 DEF UpTo, Below
<1>10. /\ AllDifferent(<< >>, timer, strays) /\ << >> \in Seq(ReplayTrade)
       /\ UpTo(<< >>, k) /\ Below(<< >>, k, 0)
  <2>1. Len(<< >>) = 0
    OBVIOUS
  <2> QED
    BY <2>1, EmptySeq DEF Unrepeated, AllDifferent, Distinct, Apart, UpTo, Below
<1>11. /\ AllDifferent(<< >>, timer', strays') /\ UpTo(timer', k) /\ UpTo(strays', k)
       /\ list # << >> => Below(timer', k, 0 + 1) /\ Below(strays', k, 0)
  <2>1. TRUE \in BOOLEAN /\ FALSE \in BOOLEAN /\ 0 \in Nat
    OBVIOUS
  <2> QED
    BY <1>1, <1>3, <1>5, <1>7, <1>9, <1>10, <2>1, ScheduleUnrepeated
<1>12. paused' = FALSE /\ currentIndex' = 0 /\ replayed' = << >> /\ session' = k
  BY <1>6 DEF RowsArrive
<1> QED
  BY <1>3, <1>7, <1>10, <1>11, <1>12 DEF Unrepeated

LEMMA PauseUnrepeated ==
  ASSUME ReplayInv, Unrepeated, PauseReplay
  PROVE  Unrepeated'
<1>1. /\ active' = active /\ trades' = trades /\ currentIndex' = currentIndex
      /\ strays' = strays /\ replayed' = replayed /\ session' = session
      /\ timer' = IF active THEN << >> ELSE timer
  BY DEF PauseReplay, historyVars, None
<1>2. active \in BOOLEAN
  BY DEF ReplayInv, SessionTypes
<1>3. CASE active
  <2>1. Len(<< >>) = 0
    OBVIOUS
  <2> QED
    BY <1>1, <1>3, <2>1 DEF Unrepeated, AllDifferent, Distinct, Apart, UpTo, Below
<1>4. CASE ~ active
  BY <1>1, <1>4 DEF Unrepeated
<1> QED
  BY <1>3, <1>4

LEMMA ResumeUnrepeated ==
  ASSUME ReplayInv, Unrepeated, ResumeReplay
  PROVE  Unrepeated'
<1>1. /\ paused' = (paused /\ ~ active) /\ trades' = trades
      /\ currentIndex' = currentIndex /\ replayed' = replayed /\ session' = session
  BY DEF ResumeReplay, historyVars
<1>2. SessionTypes
  BY DEF ReplayInv
<1>3. CASE active /\ paused
  <2>1. ScheduleNextTick(TRUE, FALSE, trades, currentIndex, timer, strays)
    BY <1>3 DEF ResumeReplay
  <2>2. timer = << >> /\ ~ paused'
    BY <1>1, <1>3 DEF Unrepeated
  <2>3. Len(<< >>) = 0
    OBVIOUS
  <2>4. /\ Numbered(trades, session) /\ AllDifferent(replayed, timer, strays)
        /\ UpTo(timer, session) /\ UpTo(strays, session) /\ UpTo(replayed, session)
    BY DEF Unrepeated
  <2>5. trades # << >> => /\ Below(replayed, session, currentIndex)
                          /\ Below(timer, session, currentIndex)
                          /\ Below(strays, session, currentIndex)
    BY <2>2, <2>3 DEF Unrepeated, Below
  <2>6. /\ TRUE \in BOOLEAN /\ FALSE \in BOOLEAN
        /\ trades \in Seq(ReplayTrade) /\ timer \in Seq(ReplayTrade)
        /\ strays \in Seq(ReplayTrade) /\ replayed \in Seq(ReplayTrade)
        /\ currentIndex \in Nat /\ session \in Nat
    BY <1>2 DEF SessionTypes
  <2>7. /\ AllDifferent(replayed, timer', strays')
        /\ UpTo(timer', session) /\ UpTo(strays', session)
        /\ trades # << >> => /\ Below(timer', session, currentIndex + 1)
                             /\ Below(strays', session, currentIndex)
    <3>1. PICK list \in Seq(ReplayTrade), index \in Nat, r \in Seq(ReplayTrade), k \in Nat,
               pending \in Seq(ReplayTrade), others \in Seq(ReplayTrade),
               on \in BOOLEAN, off \in BOOLEAN :
            /\ on = TRUE /\ off = FALSE /\ list = trades /\ index = currentIndex /\ r = replayed /\ k = session
            /\ pending = timer /\ others = strays
      BY <2>6
    <3>2. /\ ScheduleNextTick(on, off, list, index, pending, others)
          /\ Numbered(list, k) /\ AllDifferent(r, pending, others)
          /\ UpTo(pending, k) /\ UpTo(others, k)
          /\ list # << >> => /\ Below(r, k, index) /\ Below(pending, k, index)
                             /\ Below(others, k, index)
      BY <2>1, <2>4, <2>5, <3>1
    <3>3. /\ AllDifferent(r, timer', strays')
          /\ UpTo(timer', k) /\ UpTo(strays', k)
          /\ list # << >> => Below(timer', k, index + 1) /\ Below(strays', k, index)
      BY <3>2, ScheduleUnrepeated
    <3> QED
      BY <3>1, <3>3
  <2> QED
    BY <1>1, <2>2, <2>4, <2>5, <2>7 DEF Unrepeated
<1>4. CASE ~ (active /\ paused)
  <2>1. active' = active /\ timer' = timer /\ strays' = strays
    BY <1>4 DEF ResumeReplay, timerVars
  <2>2. ~ (active' /\ paused')
    BY <1>1, <1>4, <2>1
  <2> QED
    BY <1>1, <2>1, <2>2 DEF Unrepeated
<1> QED
  BY <1>3, <1>4

LEMMA TickUnrepeated ==
  ASSUME ReplayInv, Unrepeated, NEW trade \in ReplayTrade,
         NEW pending \in Seq(ReplayTrade), NEW others \in Seq(ReplayTrade),
         Tick(trade, pending, others),
         AllDifferent(replayed, pending, others),
         Apart(<<trade>>, replayed), Apart(<<trade>>, pending), Apart(<<trade>>, others),
         trade.session <= session, UpTo(pending, session), UpTo(others, session),
         trades # << >> =>
           /\ trade.session = session => trade.n <= currentIndex + 1
           /\ Below(pending, session, currentIndex + 1)
           /\ Below(others, session, currentIndex + 1),
         active /\ paused => pending = << >>
  PROVE  Unrepeated'
<1>1. /\ replayed' = Append(replayed, trade) /\ currentIndex' = currentIndex + 1
      /\ ScheduleNextTick(active, paused, trades, currentIndex + 1, pending, others)
      /\ paused' = paused /\ trades' = trades /\ session' = session
  BY DEF Tick
<1>2. SessionTypes
  BY DEF ReplayInv
<1>3. PICK index \in Nat : index = currentIndex + 1
  BY <1>2 DEF SessionTypes
<1>4. PICK r \in Seq(ReplayTrade) : r = Append(replayed, trade)
  BY <1>2, AppendProperties DEF SessionTypes
<1>5. /\ Len(replayed) \in Nat /\ Len(r) = Len(replayed) + 1
      /\ r[Len(replayed) + 1] = trade
      /\ \A i \in 1..Len(replayed) : r[i] = replayed[i]
  BY <1>2, <1>4, AppendProperties, LenProperties DEF SessionTypes
<1>6. \A i \in 1..Len(r) : \/ i \in 1..Len(replayed) /\ r[i] = replayed[i]
                           \/ r[i] = trade
  BY <1>5
<1>7. Distinct(r)
  <2>1. Distinct(replayed)
    BY DEF AllDifferent
  <2> QED
    BY <1>2, <1>4, <2>1, AppendDistinct DEF SessionTypes
<1>8. UpTo(r, session)
  BY <1>6 DEF UpTo, Unrepeated
<1>9. trades # << >> => /\ Below(r, session, index)
                        /\ Below(pending, session, index) /\ Below(others, session, index)
  <2> SUFFICES ASSUME trades # << >>
               PROVE  /\ Below(r, session, index)
                      /\ Below(pending, session, index) /\ Below(others, session, index)
    OBVIOUS
  <2>1. Below(replayed, session, currentIndex)
    BY DEF Unrepeated
  <2>2. \A i \in 1..Len(replayed) : replayed[i].n \in Nat
    BY <1>2, TradeFields DEF SessionTypes
  <2>3. currentIndex \in Nat
    BY <1>2 DEF SessionTypes
  <2>4. Below(r, session, index)
    BY <1>3, <1>6, <2>1, <2>2, <2>3 DEF Below
  <2> QED
    BY <1>3, <2>4
<1>10. AllDifferent(r, pending, others)
  <2>1. Len(<<trade>>) = 1 /\ <<trade>>[1] = trade
    OBVIOUS
  <2>2. \A s : Apart(<<trade>>, s) => \A j \in 1..Len(s) : trade # s[j]
    BY <2>1 DEF Apart
  <2>3. Apart(r, pending) /\ Apart(r, others)
    BY <1>6, <2>2 DEF AllDifferent, Apart
  <2> QED
    BY <1>7, <2>3 DEF AllDifferent
<1>11. Numbered(trades, session)
  BY DEF Unrepeated
<1>12. ScheduleNextTick(active, paused, trades, index, pending, others)
  BY <1>1, <1>3
<1>13. /\ active \in BOOLEAN /\ paused \in BOOLEAN
       /\ trades \in Seq(ReplayTrade) /\ session \in Nat
  BY <1>2 DEF SessionTypes
<1>14. /\ AllDifferent(r, timer', strays') /\ UpTo(timer', session) /\ UpTo(strays', session)
       /\ trades # << >> => Below(timer', session, index + 1) /\ Below(strays', session, index)
       /\ paused => timer' = pending
  BY <1>9, <1>10, <1>11, <1>12, <1>13, ScheduleUnrepeated
<1>15. active' /\ paused' => timer' = << >>
  <2>1. active' => active
    BY <1>2, <1>12 DEF ScheduleNextTick, SessionTypes
  <2> QED
    BY <1>1, <1>14, <2>1
<1> QED
  BY <1>1, <1>3, <1>4, <1>8, <1>9, <1>11, <1>14, <1>15 DEF Unrepeated

LEMMA TimerFiresUnrepeated ==
  ASSUME ReplayInv, Unrepeated, TimerFires
  PROVE  Unrepeated'
<1>1. timer # << >> /\ Tick(timer[1], << >>, strays)
  BY DEF TimerFires, None
<1>2. SessionTypes /\ currentIndex \in Nat
  BY DEF ReplayInv, SessionTypes
<1>3. 1 \in 1..Len(timer)
  BY <1>1, <1>2, EmptySeq, LenProperties DEF SessionTypes
<1>4. PICK trade \in ReplayTrade : trade = timer[1]
  BY <1>2, <1>3, ElementOfSeq DEF SessionTypes
<1>5. Len(<< >>) = 0 /\ Len(<<trade>>) = 1 /\ <<trade>>[1] = trade
  OBVIOUS
<1>6. /\ AllDifferent(replayed, << >>, strays) /\ UpTo(<< >>, session)
      /\ Below(<< >>, session, currentIndex + 1)
  BY <1>5 DEF Unrepeated, AllDifferent, Distinct, Apart, UpTo, Below
<1>7. Apart(<<trade>>, replayed) /\ Apart(<<trade>>, << >>) /\ Apart(<<trade>>, strays)
  BY <1>3, <1>4, <1>5 DEF Unrepeated, AllDifferent, Apart
<1>8. trade.session <= session /\ UpTo(strays, session)
  BY <1>3, <1>4 DEF Unrepeated, UpTo
<1>9. trades # << >> => /\ trade.session = session => trade.n <= currentIndex + 1
                        /\ Below(strays, session, currentIndex + 1)
  <2>1. \A i \in 1..Len(strays) : strays[i].n \in Nat
    BY <1>2, TradeFields DEF SessionTypes
  <2> QED
    BY <1>2, <1>3, <1>4, <2>1 DEF Unrepeated, Below
<1>10. strays \in Seq(ReplayTrade) /\ << >> \in Seq(ReplayTrade)
  BY <1>2, EmptySeq DEF SessionTypes
<1> QED
  BY <1>1, <1>4, <1>6, <1>7, <1>8, <1>9, <1>10, TickUnrepeated

LEMMA StrayFiresUnrepeated ==
  ASSUME ReplayInv, Unrepeated, NEW i \in DOMAIN strays, StrayFires(i)
  PROVE  Unrepeated'
<1>1. SessionTypes /\ i \in 1..Len(strays) /\ Tick(strays[i], timer, RemoveAt(strays, i))
  BY LenProperties DEF ReplayInv, SessionTypes, StrayFires
<1>2. currentIndex \in Nat /\ timer \in Seq(ReplayTrade)
  BY <1>1 DEF SessionTypes
<1>3. PICK trade \in ReplayTrade : trade = strays[i]
  BY <1>1, ElementOfSeq DEF SessionTypes
<1>4. PICK others \in Seq(ReplayTrade) : others = RemoveAt(strays, i)
  BY <1>1, RemoveAtProperties DEF SessionTypes
<1>5. Len(<<trade>>) = 1 /\ <<trade>>[1] = trade
  OBVIOUS
<1>6. /\ Distinct(others)
      /\ \A j \in 1..Len(others) : /\ \E m \in 1..Len(strays) : others[j] = strays[m]
                                   /\ others[j] # trade
  BY <1>1, <1>3, <1>4, RemovedDistinct DEF SessionTypes, Unrepeated, AllDifferent
<1>7. AllDifferent(replayed, timer, others)
  BY <1>6 DEF Unrepeated, AllDifferent, Apart
<1>8. Apart(<<trade>>, replayed) /\ Apart(<<trade>>, timer) /\ Apart(<<trade>>, others)
  <2>1. Apart(<<trade>>, replayed) /\ Apart(<<trade>>, timer)
    BY <1>1, <1>3, <1>5 DEF Unrepeated, AllDifferent, Apart
  <2>2. Apart(<<trade>>, others)
    BY <1>5, <1>6 DEF Apart
  <2> QED
    BY <2>1, <2>2
<1>9. trade.session <= session /\ UpTo(timer, session) /\ UpTo(others, session)
  BY <1>1, <1>3, <1>6 DEF Unrepeated, UpTo
<1>10. \A m \in 1..Len(strays) : strays[m].n \in Nat
  BY <1>1, TradeFields DEF SessionTypes
<1>11. trades # << >> => /\ trade.session = session => trade.n <= currentIndex + 1
                         /\ Below(timer, session, currentIndex + 1)
                         /\ Below(others, session, currentIndex + 1)
  <2> SUFFICES ASSUME trades # << >>
               PROVE  /\ trade.session = session => trade.n <= currentIndex + 1
                      /\ Below(timer, session, currentIndex + 1)
                      /\ Below(others, session, currentIndex + 1)
    OBVIOUS
  <2>1. \A m \in 1..Len(strays) : strays[m].session = session =>
          strays[m].n <= currentIndex + 1
    BY <1>2, <1>10 DEF Unrepeated, Below
  <2>2. Below(others, session, currentIndex + 1)
    BY <1>6, <2>1 DEF Below
  <2> QED
    BY <1>1, <1>3, <2>1, <2>2 DEF Unrepeated
<1>12. active /\ paused => timer = << >>
  BY DEF Unrepeated
<1>13. Tick(trade, timer, others)
  BY <1>1, <1>3, <1>4
<1> QED
  BY <1>2, <1>7, <1>8, <1>9, <1>11, <1>12, <1>13, TickUnrepeated

-----------------------------------------------------------------------------
(***************************************************************************)
(* The sockets, the clients and the tape.                                  *)
(***************************************************************************)
Sent == [type: {"authenticate"}, data: Users] \union [type: {"subscribe"}, data: Symbols]

Socket == [state: SocketState, userId: Users, symbol: Symbols,
           up: Seq(Sent), down: Seq(Nat), cut: BOOLEAN, chain: Nat]
Shown == [n: Nat, chain: Nat]

Client == [userId: Users \cup {""}, subscribedSymbols: SUBSET Symbols]

\* Numbers of broadcasts that were made.
Known(s, n) == \A i \in 1..Len(s) : s[i] \in 1..n

GoodSocket(s, n, k) == s \in Socket /\ Known(s.down, n) /\ s.chain \in 1..k
GoodSockets(ss, n, k) ==
  IsFiniteSet(DOMAIN ss) /\ \A c \in DOMAIN ss : GoodSocket(ss[c], n, k)
GoodClients(cs) == IsFiniteSet(DOMAIN cs) /\ \A c \in DOMAIN cs : cs[c] \in Client
GoodTape(tape, n, k) ==
  /\ tape \in Seq(Shown) /\ Len(tape) <= TapeLength /\ Distinct(tape)
  /\ \A i \in 1..Len(tape) : tape[i].n \in 1..n /\ tape[i].chain \in 0..k

\* What comes over a chain is not on the tape yet.
NewTo(q, tape, k) ==
  \A i \in 1..Len(q), j \in 1..Len(tape) : tape[j] # [n |-> q[i], chain |-> k]

\* The page reads one socket of a chain, of the last chain only the one it holds, and
\* what comes there is new.
Readers(ss, ref, k, tape) ==
  /\ \A c \in DOMAIN ss : ss[c].state # "CLOSING" =>
       /\ ss[c].chain = k => c = ref
       /\ Distinct(ss[c].down) /\ NewTo(ss[c].down, tape, ss[c].chain)
  /\ \A c, d \in DOMAIN ss :
       ss[c].state # "CLOSING" /\ ss[d].state # "CLOSING" /\ ss[c].chain = ss[d].chain => c = d

\* The trades of a symbol that were stored.
GoodStore(list, n) == list \in Seq(Nat) /\ Known(list, n) /\ Distinct(list)

PageTypes ==
  /\ wsRef \in Nat /\ armed \in BOOLEAN /\ unheld \in Nat
  /\ userId \in Users /\ selectedSymbol \in Symbols
  /\ broadcasts \in Nat /\ chain \in Nat \ {0}

FetchInv ==
  /\ DOMAIN stored = Symbols /\ \A s \in Symbols : GoodStore(stored[s], broadcasts)
  /\ fetching = << >> \/ \E m \in 0..Len(stored[selectedSymbol]) : fetching = <<m>>

FeedInv ==
  /\ PageTypes /\ FetchInv
  /\ GoodSockets(sockets, broadcasts, chain)
  /\ GoodClients(clients)
  /\ GoodTape(recentTrades, broadcasts, chain)
  /\ Readers(sockets, wsRef, chain, recentTrades)

LEMMA SocketFields ==
  ASSUME NEW s \in Socket
  PROVE  /\ s.state \in SocketState /\ s.userId \in Users /\ s.symbol \in Symbols
         /\ s.up \in Seq(Sent) /\ s.down \in Seq(Nat) /\ s.cut \in BOOLEAN
         /\ s.chain \in Nat
  BY DEF Socket

LEMMA SocketStateSet ==
  ASSUME NEW s \in Socket, NEW state \in SocketState
  PROVE  /\ [s EXCEPT !.state = state] \in Socket
         /\ [s EXCEPT !.state = state].state = state
         /\ [s EXCEPT !.state = state].down = s.down
         /\ [s EXCEPT !.state = state].chain = s.chain
  BY DEF Socket

LEMMA SocketUpSet ==
  ASSUME NEW s \in Socket, NEW up \in Seq(Sent)
  PROVE  /\ [s EXCEPT !.up = up] \in Socket
         /\ [s EXCEPT !.up = up].state = s.state
         /\ [s EXCEPT !.up = up].down = s.down
         /\ [s EXCEPT !.up = up].chain = s.chain
  BY DEF Socket

LEMMA SocketDownSet ==
  ASSUME NEW s \in Socket, NEW down \in Seq(Nat)
  PROVE  /\ [s EXCEPT !.down = down] \in Socket
         /\ [s EXCEPT !.down = down].state = s.state
         /\ [s EXCEPT !.down = down].down = down
         /\ [s EXCEPT !.down = down].chain = s.chain
  BY DEF Socket

LEMMA SocketCutSet ==
  ASSUME NEW s \in Socket
  PROVE  /\ [s EXCEPT !.cut = TRUE] \in Socket
         /\ [s EXCEPT !.cut = TRUE].state = s.state
         /\ [s EXCEPT !.cut = TRUE].down = s.down
         /\ [s EXCEPT !.cut = TRUE].chain = s.chain
  BY DEF Socket

LEMMA NewSocketType ==
  ASSUME NEW user \in Users, NEW of \in Symbols, NEW k \in Nat
  PROVE  /\ NewSocket(user, of, k) \in Socket
         /\ NewSocket(user, of, k).state = "CONNECTING"
         /\ NewSocket(user, of, k).down = << >>
         /\ NewSocket(user, of, k).chain = k
<1>1. << >> \in Seq(Sent) /\ << >> \in Seq(Nat)
  BY EmptySeq
<1> QED
  BY <1>1 DEF NewSocket, Socket, SocketState

\* There is always a number that no socket has.
LEMMA FreshNumber ==
  ASSUME NEW used, IsFiniteSet(used)
  PROVE  Fresh(used) \in Nat /\ Fresh(used) \notin used
<1> DEFINE k == Cardinality(used)
           I == 1..(k + 1)
<1>1. k \in Nat
  BY FS_CardinalityType
<1> HIDE DEF k
<1>2. IsFiniteSet(I) /\ Cardinality(I) = k + 1
  BY <1>1, FS_Interval
<1>3. \E n \in I : n \notin used
  <2> SUFFICES ASSUME I \subseteq used PROVE FALSE
    OBVIOUS
  <2> HIDE DEF I
  <2>1. Cardinality(I) <= Cardinality(used)
    BY FS_Subset
  <2> QED
    BY <1>1, <1>2, <2>1 DEF k
<1>4. Fresh(used) \in I /\ Fresh(used) \notin used
  BY <1>3 DEF Fresh, k
<1> QED
  BY <1>1, <1>4

\* connect(): the socket is new, and carries on a chain that the page reads no more,
\* or begins one.
LEMMA SocketOpens ==
  ASSUME FeedInv, NEW ss, GoodSockets(ss, broadcasts, chain),
         NEW user \in Users, NEW of \in Symbols, NEW k \in Nat,
         k = chain \/ k = chain + 1, OpenSocket(ss, user, of, k),
         NEW ref, Readers(ss, ref, chain, recentTrades),
         \A c \in DOMAIN ss : ss[c].state # "CLOSING" => ss[c].chain # k
  PROVE  /\ GoodSockets(sockets', broadcasts, chain') /\ wsRef' \in Nat
         /\ chain' = k /\ chain' \in Nat \ {0}
         /\ GoodTape(recentTrades, broadcasts, chain')
         /\ Readers(sockets', wsRef', chain', recentTrades)
<1> DEFINE used == DOMAIN ss \cup DOMAIN clients \cup {wsRef}
           c == Fresh(used)
           new == NewSocket(user, of, k)
<1>1. IsFiniteSet(used)
  <2>1. /\ IsFiniteSet(DOMAIN ss) /\ IsFiniteSet(DOMAIN clients) /\ IsFiniteSet({wsRef})
    BY FS_Singleton DEF FeedInv, GoodSockets, GoodClients
  <2> QED
    BY <2>1, FS_Union
<1>2. /\ sockets' = [d \in DOMAIN ss \cup {c} |-> IF d = c THEN new ELSE ss[d]]
      /\ wsRef' = c /\ chain' = k
  BY DEF OpenSocket
<1> HIDE DEF used
<1>3. c \in Nat /\ c \notin used
  BY <1>1, FreshNumber
<1>4. new \in Socket /\ new.state = "CONNECTING" /\ new.down = << >> /\ new.chain = k
  BY NewSocketType
<1>5. c \notin DOMAIN ss
  BY <1>3 DEF used
<1> HIDE DEF c, new
<1>6. chain \in Nat /\ chain >= 1 /\ k >= chain /\ k \in Nat \ {0} /\ k \in 1..k
  BY DEF FeedInv, PageTypes
<1>7. Len(<< >>) = 0
  OBVIOUS
<1>8. GoodSocket(new, broadcasts, k)
  BY <1>4, <1>6, <1>7 DEF GoodSocket, Known
<1>9. \A d \in DOMAIN ss : GoodSocket(ss[d], broadcasts, k)
  <2> SUFFICES ASSUME NEW d \in DOMAIN ss PROVE GoodSocket(ss[d], broadcasts, k)
    OBVIOUS
  <2>1. ss[d].chain \in 1..chain /\ GoodSocket(ss[d], broadcasts, chain)
    BY DEF GoodSockets, GoodSocket
  <2>2. ss[d].chain \in 1..k
    BY <1>6, <2>1
  <2> QED
    BY <2>1, <2>2 DEF GoodSocket
<1>10. GoodSockets(sockets', broadcasts, k)
  <2>1. IsFiniteSet(DOMAIN sockets')
    BY <1>2, FS_AddElement DEF GoodSockets
  <2> QED
    BY <1>2, <1>8, <1>9, <2>1 DEF GoodSockets
<1>11. GoodTape(recentTrades, broadcasts, k)
  <2>1. \A i \in 0..chain : i \in 0..k
    BY <1>6
  <2> QED
    BY <2>1 DEF FeedInv, GoodTape
<1>12. \A d \in DOMAIN sockets' : \/ d = c /\ sockets'[d] = new
                                  \/ d \in DOMAIN ss /\ sockets'[d] = ss[d] /\ d # c
  BY <1>2, <1>5
<1>13. Distinct(<< >>) /\ NewTo(<< >>, recentTrades, k)
  BY <1>7 DEF Distinct, NewTo
<1>14. Readers(sockets', c, k, recentTrades)
  <2>1. ASSUME NEW d \in DOMAIN sockets', sockets'[d].state # "CLOSING"
        PROVE  /\ sockets'[d].chain = k => d = c
               /\ Distinct(sockets'[d].down)
               /\ NewTo(sockets'[d].down, recentTrades, sockets'[d].chain)
    <3>1. CASE d = c /\ sockets'[d] = new
      BY <1>4, <1>13, <3>1
    <3>2. CASE d \in DOMAIN ss /\ sockets'[d] = ss[d]
      BY <2>1, <3>2 DEF Readers
    <3> QED
      BY <1>12, <3>1, <3>2
  <2>2. ASSUME NEW d \in DOMAIN sockets', NEW e \in DOMAIN sockets',
               sockets'[d].state # "CLOSING", sockets'[e].state # "CLOSING",
               sockets'[d].chain = sockets'[e].chain
        PROVE  d = e
    <3>1. CASE d = c \/ e = c
      BY <1>4, <1>12, <2>1, <2>2, <3>1
    <3>2. CASE d # c /\ e # c
      BY <1>12, <2>2, <3>2 DEF Readers
    <3> QED
      BY <3>1, <3>2
  <2> QED
    BY <2>1, <2>2 DEF Readers
<1> QED
  BY <1>2, <1>3, <1>6, <1>10, <1>11, <1>14

LEMMA ReconnectStep ==
  ASSUME FeedInv, Reconnect
  PROVE  FeedInv'
<1>1. /\ armed' \in BOOLEAN /\ unheld' \in Nat
      /\ clients' = clients /\ userId' = userId /\ selectedSymbol' = selectedSymbol
      /\ recentTrades' = recentTrades /\ broadcasts' = broadcasts
      /\ fetching' = fetching /\ stored' = stored
  <2>1. armed \in BOOLEAN /\ unheld \in Nat
    BY DEF FeedInv, PageTypes
  <2>2. \/ armed' = FALSE /\ unheld' = unheld
        \/ unheld > 0 /\ unheld' = unheld - 1 /\ armed' = armed
    BY DEF Reconnect
  <2>3. CASE armed' = FALSE /\ unheld' = unheld
    BY <2>1, <2>3 DEF Reconnect, pageVars, tapeVars
  <2>4. CASE unheld > 0 /\ unheld' = unheld - 1 /\ armed' = armed
    <3>1. unheld' \in Nat
      BY <2>1, <2>4
    <3> QED
      BY <2>1, <2>4, <3>1 DEF Reconnect, pageVars, tapeVars
  <2> QED
    BY <2>2, <2>3, <2>4
<1>2. FetchInv'
  BY <1>1 DEF FeedInv, FetchInv
<1>3. CASE StateOf(wsRef) = "OPEN"
  <2>1. sockets' = sockets /\ wsRef' = wsRef /\ chain' = chain
    BY <1>3 DEF Reconnect
  <2> QED
    BY <1>1, <1>2, <2>1 DEF FeedInv, PageTypes
<1>4. CASE StateOf(wsRef) # "OPEN"
  <2>1. PICK k \in Nat : k = ChainFor
    BY DEF FeedInv, PageTypes, ChainFor
  <2>2. OpenSocket(sockets, userId, selectedSymbol, k)
    BY <1>4, <2>1 DEF Reconnect
  <2>3. \A c \in DOMAIN sockets :
          /\ sockets[c].state \in SocketState
          /\ sockets[c].chain \in 1..chain
          /\ sockets[c].state # "CLOSING" /\ sockets[c].chain = chain => c = wsRef
    BY SocketFields DEF FeedInv, GoodSockets, GoodSocket, Readers
  <2>4. ASSUME NEW c \in DOMAIN sockets, sockets[c].state # "CLOSING"
        PROVE  sockets[c].chain # k
    <3>1. CASE StateOf(wsRef) = "CONNECTING"
      <4>1. k = chain + 1 /\ chain \in Nat
        BY <2>1, <3>1 DEF ChainFor, FeedInv, PageTypes
      <4> QED
        BY <2>3, <4>1
    <3>2. CASE StateOf(wsRef) # "CONNECTING"
      <4>1. k = chain
        BY <2>1, <3>2 DEF ChainFor
      <4> QED
        BY <1>4, <2>3, <2>4, <3>2, <4>1 DEF StateOf, SocketState
    <3> QED
      BY <3>1, <3>2
  <2>5. k = chain \/ k = chain + 1
    BY <2>1 DEF ChainFor
  <2>6. /\ userId \in Users /\ selectedSymbol \in Symbols
        /\ GoodSockets(sockets, broadcasts, chain)
        /\ Readers(sockets, wsRef, chain, recentTrades)
    BY DEF FeedInv, PageTypes
  <2>7. /\ GoodSockets(sockets', broadcasts, chain') /\ wsRef' \in Nat
        /\ chain' \in Nat \ {0} /\ GoodTape(recentTrades, broadcasts, chain')
        /\ Readers(sockets', wsRef', chain', recentTrades)
    BY <2>2, <2>4, <2>5, <2>6, SocketOpens
  <2> QED
    BY <1>1, <1>2, <2>7 DEF FeedInv, PageTypes
<1> QED
  BY <1>3, <1>4

LEMMA RerenderStep ==
  ASSUME FeedInv, NEW user \in Users, NEW of \in Symbols, Rerender(user, of)
  PROVE  FeedInv'
<1> DEFINE ss == [c \in DOMAIN sockets |->
                    IF c = wsRef THEN [sockets[c] EXCEPT !.state = "CLOSING"]
                    ELSE sockets[c]]
<1>1. /\ userId' = user /\ selectedSymbol' = of /\ armed' = FALSE
      /\ unheld' = unheld /\ clients' = clients /\ stored' = stored
      /\ recentTrades' = recentTrades /\ broadcasts' = broadcasts
      /\ OpenSocket(ss, user, of, chain)
      /\ fetching' = IF of = selectedSymbol THEN fetching ELSE <<Len(stored[of])>>
  BY DEF Rerender, Refetch
<1>2. /\ DOMAIN ss = DOMAIN sockets
      /\ \A c \in DOMAIN sockets :
           /\ ss[c] \in Socket /\ ss[c].down = sockets[c].down
           /\ ss[c].chain = sockets[c].chain
           /\ ss[c].state = IF c = wsRef THEN "CLOSING" ELSE sockets[c].state
  <2>1. \A c \in DOMAIN sockets : sockets[c] \in Socket
    BY DEF FeedInv, GoodSockets, GoodSocket
  <2>2. "CLOSING" \in SocketState
    BY DEF SocketState
  <2> QED
    BY <2>1, <2>2, SocketStateSet
<1> HIDE DEF ss
<1>3. GoodSockets(ss, broadcasts, chain)
  BY <1>2 DEF FeedInv, GoodSockets, GoodSocket
<1>4. Readers(ss, wsRef, chain, recentTrades)
  BY <1>2 DEF FeedInv, Readers
<1>5. \A c \in DOMAIN ss : ss[c].state # "CLOSING" => ss[c].chain # chain
  BY <1>2 DEF FeedInv, Readers
<1>6. chain \in Nat
  BY DEF FeedInv, PageTypes
<1>7. /\ GoodSockets(sockets', broadcasts, chain') /\ wsRef' \in Nat
      /\ chain' \in Nat \ {0} /\ GoodTape(recentTrades, broadcasts, chain')
      /\ Readers(sockets', wsRef', chain', recentTrades)
  BY <1>1, <1>3, <1>4, <1>5, <1>6, SocketOpens
<1>8. FetchInv'
  <2>1. Len(stored[of]) \in Nat
    BY LenProperties DEF FeedInv, FetchInv, GoodStore
  <2>2. CASE of = selectedSymbol
    BY <1>1, <2>2 DEF FeedInv, FetchInv
  <2>3. CASE of # selectedSymbol
    <3>1. Len(stored[of]) \in 0..Len(stored[of])
      BY <2>1
    <3> QED
      BY <1>1, <2>3, <3>1 DEF FeedInv, FetchInv
  <2> QED
    BY <2>2, <2>3
<1> QED
  BY <1>1, <1>7, <1>8 DEF FeedInv, PageTypes

\* One socket changes, and its queue to the page does not, nor does it become
\* one that the page may read.
SocketChanges(c, s) ==
  /\ c \in DOMAIN sockets
  /\ sockets' = [sockets EXCEPT ![c] = s]
  /\ s \in Socket /\ s.down = sockets[c].down /\ s.chain = sockets[c].chain
  /\ s.state = "CLOSING" \/ sockets[c].state # "CLOSING"

LEMMA SocketChanged ==
  ASSUME FeedInv, NEW c, NEW s, SocketChanges(c, s)
  PROVE  /\ GoodSockets(sockets', broadcasts, chain)
         /\ Readers(sockets', wsRef, chain, recentTrades)
<1>1. /\ DOMAIN sockets' = DOMAIN sockets /\ sockets'[c] = s
      /\ \A d \in DOMAIN sockets : d # c => sockets'[d] = sockets[d]
  BY DEF SocketChanges
<1>2. GoodSocket(s, broadcasts, chain)
  BY DEF SocketChanges, FeedInv, GoodSockets, GoodSocket
<1>3. GoodSockets(sockets', broadcasts, chain)
  BY <1>1, <1>2 DEF FeedInv, GoodSockets
<1>4. \A d \in DOMAIN sockets :
        /\ sockets'[d].down = sockets[d].down /\ sockets'[d].chain = sockets[d].chain
        /\ sockets'[d].state # "CLOSING" => sockets[d].state # "CLOSING"
  BY <1>1 DEF SocketChanges
<1>5. Readers(sockets', wsRef, chain, recentTrades)
  BY <1>1, <1>4 DEF FeedInv, Readers
<1> QED
  BY <1>3, <1>5

\* A step of one end of a socket.
LEMMA SocketStep ==
  ASSUME FeedInv, NEW c, NEW s, SocketChanges(c, s), GoodClients(clients'),
         wsRef' = wsRef, armed' \in BOOLEAN, unheld' \in Nat, userId' = userId,
         selectedSymbol' = selectedSymbol, UNCHANGED tapeVars, chain' = chain
  PROVE  FeedInv'
<1>1. /\ GoodSockets(sockets', broadcasts, chain)
      /\ Readers(sockets', wsRef, chain, recentTrades)
  BY SocketChanged
<1> QED
  BY <1>1 DEF FeedInv, PageTypes, FetchInv, tapeVars

LEMMA SocketIn ==
  ASSUME FeedInv, NEW c \in DOMAIN sockets
  PROVE  sockets[c] \in Socket
  BY DEF FeedInv, GoodSockets, GoodSocket

LEMMA OpenedStep ==
  ASSUME FeedInv, NEW c \in DOMAIN sockets, Opened(c)
  PROVE  FeedInv'
<1> DEFINE s == sockets[c]
           subscribe == [type |-> "subscribe", data |-> s.symbol]
           authenticate == [type |-> "authenticate", data |-> s.userId]
           up == (IF s.userId = "" THEN << >> ELSE <<authenticate>>) \o <<subscribe>>
           open == [s EXCEPT !.state = "OPEN"]
           t == [open EXCEPT !.up = up]
<1>1. s \in Socket /\ s.state = "CONNECTING"
  BY SocketIn DEF Opened
<1>2. up \in Seq(Sent)
  <2>1. subscribe \in Sent /\ authenticate \in Sent
    BY <1>1, SocketFields DEF Sent
  <2> HIDE DEF subscribe, authenticate
  <2>2. << >> \in Seq(Sent) /\ <<authenticate>> \in Seq(Sent) /\ <<subscribe>> \in Seq(Sent)
    BY <2>1, EmptySeq
  <2> QED
    BY <2>2, ConcatProperties
<1>3. /\ clients' = clients /\ wsRef' = wsRef /\ armed' = armed /\ unheld' = unheld
      /\ userId' = userId /\ selectedSymbol' = selectedSymbol
      /\ UNCHANGED tapeVars /\ chain' = chain
      /\ sockets' = [sockets EXCEPT ![c].state = "OPEN", ![c].up = up]
  BY DEF Opened, pageVars
<1> HIDE DEF up
<1>4. open \in Socket /\ open.state = "OPEN" /\ open.down = s.down
      /\ open.chain = s.chain
  BY <1>1, SocketStateSet DEF SocketState
<1>5. sockets' = [sockets EXCEPT ![c] = t]
  BY <1>3
<1> HIDE DEF open
<1>6. t \in Socket /\ t.state = "OPEN" /\ t.down = s.down
      /\ t.chain = s.chain
  BY <1>2, <1>4, SocketUpSet
<1> HIDE DEF t
<1>7. SocketChanges(c, t)
  BY <1>1, <1>5, <1>6 DEF SocketChanges
<1>8. GoodClients(clients') /\ armed' \in BOOLEAN /\ unheld' \in Nat
  BY <1>3 DEF FeedInv, PageTypes
<1> QED
  BY <1>3, <1>7, <1>8, SocketStep

LEMMA CutStep ==
  ASSUME FeedInv, NEW c \in DOMAIN sockets, Cut(c)
  PROVE  FeedInv'
<1> DEFINE t == [sockets[c] EXCEPT !.cut = TRUE]
<1>1. /\ clients' = clients /\ wsRef' = wsRef /\ armed' = armed /\ unheld' = unheld
      /\ userId' = userId /\ selectedSymbol' = selectedSymbol
      /\ UNCHANGED tapeVars /\ chain' = chain
      /\ sockets' = [sockets EXCEPT ![c] = t]
  BY DEF Cut, pageVars
<1>2. t \in Socket /\ t.state = sockets[c].state /\ t.down = sockets[c].down
      /\ t.chain = sockets[c].chain
  BY SocketIn, SocketCutSet
<1> HIDE DEF t
<1>3. SocketChanges(c, t)
  BY <1>1, <1>2 DEF SocketChanges
<1>4. GoodClients(clients') /\ armed' \in BOOLEAN /\ unheld' \in Nat
  BY <1>1 DEF FeedInv, PageTypes
<1> QED
  BY <1>1, <1>3, <1>4, SocketStep

\* onclose: the socket is gone, and the page may hold the handle of two timeouts.
LEMMA ClosedStep ==
  ASSUME FeedInv, NEW c \in DOMAIN sockets, Closed(c)
  PROVE  FeedInv'
<1>1. /\ clients' = clients /\ wsRef' = wsRef
      /\ userId' = userId /\ selectedSymbol' = selectedSymbol
      /\ UNCHANGED tapeVars /\ chain' = chain
      /\ armed' \in BOOLEAN /\ unheld' \in Nat
      /\ sockets' = Restrict(sockets, DOMAIN sockets \ {c})
  <2>1. unheld \in Nat /\ armed \in BOOLEAN
    BY DEF FeedInv, PageTypes
  <2>2. armed' = TRUE /\ unheld' = unheld + (IF armed THEN 1 ELSE 0)
    BY DEF Closed
  <2>3. unheld' \in Nat
    BY <2>1, <2>2
  <2> QED
    BY <2>2, <2>3 DEF Closed, pageVars
<1>2. /\ DOMAIN sockets' = DOMAIN sockets \ {c}
      /\ \A d \in DOMAIN sockets' : sockets'[d] = sockets[d]
  BY <1>1 DEF Restrict
<1>3. GoodSockets(sockets', broadcasts, chain)
  <2>1. IsFiniteSet(DOMAIN sockets')
    BY <1>2, FS_Subset DEF FeedInv, GoodSockets
  <2> QED
    BY <1>2, <2>1 DEF FeedInv, GoodSockets
<1>4. Readers(sockets', wsRef, chain, recentTrades)
  BY <1>2 DEF FeedInv, Readers
<1> QED
  BY <1>1, <1>3, <1>4 DEF FeedInv, PageTypes, FetchInv, tapeVars

LEMMA ServerReceivesStep ==
  ASSUME FeedInv, NEW c \in DOMAIN sockets, ServerReceives(c)
  PROVE  FeedInv'
<1> DEFINE msg == Head(sockets[c].up)
           rest == Tail(sockets[c].up)
           t == [sockets[c] EXCEPT !.up = rest]
           client == [userId |-> IF msg.type = "authenticate" THEN msg.data
                                 ELSE clients[c].userId,
                      subscribedSymbols |->
                        IF msg.type = "subscribe"
                        THEN clients[c].subscribedSymbols \cup {msg.data}
                        ELSE IF msg.type = "unsubscribe"
                        THEN clients[c].subscribedSymbols \ {msg.data}
                        ELSE clients[c].subscribedSymbols]
<1>1. /\ c \in DOMAIN clients /\ sockets[c].up # << >>
      /\ clients' = [clients EXCEPT ![c] = client]
      /\ wsRef' = wsRef /\ armed' = armed /\ unheld' = unheld
      /\ userId' = userId /\ selectedSymbol' = selectedSymbol
      /\ UNCHANGED tapeVars /\ chain' = chain
      /\ sockets' = [sockets EXCEPT ![c] = t]
  BY DEF ServerReceives, HandleClientMessage, pageVars
<1>2. sockets[c] \in Socket /\ sockets[c].up \in Seq(Sent)
  BY SocketIn, SocketFields
<1>3. msg \in Sent /\ rest \in Seq(Sent)
  BY <1>1, <1>2, HeadTailProperties
<1>4. client \in Client
  <2>1. /\ clients[c].userId \in Users \cup {""}
        /\ clients[c].subscribedSymbols \in SUBSET Symbols
    BY <1>1 DEF FeedInv, GoodClients, Client
  <2>2. \/ msg.type = "authenticate" /\ msg.data \in Users
        \/ msg.type = "subscribe" /\ msg.data \in Symbols
    BY <1>3 DEF Sent
  <2> HIDE DEF msg
  <2> QED
    BY <2>1, <2>2 DEF Client
<1>5. t \in Socket /\ t.state = sockets[c].state /\ t.down = sockets[c].down
      /\ t.chain = sockets[c].chain
  <2> HIDE DEF rest
  <2> QED
    BY <1>2, <1>3, SocketUpSet
<1> HIDE DEF t, client
<1>6. GoodClients(clients')
  BY <1>1, <1>4 DEF FeedInv, GoodClients
<1>7. SocketChanges(c, t)
  BY <1>1, <1>5 DEF SocketChanges
<1>8. armed' \in BOOLEAN /\ unheld' \in Nat
  BY <1>1 DEF FeedInv, PageTypes
<1> QED
  BY <1>1, <1>6, <1>7, <1>8, SocketStep

\* The clients alone change.
LEMMA ClientsStep ==
  ASSUME FeedInv, GoodClients(clients'), UNCHANGED <<hookVars, pageVars, tapeVars>>
  PROVE  FeedInv'
  BY DEF FeedInv, PageTypes, FetchInv, hookVars, pageVars, tapeVars

LEMMA AcceptStep ==
  ASSUME FeedInv, NEW c \in DOMAIN sockets, Accept(c)
  PROVE  FeedInv'
<1> DEFINE new == [userId |-> "", subscribedSymbols |-> {}]
<1>1. /\ clients' = [x \in DOMAIN clients \cup {c} |-> IF x = c THEN new ELSE clients[x]]
      /\ UNCHANGED <<hookVars, pageVars, tapeVars>>
  BY DEF Accept, Connection
<1>2. new \in Client
  BY DEF Client
<1> HIDE DEF new
<1>3. IsFiniteSet(DOMAIN clients')
  BY <1>1, FS_AddElement DEF FeedInv, GoodClients
<1>4. GoodClients(clients')
  BY <1>1, <1>2, <1>3 DEF FeedInv, GoodClients
<1> QED
  BY <1>1, <1>4, ClientsStep

LEMMA ServerSeesCloseStep ==
  ASSUME FeedInv, NEW c \in DOMAIN clients, ServerSeesClose(c)
  PROVE  FeedInv'
<1>1. /\ clients' = Restrict(clients, DOMAIN clients \ {c})
      /\ UNCHANGED <<hookVars, pageVars, tapeVars>>
  BY DEF ServerSeesClose, Disconnection
<1>2. /\ DOMAIN clients' = DOMAIN clients \ {c}
      /\ \A d \in DOMAIN clients' : clients'[d] = clients[d]
  BY <1>1 DEF Restrict
<1>3. IsFiniteSet(DOMAIN clients')
  BY <1>2, FS_Subset DEF FeedInv, GoodClients
<1>4. GoodClients(clients')
  BY <1>2, <1>3 DEF FeedInv, GoodClients
<1> QED
  BY <1>1, <1>4, ClientsStep

\* The number of a broadcast is new to every sequence of numbers.
LEMMA NumberAdded ==
  ASSUME NEW b \in Nat, NEW n \in Nat, n = b + 1, NEW q \in Seq(Nat), Known(q, b)
  PROVE  /\ Known(q, n) /\ Append(q, n) \in Seq(Nat) /\ Known(Append(q, n), n)
         /\ Len(Append(q, n)) = Len(q) + 1
         /\ Distinct(q) => Distinct(Append(q, n))
         /\ \A i \in 1..Len(Append(q, n)) :
              Append(q, n)[i] = n \/ (i \in 1..Len(q) /\ Append(q, n)[i] = q[i])
<1> DEFINE u == Append(q, n)
<1>1. Len(q) \in Nat /\ \A i \in 1..Len(q) : q[i] \in 1..b
  BY LenProperties DEF Known
<1>2. /\ u \in Seq(Nat) /\ Len(u) = Len(q) + 1 /\ u[Len(q) + 1] = n
      /\ \A i \in 1..Len(q) : u[i] = q[i]
  BY AppendProperties
<1> HIDE DEF u
<1>3. \A i \in 1..Len(u) : u[i] = n \/ (i \in 1..Len(q) /\ u[i] = q[i])
  BY <1>1, <1>2
<1>4. Known(q, n) /\ Known(u, n)
  BY <1>1, <1>3 DEF Known
<1>5. ASSUME Distinct(q) PROVE Distinct(u)
  <2> SUFFICES ASSUME NEW i \in 1..Len(u), NEW j \in 1..Len(u), u[i] = u[j] PROVE i = j
    BY DEF Distinct
  <2>1. (i \in 1..Len(q) \/ i = Len(q) + 1) /\ (j \in 1..Len(q) \/ j = Len(q) + 1)
    BY <1>1, <1>2
  <2>2. \A k \in 1..Len(q) : u[k] # n
    BY <1>1, <1>2
  <2> QED
    BY <1>2, <1>5, <2>1, <2>2 DEF Distinct
<1> QED
  BY <1>2, <1>3, <1>4, <1>5 DEF u

\* A broadcast has a number that no queue, no tape and no store has.
LEMMA BroadcastStep ==
  ASSUME FeedInv, NEW of \in Symbols, Broadcast(of),
         \/ stored' = stored
         \/ stored' = [stored EXCEPT ![of] = Append(stored[of], broadcasts + 1)]
  PROVE  FeedInv'
<1>1. PICK b \in Nat, n \in Nat : b = broadcasts /\ n = b + 1
  BY DEF FeedInv, PageTypes
<1>2. /\ broadcasts' = n
      /\ sockets' = [c \in DOMAIN sockets |->
           IF c \in Recipients(of)
           THEN [sockets[c] EXCEPT !.down = Append(sockets[c].down, n)]
           ELSE sockets[c]]
      /\ clients' = clients /\ wsRef' = wsRef /\ armed' = armed /\ unheld' = unheld
      /\ userId' = userId /\ selectedSymbol' = selectedSymbol
      /\ recentTrades' = recentTrades /\ chain' = chain /\ fetching' = fetching
  BY <1>1 DEF Broadcast, pageVars
<1>3. ASSUME NEW c \in DOMAIN sockets
      PROVE  /\ sockets[c].down \in Seq(Nat) /\ Known(sockets[c].down, b)
             /\ sockets'[c] \in Socket /\ sockets'[c].state = sockets[c].state
             /\ sockets'[c].chain = sockets[c].chain
             /\ \/ sockets'[c].down = sockets[c].down
                \/ sockets'[c].down = Append(sockets[c].down, n)
  <2>1. /\ sockets[c] \in Socket /\ sockets[c].down \in Seq(Nat)
        /\ Known(sockets[c].down, b)
    BY <1>1, SocketFields DEF FeedInv, GoodSockets, GoodSocket
  <2>2. Append(sockets[c].down, n) \in Seq(Nat)
    BY <2>1, AppendProperties
  <2> QED
    BY <1>2, <2>1, <2>2, SocketDownSet
<1>4. DOMAIN sockets' = DOMAIN sockets
  BY <1>2
<1>5. ASSUME NEW c \in DOMAIN sockets
      PROVE  /\ Known(sockets'[c].down, n)
             /\ Distinct(sockets[c].down) => Distinct(sockets'[c].down)
             /\ \A i \in 1..Len(sockets'[c].down) :
                  \/ sockets'[c].down[i] = n
                  \/ i \in 1..Len(sockets[c].down) /\ sockets'[c].down[i] = sockets[c].down[i]
  <2>1. PICK q \in Seq(Nat) : q = sockets[c].down /\ Known(q, b)
    BY <1>3
  <2>2. /\ Known(q, n) /\ Known(Append(q, n), n)
        /\ Distinct(q) => Distinct(Append(q, n))
        /\ \A i \in 1..Len(Append(q, n)) :
             Append(q, n)[i] = n \/ (i \in 1..Len(q) /\ Append(q, n)[i] = q[i])
    BY <1>1, <2>1, NumberAdded
  <2>3. sockets'[c].down = q \/ sockets'[c].down = Append(q, n)
    BY <1>3, <2>1
  <2> QED
    BY <2>1, <2>2, <2>3
<1>6. GoodSockets(sockets', n, chain)
  BY <1>3, <1>4, <1>5 DEF FeedInv, GoodSockets, GoodSocket
<1>7. \A i \in 1..b : i \in 1..n /\ i # n
  BY <1>1
<1>8. GoodTape(recentTrades, n, chain)
  BY <1>1, <1>7 DEF FeedInv, GoodTape
<1>9. \A j \in 1..Len(recentTrades) : recentTrades[j].n # n
  BY <1>1, <1>7 DEF FeedInv, GoodTape
<1>10. Readers(sockets', wsRef, chain, recentTrades)
  <2>1. ASSUME NEW c \in DOMAIN sockets, sockets[c].state # "CLOSING"
        PROVE  /\ sockets[c].chain = chain => c = wsRef
               /\ Distinct(sockets'[c].down)
               /\ NewTo(sockets'[c].down, recentTrades, sockets[c].chain)
    <3>1. /\ sockets[c].chain = chain => c = wsRef
          /\ Distinct(sockets[c].down)
          /\ NewTo(sockets[c].down, recentTrades, sockets[c].chain)
      BY <2>1 DEF FeedInv, Readers
    <3>2. NewTo(sockets'[c].down, recentTrades, sockets[c].chain)
      BY <1>5, <1>9, <3>1 DEF NewTo
    <3> QED
      BY <1>5, <3>1, <3>2
  <2>2. ASSUME NEW c \in DOMAIN sockets, NEW d \in DOMAIN sockets,
               sockets[c].state # "CLOSING", sockets[d].state # "CLOSING",
               sockets[c].chain = sockets[d].chain
        PROVE  c = d
    BY <2>2 DEF FeedInv, Readers
  <2> QED
    BY <1>3, <1>4, <2>1, <2>2 DEF Readers
<1>11. FetchInv'
  <2>1. /\ \A s \in Symbols : stored[s] \in Seq(Nat) /\ Known(stored[s], b) /\ Distinct(stored[s])
        /\ DOMAIN stored = Symbols /\ selectedSymbol \in Symbols
    BY <1>1 DEF FeedInv, FetchInv, GoodStore, PageTypes
  <2>2. ASSUME NEW s \in Symbols
        PROVE  GoodStore(stored'[s], n) /\ Len(stored'[s]) >= Len(stored[s])
               /\ Len(stored[s]) \in Nat /\ Len(stored'[s]) \in Nat
    <3>1. PICK q \in Seq(Nat) : q = stored[s] /\ Known(q, b) /\ Distinct(q)
      BY <2>1
    <3>2. /\ Known(q, n) /\ Append(q, n) \in Seq(Nat) /\ Known(Append(q, n), n)
          /\ Len(Append(q, n)) = Len(q) + 1 /\ Distinct(Append(q, n)) /\ Len(q) \in Nat
      BY <1>1, <3>1, NumberAdded, LenProperties
    <3>3. stored'[s] = q \/ stored'[s] = Append(q, n)
      BY <1>1, <2>1, <3>1
    <3>4. Len(q) + 1 >= Len(q) /\ Len(q) + 1 \in Nat
      BY <3>2
    <3>5. CASE stored'[s] = q
      BY <3>1, <3>2, <3>5 DEF GoodStore
    <3>6. CASE stored'[s] = Append(q, n)
      BY <3>1, <3>2, <3>4, <3>6 DEF GoodStore
    <3> QED
      BY <3>3, <3>5, <3>6
  <2>3. DOMAIN stored' = Symbols
    BY <2>1
  <2>4. fetching = << >> \/ \E m \in 0..Len(stored'[selectedSymbol]) : fetching = <<m>>
    <3>1. \A m \in 0..Len(stored[selectedSymbol]) : m \in 0..Len(stored'[selectedSymbol])
      BY <2>1, <2>2
    <3> QED
      BY <3>1 DEF FeedInv, FetchInv
  <2> QED
    BY <1>2, <2>2, <2>3, <2>4 DEF FetchInv
<1> QED
  BY <1>2, <1>6, <1>8, <1>10, <1>11 DEF FeedInv, PageTypes

\* What is left of a queue when its first message is delivered.
LEMMA RestOfQueue ==
  ASSUME NEW q \in Seq(Nat), q # << >>
  PROVE  /\ Head(q) = q[1] /\ 1 \in 1..Len(q) /\ Head(q) \in Nat
         /\ Tail(q) \in Seq(Nat) /\ Len(q) = Len(Tail(q)) + 1 /\ Len(Tail(q)) \in Nat
         /\ \A i \in 1..Len(Tail(q)) : Tail(q)[i] = q[i + 1] /\ i + 1 \in 1..Len(q)
<1>1. Len(q) \in Nat /\ Len(q) # 0
  BY EmptySeq, LenProperties
<1>2. /\ Head(q) \in Nat /\ Tail(q) \in Seq(Nat) /\ Len(Tail(q)) = Len(q) - 1
      /\ \A i \in 1..Len(Tail(q)) : Tail(q)[i] = q[i + 1]
  BY <1>1, HeadTailProperties
<1>3. Head(q) = q[1]
  BY <1>1
<1> QED
  BY <1>1, <1>2, <1>3

\* addTrade: the new trade first, then as much of the old tape as fits.
LEMMA TapeAfter ==
  ASSUME recentTrades \in Seq(Shown), Len(recentTrades) <= TapeLength, NEW x \in Shown,
         AddTrade(x)
  PROVE  /\ recentTrades' \in Seq(Shown) /\ Len(recentTrades') <= TapeLength
         /\ Len(recentTrades') \in Nat
         /\ \A i \in 1..Len(recentTrades') :
              \/ i = 1 /\ recentTrades'[i] = x
              \/ i - 1 \in 1..Len(recentTrades) /\ recentTrades'[i] = recentTrades[i - 1]
<1> DEFINE old == recentTrades
           list == <<x>> \o old
           new == IF Len(list) > TapeLength THEN SubSeq(list, 1, TapeLength) ELSE list
<1>1. old \in Seq(Shown) /\ Len(old) \in Nat /\ Len(old) <= TapeLength
      /\ TapeLength \in Nat /\ TapeLength >= 1
  <2>1. TapeLength \in Nat \ {0}
    BY FeedAssumption
  <2>2. TapeLength \in Nat /\ TapeLength >= 1
    BY <2>1
  <2> QED
    BY <2>2, LenProperties
<1>2. recentTrades' = new
  BY DEF AddTrade
<1>3. /\ list \in Seq(Shown) /\ Len(list) = Len(old) + 1
      /\ \A i \in 1..Len(list) : list[i] = IF i = 1 THEN x ELSE old[i - 1]
  <2> HIDE DEF old
  <2>1. <<x>> \in Seq(Shown) /\ Len(<<x>>) = 1 /\ <<x>>[1] = x
    OBVIOUS
  <2>2. /\ list \in Seq(Shown) /\ Len(list) = 1 + Len(old)
        /\ \A i \in 1..Len(list) : list[i] = IF i <= 1 THEN <<x>>[i] ELSE old[i - 1]
    BY <1>1, <2>1, ConcatProperties
  <2>3. \A i \in 1..Len(list) : (i <= 1) <=> (i = 1)
    BY <1>1, <2>2
  <2> QED
    BY <1>1, <2>1, <2>2, <2>3
<1> HIDE DEF old, list
<1>4. /\ new \in Seq(Shown) /\ Len(new) <= TapeLength /\ Len(new) <= Len(list)
      /\ \A i \in 1..Len(new) : i \in 1..Len(list) /\ new[i] = list[i]
  <2>1. CASE Len(list) > TapeLength
    <3>1. /\ SubSeq(list, 1, TapeLength) \in Seq(Shown)
          /\ Len(SubSeq(list, 1, TapeLength)) = TapeLength
          /\ \A i \in 1..TapeLength : SubSeq(list, 1, TapeLength)[i] = list[i]
      BY <1>1, <1>3, <2>1, SubSeqProperties, ElementOfSeq
    <3> QED
      BY <1>1, <1>3, <2>1, <3>1
  <2>2. CASE ~ (Len(list) > TapeLength)
    BY <1>1, <1>3, <2>2
  <2> QED
    BY <2>1, <2>2
<1> HIDE DEF new
<1>5. Len(new) \in Nat
  BY <1>4, LenProperties
<1>6. \A i \in 1..Len(new) : \/ i = 1 /\ new[i] = x
                             \/ i - 1 \in 1..Len(old) /\ new[i] = old[i - 1]
  BY <1>1, <1>3, <1>4, <1>5
<1> QED
  BY <1>2, <1>4, <1>5, <1>6 DEF old

\* A socket that the page reads delivers a trade that is new to the tape, and what is
\* still to come, there and at other sockets, stays new.
LEMMA TapeGrows ==
  ASSUME NEW n \in Nat, NEW k \in Nat, GoodTape(recentTrades, n, k),
         NEW q \in Seq(Nat), q # << >>, Known(q, n), Distinct(q),
         NEW ch \in 1..k, NewTo(q, recentTrades, ch),
         AddTrade([n |-> Head(q), chain |-> ch])
  PROVE  /\ GoodTape(recentTrades', n, k)
         /\ Distinct(Tail(q)) /\ NewTo(Tail(q), recentTrades', ch)
         /\ \A s, h : NewTo(s, recentTrades, h) /\ h # ch => NewTo(s, recentTrades', h)
<1>1. /\ Head(q) = q[1] /\ 1 \in 1..Len(q) /\ Head(q) \in Nat /\ Len(Tail(q)) \in Nat
      /\ \A i \in 1..Len(Tail(q)) : Tail(q)[i] = q[i + 1] /\ i + 1 \in 1..Len(q)
  BY RestOfQueue
<1>2. PICK x \in Shown : x = [n |-> Head(q), chain |-> ch] /\ x.n = q[1] /\ x.chain = ch
  BY <1>1 DEF Shown
<1>3. q[1] \in 1..n
  BY <1>1 DEF Known
<1>4. PICK old \in Seq(Shown) : /\ old = recentTrades /\ Len(old) <= TapeLength
                                /\ Distinct(old) /\ Len(old) \in Nat
                                /\ \A i \in 1..Len(old) : /\ old[i].n \in 1..n
                                                          /\ old[i].chain \in 0..k
  BY LenProperties DEF GoodTape
<1>5. /\ recentTrades' \in Seq(Shown) /\ Len(recentTrades') <= TapeLength
      /\ Len(recentTrades') \in Nat
      /\ \A i \in 1..Len(recentTrades') :
           \/ i = 1 /\ recentTrades'[i] = x
           \/ i - 1 \in 1..Len(old) /\ recentTrades'[i] = old[i - 1]
  <2>1. AddTrade(x)
    BY <1>2
  <2> QED
    BY <1>4, <2>1, TapeAfter
<1> DEFINE new == recentTrades'
<1> HIDE DEF new
<1>6. \A i \in 1..Len(old) : old[i] # x
  BY <1>1, <1>2, <1>4 DEF NewTo
<1>7. Distinct(new)
  <2> SUFFICES ASSUME NEW i \in 1..Len(new), NEW j \in 1..Len(new), new[i] = new[j]
               PROVE  i = j
    BY DEF Distinct
  <2>1. /\ \/ i = 1 /\ new[i] = x
           \/ i - 1 \in 1..Len(old) /\ new[i] = old[i - 1]
        /\ \/ j = 1 /\ new[j] = x
           \/ j - 1 \in 1..Len(old) /\ new[j] = old[j - 1]
    BY <1>5 DEF new
  <2>2. CASE i - 1 \in 1..Len(old) /\ new[i] = old[i - 1]
             /\ j - 1 \in 1..Len(old) /\ new[j] = old[j - 1]
    <3>1. i - 1 = j - 1
      BY <1>4, <2>2 DEF Distinct
    <3>2. i \in Int /\ j \in Int
      OBVIOUS
    <3> QED
      BY <3>1, <3>2
  <2> QED
    BY <1>6, <2>1, <2>2
<1>8. \A i \in 1..Len(new) : new[i].n \in 1..n /\ new[i].chain \in 0..k
  <2>1. x.n \in 1..n /\ x.chain \in 0..k
    BY <1>2, <1>3
  <2> QED
    BY <1>4, <1>5, <2>1 DEF new
<1>9. GoodTape(new, n, k)
  BY <1>5, <1>7, <1>8 DEF GoodTape, new
<1>10. Distinct(Tail(q))
  <2> SUFFICES ASSUME NEW i \in 1..Len(Tail(q)), NEW j \in 1..Len(Tail(q)),
                      Tail(q)[i] = Tail(q)[j]
               PROVE  i = j
    BY DEF Distinct
  <2>1. i + 1 = j + 1
    BY <1>1 DEF Distinct
  <2>2. i \in Int /\ j \in Int
    OBVIOUS
  <2> QED
    BY <2>1, <2>2
<1>11. NewTo(Tail(q), new, ch)
  <2> SUFFICES ASSUME NEW i \in 1..Len(Tail(q)), NEW j \in 1..Len(new)
               PROVE  new[j] # [n |-> Tail(q)[i], chain |-> ch]
    BY DEF NewTo
  <2>1. Tail(q)[i] = q[i + 1] /\ i + 1 \in 1..Len(q) /\ i + 1 # 1
    BY <1>1
  <2>2. CASE new[j] = x
    <3>1. q[i + 1] # q[1]
      BY <1>1, <2>1 DEF Distinct
    <3> QED
      BY <1>2, <2>1, <2>2, <3>1
  <2>3. CASE j - 1 \in 1..Len(old) /\ new[j] = old[j - 1]
    BY <1>4, <2>1, <2>3 DEF NewTo
  <2> QED
    BY <1>5, <2>2, <2>3 DEF new
<1>12. ASSUME NEW s, NEW h, NewTo(s, recentTrades, h), h # ch PROVE NewTo(s, new, h)
  <2> SUFFICES ASSUME NEW i \in 1..Len(s), NEW j \in 1..Len(new)
               PROVE  new[j] # [n |-> s[i], chain |-> h]
    BY DEF NewTo
  <2>1. CASE new[j] = x
    BY <1>2, <1>12, <2>1
  <2>2. CASE j - 1 \in 1..Len(old) /\ new[j] = old[j - 1]
    BY <1>4, <1>12, <2>2 DEF NewTo
  <2> QED
    BY <1>5, <2>1, <2>2 DEF new
<1> QED
  BY <1>9, <1>10, <1>11, <1>12 DEF new

LEMMA PageReceivesStep ==
  ASSUME FeedInv, NEW c \in DOMAIN sockets, PageReceives(c)
  PROVE  FeedInv'
<1>1. /\ sockets[c] \in Socket /\ sockets[c].down \in Seq(Nat)
      /\ Known(sockets[c].down, broadcasts) /\ sockets[c].chain \in 1..chain
  BY SocketIn, SocketFields DEF FeedInv, GoodSockets, GoodSocket
<1>2. PICK q \in Seq(Nat), ch \in 1..chain : q = sockets[c].down /\ ch = sockets[c].chain
  BY <1>1
<1>3. PICK n \in Nat, k \in Nat : n = broadcasts /\ k = chain
  BY DEF FeedInv, PageTypes
<1> DEFINE t == [sockets[c] EXCEPT !.down = Tail(q)]
<1>4. /\ q # << >> /\ sockets' = [sockets EXCEPT ![c] = t]
      /\ clients' = clients /\ wsRef' = wsRef /\ armed' = armed /\ unheld' = unheld
      /\ userId' = userId /\ selectedSymbol' = selectedSymbol /\ chain' = chain
      /\ broadcasts' = broadcasts /\ fetching' = fetching /\ stored' = stored
  BY <1>2 DEF PageReceives, pageVars
<1>5. /\ Tail(q) \in Seq(Nat) /\ Len(Tail(q)) \in Nat
      /\ \A i \in 1..Len(Tail(q)) : Tail(q)[i] = q[i + 1] /\ i + 1 \in 1..Len(q)
  BY <1>4, RestOfQueue
<1>6. Known(q, n) /\ Known(Tail(q), n)
  BY <1>1, <1>2, <1>3, <1>5 DEF Known
<1>7. t \in Socket /\ t.state = sockets[c].state /\ t.down = Tail(q) /\ t.chain = ch
  BY <1>1, <1>2, <1>5, SocketDownSet
<1>8. sockets[c].state = "OPEN" => AddTrade([n |-> Head(q), chain |-> ch])
  BY <1>2 DEF PageReceives
<1>9. sockets[c].state # "OPEN" => recentTrades' = recentTrades
  BY DEF PageReceives
<1> HIDE DEF t
<1>10. /\ DOMAIN sockets' = DOMAIN sockets /\ sockets'[c] = t
       /\ \A d \in DOMAIN sockets : d # c => sockets'[d] = sockets[d]
  BY <1>4
<1>11. GoodSockets(sockets', broadcasts, chain)
  <2>1. GoodSocket(t, broadcasts, chain)
    BY <1>2, <1>3, <1>6, <1>7 DEF GoodSocket
  <2> QED
    BY <1>10, <2>1 DEF FeedInv, GoodSockets
<1>12. GoodTape(recentTrades, n, k) /\ Readers(sockets, wsRef, chain, recentTrades)
  BY <1>3 DEF FeedInv
<1>13. \A d \in DOMAIN sockets : /\ sockets'[d].state = sockets[d].state
                                 /\ sockets'[d].chain = sockets[d].chain
  BY <1>2, <1>7, <1>10
<1>14. CASE sockets[c].state = "OPEN"
  <2>1. Distinct(q) /\ NewTo(q, recentTrades, ch)
    BY <1>2, <1>12, <1>14 DEF Readers
  <2>2. ch \in 1..k
    BY <1>3
  <2>3. /\ GoodTape(recentTrades', n, k)
        /\ Distinct(Tail(q)) /\ NewTo(Tail(q), recentTrades', ch)
        /\ \A s, h : NewTo(s, recentTrades, h) /\ h # ch => NewTo(s, recentTrades', h)
    BY <1>4, <1>6, <1>8, <1>12, <1>14, <2>1, <2>2, TapeGrows
  <2>4. ASSUME NEW d \in DOMAIN sockets, sockets[d].state # "CLOSING"
        PROVE  /\ sockets[d].chain = chain => d = wsRef
               /\ Distinct(sockets'[d].down)
               /\ NewTo(sockets'[d].down, recentTrades', sockets[d].chain)
    <3>1. CASE d = c
      BY <1>2, <1>7, <1>10, <1>12, <2>3, <2>4, <3>1 DEF Readers
    <3>2. CASE d # c
      <4>1. sockets[d].chain # ch
        BY <1>2, <1>12, <1>14, <2>4, <3>2 DEF Readers
      <4> QED
        BY <1>10, <1>12, <2>3, <2>4, <3>2, <4>1 DEF Readers
    <3> QED
      BY <3>1, <3>2
  <2>5. ASSUME NEW d \in DOMAIN sockets, NEW e \in DOMAIN sockets,
               sockets[d].state # "CLOSING", sockets[e].state # "CLOSING",
               sockets[d].chain = sockets[e].chain
        PROVE  d = e
    BY <1>12, <2>5 DEF Readers
  <2>6. Readers(sockets', wsRef, chain, recentTrades')
    BY <1>10, <1>13, <2>4, <2>5 DEF Readers
  <2> QED
    BY <1>3, <1>4, <1>11, <2>3, <2>6 DEF FeedInv, PageTypes, FetchInv
<1>15. CASE sockets[c].state # "OPEN"
  <2>1. recentTrades' = recentTrades
    BY <1>9, <1>15
  <2>2. ASSUME Distinct(q) PROVE Distinct(Tail(q))
    <3> SUFFICES ASSUME NEW i \in 1..Len(Tail(q)), NEW j \in 1..Len(Tail(q)),
                        Tail(q)[i] = Tail(q)[j]
                 PROVE  i = j
      BY DEF Distinct
    <3>1. i + 1 = j + 1
      BY <1>5, <2>2 DEF Distinct
    <3>2. i \in Int /\ j \in Int
      OBVIOUS
    <3> QED
      BY <3>1, <3>2
  <2>3. NewTo(q, recentTrades, ch) => NewTo(Tail(q), recentTrades, ch)
    BY <1>5 DEF NewTo
  <2>4. Readers(sockets', wsRef, chain, recentTrades)
    BY <1>2, <1>7, <1>10, <1>12, <1>13, <2>2, <2>3 DEF Readers
  <2> QED
    BY <1>4, <1>11, <2>1, <2>4 DEF FeedInv, PageTypes, FetchInv
<1> QED
  BY <1>14, <1>15

\* setTrades: the tape is what the fetch returned, over no chain.
LEMMA FetchReturnsStep ==
  ASSUME FeedInv, FetchReturns
  PROVE  FeedInv'
<1>1. /\ UNCHANGED <<clients, hookVars, pageVars, stored, broadcasts>>
      /\ fetching' = << >> /\ fetching # << >>
  BY DEF FetchReturns, None
<1>2. CASE recentTrades' = recentTrades
  BY <1>1, <1>2 DEF FeedInv, PageTypes, FetchInv, hookVars, pageVars
<1>3. CASE \E m \in fetching[1]..Len(stored[selectedSymbol]) :
             SetTrades(Rows(selectedSymbol, m))
  <2>1. PICK list \in Seq(Nat), n \in Nat :
          /\ list = stored[selectedSymbol] /\ n = broadcasts
          /\ Known(list, n) /\ Distinct(list) /\ Len(list) \in Nat
    BY LenProperties DEF FeedInv, FetchInv, PageTypes, GoodStore
  <2>2. PICK m \in fetching[1]..Len(list) : SetTrades(Rows(selectedSymbol, m))
    BY <1>3, <2>1
  <2>3. m \in 0..Len(list)
    <3>1. PICK f \in 0..Len(list) : fetching = <<f>>
      BY <1>1, <2>1 DEF FeedInv, FetchInv
    <3>2. fetching[1] = f
      BY <3>1
    <3> QED
      BY <2>1, <2>2, <3>2
  <2>4. TapeLength \in Nat
    BY FeedAssumption
  <2>5. PICK z \in Nat : z = (IF m < TapeLength THEN m ELSE TapeLength)
    BY <2>3, <2>4
  <2>6. z <= m /\ z <= TapeLength /\ m \in Nat /\ m <= Len(list)
    BY <2>1, <2>3, <2>4, <2>5
  <2> DEFINE at(i) == list[m + 1 - i]
             new == [i \in 1..z |-> [n |-> at(i), chain |-> 0]]
  <2>7. recentTrades' = new
    <3>1. Rows(selectedSymbol, m) = [i \in 1..z |-> at(i)]
      BY <2>1, <2>5 DEF Rows
    <3> QED
      BY <2>2, <3>1 DEF SetTrades, Fetched
  <2>8. \A i \in 1..z : m + 1 - i \in 1..Len(list) /\ at(i) \in 1..n /\ at(i) \in Nat
    <3>1. \A i \in 1..z : m + 1 - i \in 1..Len(list)
      BY <2>1, <2>6
    <3>2. \A j \in 1..Len(list) : list[j] \in 1..n /\ list[j] \in Nat
      BY <2>1, ElementOfSeq DEF Known
    <3> QED
      BY <3>1, <3>2
  <2>9. \A i, j \in 1..z : at(i) = at(j) => i = j
    <3> SUFFICES ASSUME NEW i \in 1..z, NEW j \in 1..z, at(i) = at(j) PROVE i = j
      OBVIOUS
    <3>1. m + 1 - i = m + 1 - j
      BY <2>1, <2>8 DEF Distinct
    <3> QED
      BY <2>6, <3>1
  <2> HIDE DEF at
  <2>10. /\ new \in Seq(Shown) /\ Len(new) = z
         /\ \A i \in 1..z : /\ new[i] = [n |-> at(i), chain |-> 0]
                            /\ new[i].n = at(i) /\ new[i].chain = 0
    <3>1. \A i \in 1..z : [n |-> at(i), chain |-> 0] \in Shown
      BY <2>8 DEF Shown
    <3> QED
      BY <2>6, <3>1
  <2> HIDE DEF new
  <2>11. Distinct(new)
    BY <2>9, <2>10 DEF Distinct
  <2>12. chain \in Nat /\ 0 \in 0..chain
    BY DEF FeedInv, PageTypes
  <2>13. GoodTape(recentTrades', broadcasts, chain)
    BY <2>1, <2>6, <2>7, <2>8, <2>10, <2>11, <2>12 DEF GoodTape
  <2>14. ASSUME NEW s, NEW h, h # 0 PROVE NewTo(s, new, h)
    BY <2>10, <2>14 DEF NewTo
  <2>15. Readers(sockets, wsRef, chain, new)
    <3>1. \A c \in DOMAIN sockets : sockets[c].chain # 0
      BY DEF FeedInv, GoodSockets, GoodSocket
    <3> QED
      BY <2>14, <3>1 DEF FeedInv, Readers
  <2> QED
    BY <1>1, <2>7, <2>13, <2>15 DEF FeedInv, PageTypes, FetchInv, hookVars, pageVars
<1> QED
  BY <1>2, <1>3 DEF FetchReturns

-----------------------------------------------------------------------------
(***************************************************************************)
(* The feed as a whole.                                                    *)
(***************************************************************************)
ReplayGood == ReplayInv /\ Unrepeated

LEMMA ReplayKept ==
  ASSUME ReplayGood, UNCHANGED replayVars
  PROVE  ReplayGood'
<1>1. ReplayInv'
  BY DEF ReplayGood, ReplayInv, SessionTypes, LastStartOnly, InOrder, replayVars,
         sessionVars, timerVars, historyVars
<1>2. Unrepeated'
  BY DEF ReplayGood, Unrepeated, replayVars, sessionVars, timerVars, historyVars
<1> QED
  BY <1>1, <1>2 DEF ReplayGood

LEMMA FeedKept ==
  ASSUME FeedInv, UNCHANGED <<clients, hookVars, pageVars, tapeVars>>
  PROVE  FeedInv'
<1>1. GoodClients(clients')
  BY DEF FeedInv
<1> QED
  BY <1>1, ClientsStep

LEMMA FeedInitially ==
  ASSUME Init
  PROVE  ReplayGood /\ FeedInv
<1>1. << >> \in Seq(ReplayTrade) /\ Len(<< >>) = 0 /\ SubSeq(<< >>, 1, 0) = << >>
  BY EmptyFirst
<1>2. << >> \in Seq(StartCall) /\ << >> \in Seq(Nat)
  BY EmptySeq
<1>3. ReplayInv
  <2>1. /\ active = FALSE /\ paused = FALSE /\ symbol = DefaultSymbol /\ speed = 1
        /\ trades = << >> /\ currentIndex = 0 /\ timer = << >> /\ strays = << >>
        /\ starting = << >> /\ replayed = << >> /\ overtaken = FALSE /\ session = 0
    BY DEF Init, ReplayInit, None
  <2>2. SessionTypes
    <3>1. DefaultSymbol \in Symbols
      BY ReplayAssumption
    <3>2. active \in BOOLEAN /\ paused \in BOOLEAN /\ overtaken \in BOOLEAN
      BY <2>1
    <3>3. speed \in Int /\ currentIndex \in Nat /\ symbol \in Symbols /\ session \in Nat
      BY <2>1, <3>1
    <3>4. /\ trades \in Seq(ReplayTrade) /\ replayed \in Seq(ReplayTrade)
          /\ strays \in Seq(ReplayTrade) /\ timer \in Seq(ReplayTrade)
          /\ starting \in Seq(StartCall)
      BY <1>1, <1>2, <2>1
    <3> QED
      BY <3>2, <3>3, <3>4 DEF SessionTypes
  <2>3. LastStartOnly
    BY <1>1, <2>1 DEF LastStartOnly
  <2>4. InOrder
    BY <1>1, <2>1 DEF InOrder, None
  <2> QED
    BY <2>2, <2>3, <2>4 DEF ReplayInv
<1>4. FeedInv
  <2> DEFINE new == NewSocket("", DefaultSymbol, 1)
  <2>1. /\ clients = << >> /\ wsRef = 1 /\ armed = FALSE /\ unheld = 0
        /\ selectedSymbol = DefaultSymbol /\ broadcasts = 0 /\ chain = 1
        /\ sockets = [c \in {1} |-> new] /\ recentTrades = << >>
        /\ fetching = <<0>> /\ stored = [s \in Symbols |-> << >>]
    BY DEF Init
  <2>2. "" \in Users /\ userId \in Users
    BY FeedAssumption DEF Init
  <2>3. /\ DefaultSymbol \in Symbols /\ TapeLength \in Nat
    BY FeedAssumption, ReplayAssumption
  <2>4. new \in Socket /\ new.down = << >> /\ new.chain = 1
    <3>1. 1 \in Nat
      OBVIOUS
    <3> QED
      BY <2>2, <2>3, <3>1, NewSocketType
  <2> HIDE DEF new
  <2>5. PageTypes
    <3>1. 1 \in Nat \ {0} /\ 0 \in Nat /\ FALSE \in BOOLEAN /\ 1 \in Nat
      OBVIOUS
    <3>2. userId \in Users
      BY <2>2
    <3>3. chain \in Nat \ {0} /\ broadcasts \in Nat /\ unheld \in Nat /\ wsRef \in Nat
      BY <2>1, <3>1
    <3>4. selectedSymbol \in Symbols /\ armed \in BOOLEAN
      BY <2>1, <2>3
    <3> QED
      BY <3>2, <3>3, <3>4 DEF PageTypes
  <2>6. DOMAIN sockets = {1} /\ sockets[1] = new
    BY <2>1
  <2>7. GoodSocket(new, broadcasts, chain)
    BY <1>1, <2>1, <2>4 DEF GoodSocket, Known
  <2>8. GoodSockets(sockets, broadcasts, chain)
    BY <2>6, <2>7, FS_Singleton DEF GoodSockets
  <2>9. GoodClients(clients)
    <3>1. DOMAIN clients = {}
      BY <2>1
    <3> QED
      BY <3>1, FS_EmptySet DEF GoodClients
  <2>10. GoodTape(recentTrades, broadcasts, chain)
    <3>1. << >> \in Seq(Shown)
      BY EmptySeq
    <3> QED
      BY <1>1, <2>1, <2>3, <3>1 DEF GoodTape, Distinct
  <2>11. Readers(sockets, wsRef, chain, recentTrades)
    BY <1>1, <2>1, <2>4, <2>6 DEF Distinct, Readers, NewTo
  <2>12. FetchInv
    <3>1. DOMAIN stored = Symbols /\ \A s \in Symbols : stored[s] = << >>
      BY <2>1
    <3>2. GoodStore(<< >>, broadcasts)
      BY <1>1, <1>2 DEF GoodStore, Known, Distinct
    <3>3. 0 \in 0..Len(stored[selectedSymbol])
      BY <1>1, <2>1, <2>3, <3>1
    <3> QED
      BY <2>1, <3>1, <3>2, <3>3 DEF FetchInv
  <2> QED
    BY <2>5, <2>8, <2>9, <2>10, <2>11, <2>12 DEF FeedInv
<1>5. Unrepeated
  <2>1. /\ active = FALSE /\ trades = << >> /\ timer = << >> /\ strays = << >>
        /\ replayed = << >>
    BY DEF Init, ReplayInit, None
  <2> QED
    BY <1>1, <2>1 DEF Unrepeated, AllDifferent, Distinct, Apart, UpTo, Numbered
<1> QED
  BY <1>3, <1>4, <1>5 DEF ReplayGood

\* What happens by itself.
LEMMA ProgressStep ==
  ASSUME ReplayGood, FeedInv, Progress
  PROVE  ReplayGood' /\ FeedInv'
<1>1. CASE Reconnect
  <2>1. UNCHANGED replayVars
    BY <1>1 DEF Reconnect
  <2> QED
    BY <1>1, <2>1, ReconnectStep, ReplayKept
<1>2. ASSUME NEW c \in DOMAIN sockets, Accept(c) PROVE ReplayGood' /\ FeedInv'
  <2>1. UNCHANGED replayVars
    BY <1>2 DEF Accept
  <2> QED
    BY <1>2, <2>1, AcceptStep, ReplayKept
<1>3. ASSUME NEW c \in DOMAIN sockets, Opened(c) PROVE ReplayGood' /\ FeedInv'
  <2>1. UNCHANGED replayVars
    BY <1>3 DEF Opened
  <2> QED
    BY <1>3, <2>1, OpenedStep, ReplayKept
<1>4. ASSUME NEW c \in DOMAIN sockets, ServerReceives(c) PROVE ReplayGood' /\ FeedInv'
  <2>1. UNCHANGED replayVars
    BY <1>4 DEF ServerReceives
  <2> QED
    BY <1>4, <2>1, ServerReceivesStep, ReplayKept
<1>5. ASSUME NEW c \in DOMAIN sockets, PageReceives(c) PROVE ReplayGood' /\ FeedInv'
  <2>1. UNCHANGED replayVars
    BY <1>5 DEF PageReceives
  <2> QED
    BY <1>5, <2>1, PageReceivesStep, ReplayKept
<1>6. ASSUME NEW c \in DOMAIN sockets, Closed(c) PROVE ReplayGood' /\ FeedInv'
  <2>1. UNCHANGED replayVars
    BY <1>6 DEF Closed
  <2> QED
    BY <1>6, <2>1, ClosedStep, ReplayKept
<1>7. ASSUME NEW c \in DOMAIN clients, ServerSeesClose(c) PROVE ReplayGood' /\ FeedInv'
  <2>1. UNCHANGED replayVars
    BY <1>7 DEF ServerSeesClose
  <2> QED
    BY <1>7, <2>1, ServerSeesCloseStep, ReplayKept
<1>8. CASE SessionLoads
  <2>1. \E i \in DOMAIN starting : RowsArrive(i)
    BY <1>8 DEF SessionLoads
  <2>2. UNCHANGED <<clients, hookVars, pageVars, tapeVars>>
    BY <1>8 DEF SessionLoads
  <2>3. ReplayGood'
    BY <2>1, RowsArriveStep, RowsArriveUnrepeated DEF ReplayGood
  <2> QED
    BY <2>2, <2>3, FeedKept
<1>9. CASE ReplayTicks
  <2>1. CASE TimerFires /\ Broadcast(timer[1].symbol)
    <3>1. ReplayGood'
      BY <2>1, TimerFiresStep, TimerFiresUnrepeated DEF ReplayGood
    <3>2. timer \in Seq(ReplayTrade) /\ timer # << >>
      BY <2>1 DEF ReplayGood, ReplayInv, SessionTypes, TimerFires, None
    <3>3. 1 \in 1..Len(timer)
      BY <3>2, EmptySeq, LenProperties
    <3>4. timer[1].symbol \in Symbols
      <4>1. timer[1] \in ReplayTrade
        BY <3>2, <3>3, ElementOfSeq
      <4> QED
        BY <4>1 DEF ReplayTrade
    <3>5. stored' = stored
      BY <1>9 DEF ReplayTicks
    <3> QED
      BY <2>1, <3>1, <3>4, <3>5, BroadcastStep
  <2>2. ASSUME NEW i \in DOMAIN strays, StrayFires(i), Broadcast(strays[i].symbol)
        PROVE  ReplayGood' /\ FeedInv'
    <3>1. ReplayGood'
      BY <2>2, StrayFiresStep, StrayFiresUnrepeated DEF ReplayGood
    <3>2. strays \in Seq(ReplayTrade) /\ i \in 1..Len(strays)
      BY LenProperties DEF ReplayGood, ReplayInv, SessionTypes
    <3>3. strays[i].symbol \in Symbols
      <4>1. strays[i] \in ReplayTrade
        BY <3>2, ElementOfSeq
      <4> QED
        BY <4>1 DEF ReplayTrade
    <3>4. stored' = stored
      BY <1>9 DEF ReplayTicks
    <3> QED
      BY <2>2, <3>1, <3>3, <3>4, BroadcastStep
  <2> QED
    BY <1>9, <2>1, <2>2 DEF ReplayTicks
<1>10. CASE FetchReturns
  <2>1. UNCHANGED replayVars
    BY <1>10 DEF FetchReturns
  <2> QED
    BY <1>10, <2>1, FetchReturnsStep, ReplayKept
<1> QED
  BY <1>1, <1>2, <1>3, <1>4, <1>5, <1>6, <1>7, <1>8, <1>9, <1>10 DEF Progress

\* What callers, traders, users and the network do.
LEMMA EventStep ==
  ASSUME ReplayGood, FeedInv, Event
  PROVE  ReplayGood' /\ FeedInv'
<1>1. CASE ReplayCall
  <2>1. UNCHANGED <<clients, hookVars, pageVars, tapeVars>>
    BY <1>1 DEF ReplayCall
  <2>2. ReplayGood'
    <3>1. CASE \E options \in Start : StartReplay(options)
      <4>1. Reset
        BY <3>1 DEF StartReplay
      <4> QED
        BY <3>1, <4>1, StartReplayStep, ResetUnrepeated DEF ReplayGood
    <3>2. CASE PauseReplay
      BY <3>2, PauseReplayStep, PauseUnrepeated DEF ReplayGood
    <3>3. CASE ResumeReplay
      BY <3>3, ResumeReplayStep, ResumeUnrepeated DEF ReplayGood
    <3>4. CASE StopReplay
      <4>1. Reset
        BY <3>4 DEF StopReplay
      <4> QED
        BY <3>4, <4>1, StopReplayStep, ResetUnrepeated DEF ReplayGood
    <3>5. CASE \E s \in Speeds : SetSpeed(s)
      <4>1. Unrepeated'
        BY <3>5 DEF ReplayGood, Unrepeated, SetSpeed, timerVars, historyVars
      <4> QED
        BY <3>5, <4>1, SetSpeedStep DEF ReplayGood
    <3> QED
      BY <1>1, <3>1, <3>2, <3>3, <3>4, <3>5 DEF ReplayCall
  <2> QED
    BY <2>1, <2>2, FeedKept
<1>2. ASSUME NEW s \in Symbols, EngineTrade(s) PROVE ReplayGood' /\ FeedInv'
  <2>1. /\ stored' = [stored EXCEPT ![s] = Append(stored[s], broadcasts + 1)]
        /\ Broadcast(s) /\ UNCHANGED replayVars
    BY <1>2 DEF EngineTrade
  <2> QED
    BY <2>1, BroadcastStep, ReplayKept
<1>3. ASSUME NEW u \in Users, NEW s \in Symbols, Rerender(u, s)
      PROVE  ReplayGood' /\ FeedInv'
  <2>1. UNCHANGED replayVars
    BY <1>3 DEF Rerender
  <2> QED
    BY <1>3, <2>1, RerenderStep, ReplayKept
<1>4. ASSUME NEW c \in DOMAIN sockets, Cut(c) PROVE ReplayGood' /\ FeedInv'
  <2>1. UNCHANGED replayVars
    BY <1>4 DEF Cut
  <2> QED
    BY <1>4, <2>1, CutStep, ReplayKept
<1> QED
  BY <1>1, <1>2, <1>3, <1>4 DEF Event

\* The inductive invariant of the feed.
THEOREM FeedInvariance == Spec => [](ReplayGood /\ FeedInv)
<1>1. Init => ReplayGood /\ FeedInv
  BY FeedInitially
<1>2. ReplayGood /\ FeedInv /\ [Next]_feedVars => (ReplayGood /\ FeedInv)'
  <2> SUFFICES ASSUME ReplayGood, FeedInv, [Next]_feedVars
               PROVE  ReplayGood' /\ FeedInv'
    OBVIOUS
  <2>1. CASE Next
    BY <2>1, ProgressStep, EventStep DEF Next
  <2>2. CASE UNCHANGED feedVars
    BY <2>2, ReplayKept, FeedKept DEF feedVars
  <2> QED
    BY <2>1, <2>2
<1> QED
  BY <1>1, <1>2, PTL DEF Spec

\* Whatever starts, stops, pauses and resumes overlap, and whatever chains of timeouts
\* they leave, no trade of a session is emitted twice.
THEOREM EachTradeReplayedOnce == Spec => []ReplayedOnce
<1>1. ReplayGood => ReplayedOnce
  <2> SUFFICES ASSUME ReplayGood PROVE IsInjective(replayed \o timer \o strays)
    BY DEF ReplayedOnce
  <2>1. PICK r \in Seq(ReplayTrade), t \in Seq(ReplayTrade), s \in Seq(ReplayTrade) :
          r = replayed /\ t = timer /\ s = strays
    BY DEF ReplayGood, ReplayInv, SessionTypes
  <2>2. AllDifferent(r, t, s)
    BY <2>1 DEF ReplayGood, Unrepeated
  <2>3. r \o t \in Seq(ReplayTrade) /\ Distinct(r \o t)
    BY <2>2, ConcatProperties, ConcatDistinct DEF AllDifferent
  <2>4. Apart(r \o t, s)
    <3>1. Apart(s, r) /\ Apart(s, t)
      BY <2>2 DEF AllDifferent, Apart
    <3>2. Apart(s, r \o t)
      BY <3>1, ConcatApart
    <3> QED
      BY <3>2 DEF Apart
  <2>5. PICK u \in Seq(ReplayTrade) : u = r \o t
    BY <2>3
  <2>6. Distinct(s)
    BY <2>2 DEF AllDifferent
  <2>7. u \o s \in Seq(ReplayTrade) /\ Distinct(u \o s)
    BY <2>3, <2>4, <2>5, <2>6, ConcatProperties, ConcatDistinct
  <2>8. IsInjective(u \o s)
    <3>1. DOMAIN (u \o s) = 1..Len(u \o s)
      BY <2>7, LenProperties
    <3> QED
      BY <2>7, <3>1 DEF Distinct, IsInjective
  <2> QED
    BY <2>1, <2>5, <2>8
<1> QED
  BY <1>1, FeedInvariance, PTL

\* As long as no start is overtaken while it waits for its rows, or once what it left
\* behind is cleared up, every session is emitted in order, with one timeout pending
\* while it runs and none while it rests, however calls interleave with ticks and rows.
THEOREM ReplayIsInOrder == Spec => []ReplayedInOrder
<1>1. ReplayGood => ReplayedInOrder
  BY DEF ReplayGood, ReplayInv, InOrder, ReplayedInOrder
<1> QED
  BY <1>1, FeedInvariance, PTL

\* Each chain of sockets puts a broadcast on the tape at most once, through every
\* reconnect, sign-in, change of symbol and race of a timeout with a connection, and
\* no fetch shows a trade twice.
THEOREM TicksAreShownOnce == Spec => []TicksOnce
<1>1. FeedInv => TicksOnce
  <2> SUFFICES ASSUME FeedInv PROVE IsInjective(recentTrades)
    BY DEF TicksOnce
  <2>1. Distinct(recentTrades) /\ recentTrades \in Seq(Shown)
    BY DEF FeedInv, GoodTape
  <2>2. DOMAIN recentTrades = 1..Len(recentTrades)
    BY <2>1, LenProperties
  <2> QED
    BY <2>1, <2>2 DEF Distinct, IsInjective
<1> QED
  BY <1>1, FeedInvariance, PTL

\* What a sequence holds.
LEMMA RangeIn ==
  ASSUME NEW S, NEW s \in Seq(S), NEW T, \A i \in 1..Len(s) : s[i] \in T
  PROVE  Range(s) \subseteq T
<1>1. DOMAIN s = 1..Len(s)
  BY LenProperties
<1> QED
  BY <1>1 DEF Range

\* The types of the session, the page, the sockets, the clients and the tape: no
\* queue and no tape holds a trade that was not broadcast, and the tape is bounded.
THEOREM FeedTypeCorrect == Spec => []FeedTypeOK
<1>1. ReplayGood => ReplayTypeOK
  <2> SUFFICES ASSUME ReplayGood PROVE ReplayTypeOK
    OBVIOUS
  <2>1. SessionTypes
    BY DEF ReplayGood, ReplayInv
  <2>2. \A s \in Seq(ReplayTrade) : Range(s) \subseteq ReplayTrade
    <3> SUFFICES ASSUME NEW s \in Seq(ReplayTrade) PROVE Range(s) \subseteq ReplayTrade
      OBVIOUS
    <3>1. \A i \in 1..Len(s) : s[i] \in ReplayTrade
      BY ElementOfSeq
    <3> QED
      BY <3>1, RangeIn
  <2>3. Range(trades) \cup Range(replayed) \cup Range(strays) \cup Range(timer)
          \subseteq ReplayTrade
    BY <2>1, <2>2 DEF SessionTypes
  <2>4. \A i \in DOMAIN starting : starting[i] \in StartCall
    BY <2>1, LenProperties, ElementOfSeq DEF SessionTypes
  <2> QED
    BY <2>1, <2>3, <2>4 DEF SessionTypes, StartCall, ReplayTypeOK
<1>2. FeedInv /\ ReplayTypeOK => FeedTypeOK
  <2> SUFFICES ASSUME FeedInv, ReplayTypeOK PROVE FeedTypeOK
    OBVIOUS
  <2>1. ASSUME NEW c \in DOMAIN sockets
        PROVE  /\ sockets[c].state \in SocketState /\ sockets[c].cut \in BOOLEAN
               /\ sockets[c].userId \in Users /\ sockets[c].symbol \in Symbols
               /\ Range(sockets[c].up) \subseteq Message
               /\ Range(sockets[c].down) \subseteq 1..broadcasts
               /\ sockets[c].chain \in 1..chain
    <3>1. GoodSocket(sockets[c], broadcasts, chain)
      BY DEF FeedInv, GoodSockets
    <3>2. /\ sockets[c].state \in SocketState /\ sockets[c].cut \in BOOLEAN
          /\ sockets[c].userId \in Users /\ sockets[c].symbol \in Symbols
          /\ sockets[c].up \in Seq(Sent) /\ sockets[c].down \in Seq(Nat)
      BY <3>1, SocketFields DEF GoodSocket
    <3>3. Sent \subseteq Message
      BY DEF Sent, Message
    <3>4. \A i \in 1..Len(sockets[c].up) : sockets[c].up[i] \in Message
      BY <3>2, <3>3, ElementOfSeq
    <3>5. \A i \in 1..Len(sockets[c].down) : sockets[c].down[i] \in 1..broadcasts
      BY <3>1 DEF GoodSocket, Known
    <3> QED
      BY <3>1, <3>2, <3>4, <3>5, RangeIn DEF GoodSocket
  <2>2. \A c \in DOMAIN clients :
          clients[c] \in [userId: Users \cup {""}, subscribedSymbols: SUBSET Symbols]
    BY DEF FeedInv, GoodClients, Client
  <2>3. /\ Range(recentTrades) \subseteq [n: 1..broadcasts, chain: 0..chain]
        /\ Len(recentTrades) <= TapeLength
    <3>1. /\ recentTrades \in Seq(Shown) /\ Len(recentTrades) <= TapeLength
          /\ \A i \in 1..Len(recentTrades) : /\ recentTrades[i].n \in 1..broadcasts
                                             /\ recentTrades[i].chain \in 0..chain
      BY DEF FeedInv, GoodTape
    <3>2. ASSUME NEW i \in 1..Len(recentTrades)
          PROVE  recentTrades[i] \in [n: 1..broadcasts, chain: 0..chain]
      <4>1. recentTrades[i] \in Shown
        BY <3>1, ElementOfSeq
      <4> QED
        BY <3>1, <4>1 DEF Shown
    <3> QED
      BY <3>1, <3>2, RangeIn
  <2>4. \A s \in Symbols : Range(stored[s]) \subseteq 1..broadcasts
    BY RangeIn DEF FeedInv, FetchInv, GoodStore, Known
  <2>5. Range(fetching) \subseteq 0..Len(stored[selectedSymbol])
    <3>1. CASE fetching = << >>
      BY <3>1 DEF Range
    <3>2. ASSUME NEW m \in 0..Len(stored[selectedSymbol]), fetching = <<m>>
          PROVE  Range(fetching) \subseteq 0..Len(stored[selectedSymbol])
      <4>1. DOMAIN fetching = {1} /\ fetching[1] = m
        BY <3>2
      <4> QED
        BY <4>1 DEF Range
    <3> QED
      BY <3>1, <3>2 DEF FeedInv, FetchInv
  <2> QED
    BY <2>1, <2>2, <2>3, <2>4, <2>5 DEF FeedTypeOK, FeedInv, PageTypes
<1> QED
  BY <1>1, <1>2, FeedInvariance, PTL
=============================================================================
