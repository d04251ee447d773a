---------------------------- MODULE ClientProofs ----------------------------
(***************************************************************************)
(* Proofs about the client.  Connection, for every set of threads, every   *)
(* interval and every bound: what the snapshot says of the connection is   *)
(* true, and the poller never stacks up requests.  ClientCache, for any    *)
(* number of messages, edits, calls and breaks and any size of page: what  *)
(* a client shows that heard everything in order is what the server has.   *)
(***************************************************************************)
EXTENDS ClientCache, Connection, TLAPS, FiniteSetTheorems, SequenceTheorems,
        WellFoundedInduction

-----------------------------------------------------------------------------
(* The connection.                                                          *)

Outcome == {"sent", "ok", "FORBIDDEN_READ", "NETWORK_ERROR"}

\* What a tick may have asked of the server, and what has come of it.
Asks == UNION {[S -> Outcome] : S \in SUBSET (Threads \cup {List})}

Poller == [running : BOOLEAN, timer : 0 .. Off, since : 0 .. Interval, ticking : BOOLEAN,
           asks : Asks, why : {"shown", "started", "timer"}, crowded : BOOLEAN]

ConnType ==
    /\ setting \in [mode : Modes, sourced : BOOLEAN]
    /\ wanted \in BOOLEAN /\ error \in BOOLEAN /\ hidden \in BOOLEAN
    /\ source \in {"none", "connecting", "open", "closed"}
    /\ status \in Statuses
    /\ poller \in Poller
    /\ loaded \subseteq Threads

\* What the poller keeps to: only one that runs has a timer, a tick lasts as
\* long as its requests, and a timer that is set leaves an interval between its
\* beat and the last one, unless that one came with the tab.
Spaced(p) ==
    /\ ~p.crowded
    /\ p.asks # <<>> => p.ticking
    /\ ~p.running => p.timer = Off
    /\ p.timer # Off /\ p.why # "shown" => p.since + p.timer >= Interval

\* What StatusIsTrue rests on: a source is there only if it is wanted and the
\* host did not choose polling, and one who chose the stream alone never polls.
SourceIsWanted ==
    /\ source # "none" => wanted /\ setting.mode # "poll"
    /\ setting.mode = "sse" => ~poller.running

ConnInv == ConnType /\ Spaced(poller) /\ SourceIsWanted /\ StatusIsTrue
-----------------------------------------------------------------------------
\* Steps of the poller are steps from one poller to another that keep it spaced.
LEMMA Ticks ==
    ASSUME ConnType, NEW p \in Poller, NEW unseen \in BOOLEAN, NEW why \in {"shown", "started", "timer"},
           Spaced(p), why = "shown" \/ p.timer \in {Off, Interval},
           ~p.ticking /\ ~unseen => why = "shown" \/ p.why = "shown" \/ p.since >= Interval
    PROVE  LET q == Tick(p, unseen, why) IN
           q \in Poller /\ Spaced(q) /\ q.running = p.running /\ q.timer = p.timer
  <1> DEFINE sent == [s \in Polled |-> "sent"]
  <1>1. Polled \subseteq Threads \cup {List}
    BY DEF Polled, ConnType
  <1>2. sent \in Asks
    <2>1. sent \in [Polled -> Outcome]
      BY DEF Outcome
    <2> QED  BY <1>1, <2>1 DEF Asks
  <1> HIDE DEF sent
  <1>3. CASE p.ticking \/ unseen
    BY <1>3 DEF Tick
  <1>4. CASE ~p.ticking /\ ~unseen
    <2> DEFINE q == [p EXCEPT !.ticking = TRUE, !.since = 0, !.asks = sent,
                              !.crowded = FALSE, !.why = why]
    <2>1. Interval \in Nat /\ p.since \in 0 .. Interval /\ 0 \in 0 .. Interval
      BY ConnectionAssumption DEF Poller
    <2>2. ~(\/ p.crowded \/ p.asks # <<>>
            \/ ("shown" \notin {why, p.why} /\ p.since < Interval))
      BY <1>4, <2>1 DEF Spaced
    <2>3. Tick(p, unseen, why) = q
      BY <1>4, <2>2 DEF Tick, sent, Poller
    <2>4. /\ q \in Poller /\ q.running = p.running /\ q.timer = p.timer /\ q.ticking = TRUE
          /\ q.since = 0 /\ q.crowded = FALSE /\ q.why = why
      BY <1>2, <2>1 DEF Poller
    <2> HIDE DEF q
    <2>5. Spaced(q)
      BY <2>1, <2>4 DEF Spaced, Off
    <2> QED  BY <2>3, <2>4, <2>5
  <1> QED  BY <1>3, <1>4

\* Starting and stopping keep a poller spaced.
LEMMA Starts ==
    ASSUME ConnType, NEW p \in Poller, Spaced(p)
    PROVE  /\ Start(p) \in Poller /\ Spaced(Start(p)) /\ Start(p).running
           /\ Stop(p) \in Poller /\ Spaced(Stop(p)) /\ ~Stop(p).running
  <1>1. /\ Interval \in Nat \ {0} /\ p.since \in 0 .. Interval /\ p.timer \in 0 .. Off
        /\ Off \in Nat /\ Off # Interval /\ Interval \in 0 .. Off /\ Off \in 0 .. Off
        /\ p.running \in BOOLEAN /\ hidden \in BOOLEAN
    BY ConnectionAssumption DEF Poller, Off, ConnType
  <1>2. Stop(p) \in Poller /\ Spaced(Stop(p)) /\ ~Stop(p).running
    BY <1>1 DEF Stop, Poller, Spaced
  <1>3. CASE p.running
    BY <1>2, <1>3 DEF Start
  <1>4. CASE ~p.running
    <2> DEFINE q == StartTimer([p EXCEPT !.running = TRUE])
    <2>1. p.timer = Off
      BY <1>4 DEF Spaced
    <2>2. /\ q \in Poller /\ q.running = TRUE /\ q.timer = Interval /\ q.since = p.since
          /\ q.ticking = p.ticking /\ q.asks = p.asks /\ q.crowded = p.crowded /\ q.why = p.why
      BY <1>1, <2>1 DEF StartTimer, Poller
    <2>3. Start(p) = IF p.since >= Interval THEN Tick(q, hidden, "started") ELSE q
      BY <1>4 DEF Start
    <2> HIDE DEF q
    <2>4. Spaced(q)
      BY <1>1, <2>2 DEF Spaced
    <2>5. CASE p.since >= Interval
      BY <1>1, <1>2, <2>2, <2>3, <2>4, <2>5, Ticks
    <2>6. CASE ~(p.since >= Interval)
      BY <1>2, <2>2, <2>3, <2>4, <2>6
    <2> QED  BY <2>5, <2>6
  <1> QED  BY <1>1, <1>3, <1>4

LEMMA InitHolds == Init => ConnInv
  <1> SUFFICES ASSUME Init  PROVE ConnInv
    OBVIOUS
  <1>1. Interval \in Nat \ {0} /\ Off = Interval + 1
    BY ConnectionAssumption DEF Off
  <1>2. <<>> \in Asks
    <2>1. <<>> \in [{} -> Outcome]
      OBVIOUS
    <2> QED  BY <2>1 DEF Asks
  <1>3. poller \in Poller
    BY <1>1, <1>2 DEF Init, Poller
  <1>4. ConnType
    BY <1>3 DEF Init, ConnType, Statuses
  <1> QED  BY <1>1, <1>4 DEF Init, ConnInv, Spaced, SourceIsWanted, StatusIsTrue

\* What a fallback leaves behind: the status it was given, or a poller.
LEMMA FallsBack ==
    ASSUME ConnType, Spaced(poller), NEW wants \in BOOLEAN, NEW seen \in Statuses,
           NEW failed \in BOOLEAN, FallBack(wants, seen, failed)
    PROVE  /\ error' = failed /\ poller' \in Poller /\ Spaced(poller') /\ status' \in Statuses
           /\ IF setting.mode = "sse" \/ ~wants THEN status' = seen /\ UNCHANGED poller
                                                ELSE status' = "polling" /\ poller'.running
  <1>1. poller \in Poller
    BY DEF ConnType
  <1> QED  BY <1>1, Starts DEF FallBack, Statuses

\* What the answers to a tick make of what it asked.
LEMMA AskAnswered ==
    ASSUME NEW asks \in Asks, NEW s \in DOMAIN asks
    PROVE  /\ \A a \in Outcome : LET next == [asks EXCEPT ![s] = a] IN next \in Asks /\ asks # <<>>
           /\ [u \in DOMAIN asks \ {s} |-> asks[u]] \in Asks
           /\ s \in Threads \cup {List}
  <1>1. PICK S \in SUBSET (Threads \cup {List}) : asks \in [S -> Outcome]
    BY DEF Asks
  <1>2. \A a \in Outcome : [asks EXCEPT ![s] = a] \in [S -> Outcome]
    BY <1>1
  <1>3. [u \in DOMAIN asks \ {s} |-> asks[u]] \in [S \ {s} -> Outcome]
    BY <1>1
  <1>4. asks # <<>>
    OBVIOUS
  <1>5. S \ {s} \in SUBSET (Threads \cup {List})
    OBVIOUS
  <1> QED  BY <1>1, <1>2, <1>3, <1>4, <1>5 DEF Asks

\* The timer: time passes, it fires, and it is stopped or started with the tab.
LEMMA TimerSteps ==
    ASSUME ConnType, Spaced(poller), TimerFires \/ Pass \/ Hide \/ Show
    PROVE  /\ poller' \in Poller /\ Spaced(poller') /\ poller'.running = poller.running
           /\ hidden' \in BOOLEAN
  <1>1. /\ poller \in Poller /\ hidden \in BOOLEAN
        /\ Interval \in Nat \ {0} /\ Off = Interval + 1
        /\ poller.timer \in 0 .. Off /\ poller.since \in 0 .. Interval
    BY ConnectionAssumption DEF ConnType, Off, Poller
  <1>2. CASE TimerFires
    <2> DEFINE p == [poller EXCEPT !.timer = Interval]
    <2>1. poller.timer = 0 /\ poller' = Tick(p, hidden, "timer") /\ UNCHANGED hidden
      BY <1>2 DEF TimerFires
    <2>2. /\ p \in Poller /\ p.timer = Interval /\ p.since = poller.since /\ p.why = poller.why
          /\ p.ticking = poller.ticking /\ p.asks = poller.asks /\ p.crowded = poller.crowded
          /\ p.running = poller.running
      BY <1>1 DEF Poller
    <2> HIDE DEF p
    <2>3. poller.running /\ (poller.why = "shown" \/ poller.since >= Interval)
      BY <1>1, <2>1 DEF Spaced
    <2>4. Spaced(p)
      BY <1>1, <2>2, <2>3 DEF Spaced
    <2>5. p.timer \in {Off, Interval} /\ (p.why = "shown" \/ p.since >= Interval)
      BY <2>2, <2>3
    <2>6. LET q == Tick(p, hidden, "timer") IN
            q \in Poller /\ Spaced(q) /\ q.running = p.running
      BY <1>1, <2>2, <2>4, <2>5, Ticks
    <2> QED  BY <1>1, <2>1, <2>2, <2>6
  <1>3. CASE Pass
    <2> DEFINE t == IF poller.timer = Off THEN Off ELSE poller.timer - 1
               n == IF poller.since < Interval THEN poller.since + 1 ELSE poller.since
    <2>1. /\ poller' = [poller EXCEPT !.timer = t, !.since = n] /\ UNCHANGED hidden
          /\ poller.timer # 0
      BY <1>3 DEF Pass
    <2>2. /\ t \in 0 .. Off /\ n \in 0 .. Interval /\ (t = Off <=> poller.timer = Off)
          /\ poller.since + poller.timer >= Interval => n + t >= Interval
      BY <1>1, <2>1
    <2> HIDE DEF t, n
    <2>3. /\ poller' \in Poller /\ poller'.timer = t /\ poller'.since = n /\ poller'.why = poller.why
          /\ poller'.ticking = poller.ticking /\ poller'.asks = poller.asks
          /\ poller'.crowded = poller.crowded /\ poller'.running = poller.running
      BY <1>1, <2>1, <2>2 DEF Poller
    <2>4. Spaced(poller')
      BY <1>1, <2>2, <2>3 DEF Spaced
    <2> QED  BY <1>1, <2>1, <2>3, <2>4
  <1>4. CASE Hide
    <2>1. poller' = poller \/ poller' = [poller EXCEPT !.timer = Off]
      BY <1>4 DEF Hide
    <2>2. hidden' \in BOOLEAN
      BY <1>4 DEF Hide
    <2>3. /\ poller' \in Poller /\ poller'.timer \in {poller.timer, Off}
          /\ poller'.since = poller.since /\ poller'.why = poller.why
          /\ poller'.ticking = poller.ticking /\ poller'.asks = poller.asks
          /\ poller'.crowded = poller.crowded /\ poller'.running = poller.running
      BY <1>1, <2>1 DEF Poller
    <2>4. Spaced(poller')
      BY <2>3 DEF Spaced
    <2> QED  BY <2>2, <2>3, <2>4
  <1>5. CASE Show
    <2>1. hidden' \in BOOLEAN
      BY <1>5 DEF Show
    <2>2. CASE ~poller.running
      BY <1>1, <1>5, <2>1, <2>2 DEF Show
    <2>3. CASE poller.running
      <3> DEFINE p == StartTimer(poller)
      <3>1. poller' = Tick(p, FALSE, "shown")
        BY <1>5, <2>3 DEF Show
      <3>2. /\ p \in Poller /\ p.timer = (IF poller.timer = Off THEN Interval ELSE poller.timer)
            /\ p.since = poller.since /\ p.why = poller.why
            /\ p.ticking = poller.ticking /\ p.asks = poller.asks /\ p.crowded = poller.crowded
            /\ p.running = poller.running
        BY <1>1 DEF Poller, StartTimer
      <3> HIDE DEF p
      <3>3. Spaced(p)
        BY <1>1, <2>3, <3>2 DEF Spaced
      <3> QED  BY <1>1, <2>1, <3>1, <3>2, <3>3, Ticks
    <2> QED  BY <2>2, <2>3
  <1> QED  BY <1>2, <1>3, <1>4, <1>5

\* The requests of a poll leave the timer alone; the last answer ends the tick.
LEMMA PollSteps ==
    ASSUME ConnType, Spaced(poller), NEW s \in Threads \cup {List},
           PollServed(s) \/ PollFails(s) \/ PollLands(s)
    PROVE  /\ poller' \in Poller /\ Spaced(poller') /\ poller'.running = poller.running
           /\ UNCHANGED <<stream, hidden>> /\ loaded' \subseteq loaded
  <1>1. /\ poller \in Poller /\ poller.asks \in Asks /\ s \in DOMAIN poller.asks
        /\ UNCHANGED <<stream, hidden>>
    BY DEF ConnType, Poller, PollServed, PollFails, PollLands
  <1>2. loaded' \subseteq loaded
    BY DEF PollServed, PollFails, PollLands, rooms, Drops
  <1>3. poller.asks # <<>> /\ poller.ticking
    BY <1>1, AskAnswered DEF Spaced, Outcome
  <1>4. ASSUME NEW a \in Outcome, poller' = [poller EXCEPT !.asks[s] = a]
        PROVE  poller' \in Poller /\ Spaced(poller') /\ poller'.running = poller.running
    <2> DEFINE next == [poller.asks EXCEPT ![s] = a]
    <2>1. next \in Asks
      BY <1>1, AskAnswered
    <2>2. poller' = [poller EXCEPT !.asks = next]
      BY <1>4
    <2> HIDE DEF next
    <2>3. /\ poller' \in Poller /\ poller'.running = poller.running /\ poller'.ticking = poller.ticking
          /\ poller'.timer = poller.timer /\ poller'.since = poller.since
          /\ poller'.why = poller.why /\ poller'.crowded = poller.crowded
      BY <1>1, <2>1, <2>2 DEF Poller
    <2> QED  BY <1>3, <2>3 DEF Spaced
  <1>5. CASE PollServed(s)
    <2>1. /\ poller' = [poller EXCEPT !.asks[s] =
                          IF s \in Threads \ readable THEN "FORBIDDEN_READ" ELSE "ok"]
          /\ {"FORBIDDEN_READ", "ok"} \subseteq Outcome
      BY <1>5 DEF PollServed, Outcome
    <2> QED  BY <1>1, <1>2, <1>4, <2>1
  <1>6. CASE PollFails(s)
    BY <1>1, <1>2, <1>4, <1>6 DEF PollFails, Outcome
  <1>7. CASE PollLands(s)
    <2> DEFINE rest == [u \in DOMAIN poller.asks \ {s} |-> poller.asks[u]]
    <2>1. rest \in Asks
      BY <1>1, AskAnswered
    <2>2. poller' = [poller EXCEPT !.asks = rest, !.ticking = @ /\ rest # <<>>]
      BY <1>7 DEF PollLands
    <2> HIDE DEF rest
    <2>3. \/ rest # <<>> /\ poller' = [poller EXCEPT !.asks = rest]
          \/ rest = <<>> /\ poller' = [poller EXCEPT !.asks = rest, !.ticking = FALSE]
      BY <1>1, <1>3, <2>2 DEF Poller
    <2>4. /\ poller' \in Poller /\ poller'.running = poller.running /\ poller'.asks = rest
          /\ rest # <<>> => poller'.ticking = poller.ticking
          /\ poller'.timer = poller.timer /\ poller'.since = poller.since
          /\ poller'.why = poller.why /\ poller'.crowded = poller.crowded
      BY <1>1, <2>1, <2>3 DEF Poller
    <2>5. Spaced(poller')
      BY <1>3, <2>4 DEF Spaced
    <2> QED  BY <1>1, <1>2, <2>4, <2>5
  <1> QED  BY <1>5, <1>6, <1>7

LEMMA ConnSteps ==
    ASSUME ConnInv, [Next]_vars
    PROVE  ConnInv'
  <1>1. ConnType /\ Spaced(poller) /\ SourceIsWanted /\ StatusIsTrue
    BY DEF ConnInv
  <1>2. /\ setting.mode \in Modes /\ poller \in Poller
        /\ source \in {"none", "connecting", "open", "closed"} /\ status \in Statuses
    BY <1>1 DEF ConnType
  <1>3. CASE ConnectPolling
    <2>1. /\ setting.mode = "poll" /\ wanted' = TRUE /\ FallBack(TRUE, status, FALSE)
          /\ UNCHANGED <<setting, source, hidden, loaded>>
      BY <1>3 DEF ConnectPolling, rooms
    <2>2. /\ error' = FALSE /\ poller' \in Poller /\ Spaced(poller') /\ status' = "polling"
          /\ poller'.running
      BY <1>1, <1>2, <2>1, FallsBack
    <2>3. ConnType'
      BY <1>1, <2>1, <2>2 DEF ConnType, Statuses
    <2> QED  BY <1>1, <1>2, <2>1, <2>2, <2>3 DEF ConnInv, Spaced, SourceIsWanted, StatusIsTrue
  <1>4. CASE ConnectStream
    <2>1. /\ setting.mode # "poll" /\ wanted' = TRUE /\ source' = "connecting"
          /\ status' = "connecting" /\ error' = FALSE
          /\ UNCHANGED <<setting, poller, hidden, loaded>>
      BY <1>4 DEF ConnectStream, rooms
    <2>2. ConnType'
      BY <1>1, <2>1 DEF ConnType, Statuses
    <2> QED  BY <1>1, <1>2, <2>1, <2>2 DEF ConnInv, Spaced, SourceIsWanted, StatusIsTrue
  <1>5. CASE ConnectInVain
    <2>1. /\ setting.mode # "poll" /\ wanted' = TRUE /\ FallBack(TRUE, "closed", TRUE)
          /\ UNCHANGED <<setting, source, hidden, loaded>>
      BY <1>5 DEF ConnectInVain, rooms
    <2>2. /\ error' = TRUE /\ poller' \in Poller /\ Spaced(poller') /\ status' \in Statuses
          /\ IF setting.mode = "sse" THEN status' = "closed" /\ UNCHANGED poller
                                     ELSE status' = "polling" /\ poller'.running
      BY <1>1, <1>2, <2>1, FallsBack DEF Statuses
    <2>3. ConnType'
      BY <1>1, <2>1, <2>2 DEF ConnType
    <2> QED  BY <1>1, <1>2, <2>1, <2>2, <2>3 DEF ConnInv, Spaced, SourceIsWanted, StatusIsTrue
  <1>6. CASE Disconnect
    <2>1. /\ wanted' = FALSE /\ poller' = Stop(poller) /\ source' = "none"
          /\ status' = "closed" /\ error' = FALSE /\ UNCHANGED <<setting, hidden, loaded>>
      BY <1>6 DEF Disconnect
    <2>2. poller' \in Poller /\ Spaced(poller') /\ ~poller'.running
      BY <1>1, <1>2, <2>1, Starts
    <2>3. ConnType'
      BY <1>1, <2>1, <2>2 DEF ConnType, Statuses
    <2> QED  BY <1>1, <2>1, <2>2, <2>3 DEF ConnInv, Spaced, SourceIsWanted, StatusIsTrue
  <1>7. CASE StreamOpens
    <2>1. /\ source = "connecting" /\ source' = "open" /\ poller' = Stop(poller)
          /\ status' = "open" /\ error' = FALSE /\ UNCHANGED <<setting, wanted, hidden, loaded>>
      BY <1>7 DEF StreamOpens, Opened, rooms
    <2>2. poller' \in Poller /\ Spaced(poller') /\ ~poller'.running
      BY <1>1, <1>2, <2>1, Starts
    <2>3. ConnType'
      BY <1>1, <2>1, <2>2 DEF ConnType, Statuses
    <2> QED  BY <1>1, <2>1, <2>2, <2>3 DEF ConnInv, Spaced, SourceIsWanted, StatusIsTrue
  <1>8. CASE StreamErrs
    <2>1. PICK next \in {"connecting", "closed"} :
            /\ source \in {"connecting", "open"} /\ source' = next
            /\ FallBack(wanted, next, TRUE) /\ UNCHANGED <<setting, wanted, hidden, loaded>>
      BY <1>8 DEF StreamErrs
    <2>2. wanted /\ wanted \in BOOLEAN /\ setting.mode # "poll"
      BY <1>1, <2>1 DEF SourceIsWanted, ConnType
    <2>3. /\ error' = TRUE /\ poller' \in Poller /\ Spaced(poller') /\ status' \in Statuses
          /\ IF setting.mode = "sse" THEN status' = next /\ UNCHANGED poller
                                     ELSE status' = "polling" /\ poller'.running
      BY <1>1, <1>2, <2>1, <2>2, FallsBack DEF Statuses
    <2>4. ConnType'
      BY <1>1, <2>1, <2>3 DEF ConnType
    <2> QED  BY <1>1, <1>2, <2>1, <2>2, <2>3, <2>4 DEF ConnInv, Spaced, SourceIsWanted, StatusIsTrue
  <1>9. CASE TimerFires \/ Pass \/ Hide \/ Show
    <2>1. /\ UNCHANGED <<setting, wanted, source, status, error, loaded>>
          /\ poller' \in Poller /\ Spaced(poller') /\ poller'.running = poller.running
          /\ hidden' \in BOOLEAN
      <3>1. UNCHANGED <<setting, wanted, source, status, error, loaded>>
        BY <1>9 DEF TimerFires, Pass, Hide, Show, stream, rooms
      <3> QED  BY <1>1, <1>9, <3>1, TimerSteps
    <2>2. ConnType'
      BY <1>1, <2>1 DEF ConnType
    <2> QED  BY <1>1, <2>1, <2>2 DEF ConnInv, Spaced, SourceIsWanted, StatusIsTrue
  <1>10. ASSUME NEW s \in Threads \cup {List}, PollServed(s) \/ PollFails(s) \/ PollLands(s)
         PROVE  ConnInv'
    <2>1. /\ poller' \in Poller /\ Spaced(poller') /\ poller'.running = poller.running
          /\ UNCHANGED <<setting, wanted, source, status, error, hidden>> /\ loaded' \subseteq loaded
      BY <1>1, <1>10, PollSteps DEF stream
    <2>2. ConnType'
      BY <1>1, <2>1 DEF ConnType
    <2> QED  BY <1>1, <2>1, <2>2 DEF ConnInv, Spaced, SourceIsWanted, StatusIsTrue
  <1>11. CASE \/ LateOpen \/ UNCHANGED vars
              \/ \E t \in Threads : OpenThread(t) \/ LoseUser(t) \/ AddUser(t) \/ RemovalArrives(t)
    <2>1. /\ UNCHANGED <<setting, wanted, source, status, error, poller, hidden>>
          /\ loaded' \subseteq Threads
      BY <1>1, <1>11 DEF LateOpen, OpenThread, LoseUser, AddUser, RemovalArrives, vars, stream,
                        rooms, ConnType
    <2>2. ConnType'
      BY <1>1, <2>1 DEF ConnType
    <2> QED  BY <1>1, <2>1, <2>2 DEF ConnInv, Spaced, SourceIsWanted, StatusIsTrue
  <1> QED  BY <1>3, <1>4, <1>5, <1>6, <1>7, <1>8, <1>9, <1>10, <1>11 DEF Next, Connects

LEMMA ConnInvariant == Spec => []ConnInv
  <1>1. ConnInv /\ [Next]_vars => ConnInv'
    BY ConnSteps
  <1> QED  BY <1>1, InitHolds, PTL DEF Spec
-----------------------------------------------------------------------------
(* The snapshot tells the truth: an open stream is open and nothing polls beside
   it, "polling" is a poller that runs, a client that was closed has neither, and
   one that wants to be connected and may poll is never left with nothing. *)
THEOREM StatusCorrect == Spec => []StatusIsTrue
  <1>1. ConnInv => StatusIsTrue
    BY DEF ConnInv
  <1> QED  BY <1>1, ConnInvariant, PTL

(* Polls never overlap, and two follow each other within an interval only when
   one of them is the catch-up of a tab that was shown, however often the stream
   comes and goes, the tab is hidden and the host reconnects. *)
THEOREM PollsSpaced == Spec => []PollsAreSpaced
  <1>1. ConnInv => PollsAreSpaced
    BY DEF ConnInv, Spaced, PollsAreSpaced
  <1> QED  BY <1>1, ConnInvariant, PTL
-----------------------------------------------------------------------------
(* The types.                                                               *)

Sent == [own : BOOLEAN, text : Nat]
Msg == [seq : Nat \ {0}, own : BOOLEAN, text : Nat]
Event == [type : {"created", "updated"}, stamp : Nat, msg : Msg]
           \union [type : {"removed"}, stamp : Nat]
Unreads == [unread : Nat]
PageAnswer == [rows : SUBSET Msg, next : Nat]

Answer(k) ==
  IF k \in {"list", "pollList", "backfill"} THEN Unreads
  ELSE IF k \in {"page", "pollPage", "older"} THEN PageAnswer
  ELSE Msg \union {Nothing}

\* Rows of messages that were sent, with a cursor among their numbers.
RealRows(rows) == \A m \in rows : m.seq \in Seqs
RealPage(p) == RealRows(p.rows) /\ p.next \in 0 .. Len(msgs)

AskedCall == [phase : {"asked"}, input : Nat]
AnsweredCall(k) ==
  [phase : {"answered"}, ok : BOOLEAN, ans : Answer(k), stamp : 0 .. stamp, input : Nat]

\* A call c of kind k.  The input of a page is its cursor, 0 for the first one.
CallType(k, c) ==
  /\ c \in {Idle} \union AskedCall \union AnsweredCall(k)
  /\ c # Idle /\ k = "page" => c.input = 0
  /\ c # Idle /\ k = "older" => c.input \in Seqs
  /\ c.phase = "answered" /\ k \in {"page", "older", "pollPage"} => RealPage(c.ans)
  /\ c.phase = "answered" /\ k = "send" => (c.ok => c.ans \in Msg /\ c.ans.seq \in Seqs)

ServerType ==
  /\ msgs \in Seq(Sent)
  /\ read \in Nat /\ member \in BOOLEAN /\ stamp \in Nat /\ down \in BOOLEAN

Wire == {wire[i] : i \in DOMAIN wire}

EventType(e) ==
  /\ e.stamp <= stamp
  /\ e.type # "removed" => e.msg.seq \in Seqs

WireType == wire \in Seq(Event) /\ \A e \in Wire : EventType(e)

CallsType ==
  /\ call = [k \in Kinds |-> call[k]]
  /\ \A k \in Kinds : CallType(k, call[k])

PageType(p) ==
  /\ p \in [loaded : {TRUE}, rows : SUBSET Msg, next : Nat] \union {Nothing}
  /\ p.loaded => RealPage(p)

SurfacesType ==
  /\ row \in [loaded : BOOLEAN, there : BOOLEAN, unread : Nat]
  /\ PageType(page)
  /\ seenSeq \in 0 .. Len(msgs)
  /\ ghost \in [newest : 0 .. stamp, inOrder : BOOLEAN, asks : Nat, edits : Nat, breaks : Nat]

CacheType == ServerType /\ WireType /\ CallsType /\ SurfacesType
-----------------------------------------------------------------------------
(* What is still on its way.                                                *)

NewAfter(q, s) == \E e \in Wire : e.type = "created" /\ e.msg.seq = q /\ e.stamp > s
PendingAfter(q, s) == \E e \in Wire : e.type # "removed" /\ e.msg.seq = q /\ e.stamp > s

InRows(q, rows) == \E m \in rows : m.seq = q
Between(q, n, end) == q >= n /\ (end = 0 \/ q < end)
Covers(n, end, rows, s) ==
  \A q \in Seqs : Between(q, n, end) => InRows(q, rows) \/ NewAfter(q, s)
TrueRows(rows, s) == \A m \in rows : m = Message(m.seq) \/ PendingAfter(m.seq, s)
CursorIsShown(p) == p.next = 0 \/ InRows(p.next, p.rows)
LaterAreNewer(q, s) == \A e \in Wire : e.type = "created" /\ e.stamp > s => e.msg.seq > q
Due(s) == {q \in Seqs : q > read /\ ~msgs[q].own /\ ~NewAfter(q, s)}

\* Nothing was lost or overtaken, and nothing on its way has been.
Straight ==
  /\ ghost.inOrder /\ ghost.breaks = 0 /\ member
  /\ \A e \in Wire : OwnEcho(e) \/ e.stamp > ghost.newest
  /\ \A k \in Kinds : call[k].phase = "answered" => call[k].stamp >= ghost.newest

\* Before the stream breaks, the poller is quiet.
Quiet == ghost.breaks = 0 => ~down /\ \A k \in PollCalls : call[k] = Idle

\* A refusal or a removal tells of a viewer who is gone.
RefusedAreGone ==
  member => /\ \A e \in Wire : e.type # "removed"
            /\ \A k \in Kinds : call[k].phase = "answered" => call[k].ok

WireIsTrue ==
  /\ \A e, f \in Wire : (e.type # "removed" /\ f.type = "created" /\ f.stamp > e.stamp)
                          => f.msg.seq > e.msg.seq
  /\ \A e \in Wire : e.type # "removed" =>
        /\ e.msg.own = msgs[e.msg.seq].own
        /\ e.msg.own => e.msg = Message(e.msg.seq)

WireIsCurrent ==
  \A e \in Wire : e.type # "removed" =>
     e.msg = Message(e.msg.seq) \/ PendingAfter(e.msg.seq, e.stamp)

\* What a page p, a row r, a highest seq n and an answered call c show, but for
\* what is on its way.
PageFits(p) ==
  p.loaded => /\ Covers(p.next, 0, p.rows, 0)
              /\ TrueRows(p.rows, 0)
              /\ CursorIsShown(p)

RowFits(r) == r.there => r.loaded /\ Cardinality(Due(0)) <= r.unread

SeenFits(n) == \A e \in Wire : e.type = "created" /\ ~e.msg.own => e.msg.seq > n

RowsFit(p, end, s) ==
  /\ Covers(p.next, end, p.rows, s)
  /\ TrueRows(p.rows, s)
  /\ CursorIsShown(p)
  /\ \A m \in p.rows : LaterAreNewer(m.seq, s)

MessageFits(m, s) ==
  m \in Msg /\ m.seq \in Seqs /\ m.own /\ m = Message(m.seq) /\ LaterAreNewer(m.seq, s)

\* An answer shows the state of its stamp.
CallFits(k, c) ==
  c.phase = "answered" =>
    /\ (k \in {"list", "backfill"} => Cardinality(Due(c.stamp)) <= c.ans.unread)
    /\ (k \in {"page", "older"} => RowsFit(c.ans, c.input, c.stamp))
    /\ (k = "send" => MessageFits(c.ans, c.stamp))
    /\ (k = "read" => read >= c.input)

Fits ==
  /\ WireIsCurrent /\ PageFits(page) /\ RowFits(row) /\ SeenFits(seenSeq)
  /\ \A k \in Kinds : CallFits(k, call[k])

Current == Straight => Fits

CacheInv == CacheType /\ Quiet /\ RefusedAreGone /\ WireIsTrue /\ Current
-----------------------------------------------------------------------------
(* Numbers, sets of them, and queues.                                       *)

LEMMA Sizes == PageSize \in Nat /\ PageSize >= 1
  BY ClientCacheAssumption

LEMMA HighestOne ==
  ASSUME NEW n \in Nat, NEW S \in SUBSET (0 .. n), S # {}
  PROVE  Max(S) \in S /\ \A y \in S : Max(S) >= y
  <1> DEFINE Above(x) == {y \in S : y > x}
             F == {Above(x) : x \in S}
  <1> S \subseteq Int /\ \A x \in S : x >= 0 /\ x <= n
    OBVIOUS
  <1>1. IsFiniteSet(S)
    <2>1. IsFiniteSet(0 .. n)
      BY FS_Interval, 0 \in Int, n \in Int
    <2> QED  BY <2>1, FS_Subset
  <1>2. IsWellFoundedOn(StrictSubsetOrdering(S), FiniteSubsetsOf(S))
    BY FS_StrictSubsetOrderingWellFounded
  <1>3. F \subseteq FiniteSubsetsOf(S) /\ F # {}
    <2>1. FiniteSubsetsOf(S) = SUBSET S
      BY <1>1, FS_FiniteSubsetsOfFinite
    <2>2. \A x \in S : Above(x) \subseteq S
      OBVIOUS
    <2> HIDE DEF Above
    <2>3. F \subseteq SUBSET S
      BY <2>2
    <2>4. PICK x \in S : TRUE
      OBVIOUS
    <2>5. Above(x) \in F
      BY <2>4
    <2> HIDE DEF F
    <2> QED  BY <2>1, <2>3, <2>5
  <1>4. PICK x \in S : \A y \in S : Above(y) \subseteq Above(x) => Above(y) = Above(x)
    <2>1. \A y \in S : Above(y) \in F
      OBVIOUS
    <2>2. \A X \in F : \E x \in S : X = Above(x)
      OBVIOUS
    <2> HIDE DEF F
    <2>3. PICK X \in F : \A Y \in F : ~(<<Y, X>> \in StrictSubsetOrdering(S))
      BY <1>2, <1>3, WFMin
    <2>4. PICK x \in S : X = Above(x)
      BY <2>2
    <2>5. ASSUME NEW y \in S, Above(y) \subseteq Above(x) PROVE Above(y) = Above(x)
      BY <2>1, <2>3, <2>4, <2>5 DEF StrictSubsetOrdering
    <2> QED  BY <2>5
  <1>5. ASSUME NEW y \in S, y > x
        PROVE  FALSE
    <2>1. x \in Int /\ y \in Int /\ \A z \in S : z \in Int
      OBVIOUS
    <2>2. \A z \in S : z > y => z > x
      BY <1>5, <2>1
    <2>3. Above(y) \subseteq Above(x)
      BY <2>2
    <2>4. y \in Above(x) /\ y \notin Above(y)
      BY <1>5, <2>1
    <2> QED  BY <1>4, <2>3, <2>4
  <1>6. \A y \in S : x >= y
    BY <1>5
  <1> QED  BY <1>6 DEF Max

LEMMA LowestOne ==
  ASSUME NEW n \in Nat, NEW S \in SUBSET (0 .. n), S # {}
  PROVE  Min(S) \in S /\ \A y \in S : Min(S) =< y
  <1> DEFINE T == {n - x : x \in S}
  <1>1. T \in SUBSET (0 .. n) /\ T # {}
    <2>1. \A x \in S : n - x \in 0 .. n
      OBVIOUS
    <2> QED  BY <2>1
  <1>2. PICK t \in T : \A u \in T : t >= u
    BY <1>1, HighestOne
  <1>3. PICK x \in S : t = n - x
    BY <1>2
  <1>4. \A y \in S : n - y \in T
    OBVIOUS
  <1>5. \A y \in S : x =< y
    <2> HIDE DEF T
    <2> QED  BY <1>2, <1>3, <1>4
  <1> QED  BY <1>5 DEF Min

LEMMA MaxOfTwo ==
  ASSUME NEW a \in Nat, NEW b \in Nat
  PROVE  /\ Max({a, b}) \in Nat /\ Max({a, b}) >= a /\ Max({a, b}) >= b
         /\ Max({a, b}) = a \/ Max({a, b}) = b
  <1>1. \E x \in {a, b} : \A y \in {a, b} : x >= y
    OBVIOUS
  <1> QED  BY <1>1 DEF Max

\* The highest seq of rows: 0 for none, else one of theirs and none below another.
LEMMA Highest ==
  ASSUME NEW n \in Nat, NEW rows, \A m \in rows : m.seq \in 1 .. n
  PROVE  /\ HighestSeq(rows) \in 0 .. n
         /\ \A m \in rows : m.seq <= HighestSeq(rows)
         /\ HighestSeq(rows) = 0 \/ \E m \in rows : m.seq = HighestSeq(rows)
  <1> DEFINE S == {m.seq : m \in rows} \union {0}
  <1>1. S \in SUBSET (0 .. n) /\ S # {}
    OBVIOUS
  <1>2. \A m \in rows : m.seq \in S
    OBVIOUS
  <1>3. \A x \in S : x = 0 \/ \E m \in rows : m.seq = x
    OBVIOUS
  <1>4. HighestSeq(rows) = Max(S)
    BY DEF HighestSeq
  <1> HIDE DEF S
  <1>5. Max(S) \in S /\ \A y \in S : Max(S) >= y
    BY <1>1, HighestOne
  <1>6. Max(S) \in 0 .. n
    BY <1>1, <1>5
  <1>7. \A m \in rows : m.seq <= Max(S)
    BY <1>1, <1>2, <1>5, <1>6
  <1> QED  BY <1>3, <1>4, <1>5, <1>6, <1>7

\* The newest of b messages are the last ones: all, or those from a first one on.
LEMMA NewestOnes ==
  ASSUME NEW b \in Nat
  PROVE  /\ Newest(1 .. b) \subseteq 1 .. b
         /\ \A q, r \in 1 .. b : q \in Newest(1 .. b) /\ r >= q => r \in Newest(1 .. b)
         /\ Newest(1 .. b) = {} => b = 0
  <1>1. \A q \in 1 .. b : IsFiniteSet({r \in 1 .. b : r > q})
    <2>1. IsFiniteSet(1 .. b)
      BY FS_Interval, 1 \in Int, b \in Int
    <2>2. \A q : {r \in 1 .. b : r > q} \subseteq 1 .. b
      OBVIOUS
    <2> QED  BY <2>1, <2>2, FS_Subset
  <1>2. ASSUME NEW q \in 1 .. b, NEW r \in 1 .. b, q \in Newest(1 .. b), r >= q
        PROVE  r \in Newest(1 .. b)
    <2> DEFINE X == {x \in 1 .. b : x > r}
               Y == {x \in 1 .. b : x > q}
    <2>1. X \subseteq Y /\ IsFiniteSet(Y)
      BY <1>1, <1>2
    <2>2. Cardinality(X) <= Cardinality(Y) /\ Cardinality(X) \in Nat /\ Cardinality(Y) \in Nat
      BY <2>1, FS_Subset, FS_CardinalityType
    <2>3. Cardinality(Y) < PageSize
      BY <1>2 DEF Newest
    <2>4. Cardinality(X) < PageSize
      <3> HIDE DEF X, Y
      <3> QED  BY <2>2, <2>3, Sizes
    <2> QED  BY <2>4 DEF Newest
  <1>3. ASSUME b # 0
        PROVE  b \in Newest(1 .. b)
    <2>1. {r \in 1 .. b : r > b} = {} /\ b \in 1 .. b
      BY <1>3
    <2>2. Cardinality({r \in 1 .. b : r > b}) = 0
      BY <2>1, FS_EmptySet
    <2> QED  BY <2>1, <2>2, Sizes DEF Newest
  <1>4. Newest(1 .. b) \subseteq 1 .. b
    BY DEF Newest
  <1> QED  BY <1>2, <1>3, <1>4

LEMMA Appended ==
  ASSUME NEW S, NEW s \in Seq(S), NEW x \in S
  PROVE  /\ Append(s, x) \in Seq(S) /\ Len(Append(s, x)) = Len(s) + 1
         /\ DOMAIN s = 1 .. Len(s) /\ Len(s) \in Nat
         /\ DOMAIN Append(s, x) = 1 .. Len(s) + 1
         /\ \A i \in 1 .. Len(s) : Append(s, x)[i] = s[i]
         /\ Append(s, x)[Len(s) + 1] = x
  BY AppendProperties, LenProperties

\* What is left of a queue without its i-th element.
LEMMA Removed ==
  ASSUME NEW S, NEW s \in Seq(S), NEW i \in DOMAIN s
  PROVE  /\ RemoveAt(s, i) \in Seq(S)
         /\ {RemoveAt(s, i)[k] : k \in DOMAIN RemoveAt(s, i)} \subseteq {s[k] : k \in DOMAIN s}
         /\ \A k \in DOMAIN s : k # i =>
              s[k] \in {RemoveAt(s, i)[j] : j \in DOMAIN RemoveAt(s, i)}
  <1> DEFINE a == SubSeq(s, 1, i - 1)
             b == SubSeq(s, i + 1, Len(s))
             n == Len(s)
  <1>1. n \in Nat /\ i \in Nat /\ 1 <= i /\ i <= n /\ DOMAIN s = 1 .. n
    BY LenProperties
  <1>2. /\ a \in Seq(S) /\ Len(a) = i - 1 /\ \A k \in 1 .. (i - 1) : a[k] = s[k]
    <2>1. 1 \in 1 .. n + 1 /\ i - 1 \in 1 - 1 .. n
      BY <1>1
    <2> QED  BY <1>1, <2>1, SubSeqProperties
  <1>3. /\ b \in Seq(S) /\ Len(b) = n - i /\ \A k \in 1 .. (n - i) : b[k] = s[i + k]
    BY <1>1, SubSeqProperties
  <1>4. RemoveAt(s, i) = a \o b
    BY DEF RemoveAt
  <1> HIDE DEF a, b
  <1>5. /\ a \o b \in Seq(S) /\ Len(a \o b) = Len(a) + Len(b)
        /\ \A k \in 1 .. Len(a) + Len(b) :
             (a \o b)[k] = IF k <= Len(a) THEN a[k] ELSE b[k - Len(a)]
    BY <1>2, <1>3, ConcatProperties
  <1>6. DOMAIN (a \o b) = 1 .. (n - 1)
    <2>1. Len(a \o b) = n - 1
      BY <1>1, <1>2, <1>3, <1>5
    <2>2. DOMAIN (a \o b) = 1 .. Len(a \o b)
      BY <1>5, LenProperties
    <2> QED  BY <2>1, <2>2
  <1> HIDE DEF n
  <1>7. \A k \in 1 .. (n - 1) : (a \o b)[k] = IF k <= i - 1 THEN s[k] ELSE s[k + 1]
    <2> SUFFICES ASSUME NEW k \in 1 .. (n - 1)
                 PROVE  (a \o b)[k] = IF k <= i - 1 THEN s[k] ELSE s[k + 1]
      OBVIOUS
    <2>1. (a \o b)[k] = IF k <= i - 1 THEN a[k] ELSE b[k - (i - 1)]
      BY <1>1, <1>2, <1>3, <1>5
    <2>2. CASE k <= i - 1
      BY <1>1, <1>2, <2>1, <2>2
    <2>3. CASE ~(k <= i - 1)
      <3>1. k - (i - 1) \in 1 .. (n - i) /\ i + (k - (i - 1)) = k + 1
        BY <1>1, <2>3
      <3> QED  BY <1>3, <2>1, <2>3, <3>1
    <2> QED  BY <2>2, <2>3
  <1>8. ASSUME NEW k \in 1 .. (n - 1)
        PROVE  (a \o b)[k] \in {s[j] : j \in 1 .. n}
    <2>1. k \in 1 .. n /\ k + 1 \in 1 .. n
      BY <1>1
    <2> QED  BY <1>7, <2>1
  <1>9. ASSUME NEW k \in 1 .. n, k # i
        PROVE  s[k] \in {(a \o b)[j] : j \in 1 .. (n - 1)}
    <2>1. CASE k < i
      <3>1. k \in 1 .. (n - 1) /\ k <= i - 1
        BY <1>1, <2>1
      <3> QED  BY <1>7, <3>1
    <2>2. CASE k > i
      <3>1. k - 1 \in 1 .. (n - 1) /\ ~(k - 1 <= i - 1) /\ (k - 1) + 1 = k
        BY <1>1, <2>2
      <3> QED  BY <1>7, <3>1
    <2>3. k < i \/ k > i
      BY <1>1, <1>9
    <2> QED  BY <2>1, <2>2, <2>3
  <1> QED  BY <1>1, <1>4, <1>5, <1>6, <1>8, <1>9, ZenonT(40)
-----------------------------------------------------------------------------
(* Messages and pages of them.                                              *)

LEMMA MessagesAreReal ==
  ASSUME ServerType
  PROVE  /\ Len(msgs) \in Nat /\ Seqs = 1 .. Len(msgs)
         /\ \A q \in Seqs : msgs[q] \in Sent /\ Message(q) \in Msg /\ Message(q).seq = q
                            /\ Message(q).own = msgs[q].own
  <1>1. Len(msgs) \in Nat /\ Seqs = 1 .. Len(msgs)
    BY LenProperties DEF ServerType, Seqs
  <1>2. ASSUME NEW q \in Seqs
        PROVE  msgs[q] \in Sent
    BY <1>1, <1>2, ElementOfSeq DEF ServerType
  <1>3. ASSUME NEW q \in Seqs
        PROVE  Message(q) \in Msg /\ Message(q).seq = q /\ Message(q).own = msgs[q].own
    <2>1. q \in Nat \ {0} /\ msgs[q].own \in BOOLEAN /\ msgs[q].text \in Nat
      BY <1>1, <1>2, <1>3 DEF Sent
    <2> QED  BY <2>1 DEF Message, Msg
  <1> QED  BY <1>1, <1>2, <1>3

\* A page of the first b messages is made of true rows, and reaches back to its cursor.
LEMMA Pages ==
  ASSUME ServerType, NEW b \in Nat, b <= Len(msgs)
  PROVE  /\ PageOf(1 .. b) \in PageAnswer /\ RealPage(PageOf(1 .. b))
         /\ \A m \in PageOf(1 .. b).rows : m = Message(m.seq) /\ m.seq \in 1 .. b
         /\ \A q \in 1 .. b : q >= PageOf(1 .. b).next => InRows(q, PageOf(1 .. b).rows)
         /\ CursorIsShown(PageOf(1 .. b))
  <1> DEFINE new == Newest(1 .. b)
             p == PageOf(1 .. b)
  <1>1. /\ new \subseteq 1 .. b
        /\ \A q, r \in 1 .. b : q \in new /\ r >= q => r \in new
        /\ new = {} => b = 0
    BY NewestOnes
  <1>2. 1 .. b \subseteq Seqs /\ Len(msgs) \in Nat /\ Seqs = 1 .. Len(msgs)
    BY MessagesAreReal
  <1>3. /\ p.rows = {Message(q) : q \in new}
        /\ p.next = IF new = 1 .. b THEN 0 ELSE Min(new)
        /\ p = [rows |-> p.rows, next |-> p.next]
    <2> DEFINE R == {Message(q) : q \in new}
               N == IF new = 1 .. b THEN 0 ELSE Min(new)
    <2>1. p = [rows |-> R, next |-> N]
      BY DEF PageOf
    <2> HIDE DEF R, N, p, new
    <2>2. p.rows = R /\ p.next = N
      BY <2>1
    <2> QED  BY <2>1, <2>2 DEF R, N
  <1> HIDE DEF new, p
  <1>4. new # 1 .. b => Min(new) \in new /\ \A q \in new : Min(new) =< q
    <2>1. new # 1 .. b => new # {}
      <3>1. b = 0 => 1 .. b = {}
        OBVIOUS
      <3> QED  BY <1>1, <3>1
    <2>2. new \in SUBSET (0 .. b)
      BY <1>1
    <2> QED  BY <2>1, <2>2, LowestOne
  <1>5. \A m \in p.rows : m = Message(m.seq) /\ m.seq \in new /\ m \in Msg
    BY <1>1, <1>2, <1>3, MessagesAreReal
  <1>6. \A q \in new : InRows(q, p.rows)
    BY <1>1, <1>2, <1>3, MessagesAreReal DEF InRows
  <1>7. p.next \in 0 .. b
    BY <1>1, <1>3, <1>4
  <1>8. ASSUME NEW q \in 1 .. b, q >= p.next
        PROVE  q \in new
    BY <1>1, <1>3, <1>4, <1>8
  <1>9. CursorIsShown(p)
    BY <1>3, <1>4, <1>6 DEF CursorIsShown
  <1>10. p \in PageAnswer
    BY <1>3, <1>5, <1>7 DEF PageAnswer
  <1>11. RealPage(p)
    <2>1. \A m \in p.rows : m.seq \in Seqs
      BY <1>1, <1>2, <1>5
    <2>2. p.next \in 0 .. Len(msgs)
      BY <1>2, <1>7
    <2> QED  BY <2>1, <2>2 DEF RealPage, RealRows
  <1> QED  BY <1>1, <1>5, <1>6, <1>8, <1>9, <1>10, <1>11 DEF p

LEMMA LoadedPage ==
  ASSUME NEW p, PageType(p), p.loaded
  PROVE  /\ p \in [loaded : {TRUE}, rows : SUBSET Msg, next : Nat]
         /\ p.rows \subseteq Msg /\ RealRows(p.rows) /\ p.next \in 0 .. Len(msgs)
  <1>1. Nothing.loaded = FALSE
    BY DEF Nothing
  <1>2. p # Nothing
    BY <1>1
  <1> QED  BY <1>2 DEF PageType, RealPage

LEMMA DueIsFinite ==
  ASSUME ServerType, NEW s
  PROVE  /\ IsFiniteSet(Due(s)) /\ Cardinality(Due(s)) \in Nat
         /\ \A T \in SUBSET Due(s) : Cardinality(T) <= Cardinality(Due(s)) /\ Cardinality(T) \in Nat
  <1>1. Due(s) \subseteq 1 .. Len(msgs) /\ Len(msgs) \in Nat
    BY MessagesAreReal DEF Due
  <1>2. IsFiniteSet(1 .. Len(msgs))
    BY <1>1, FS_Interval, 1 \in Int, Len(msgs) \in Int
  <1>3. IsFiniteSet(Due(s))
    BY <1>1, <1>2, FS_Subset
  <1> QED  BY <1>3, FS_Subset, FS_CardinalityType
-----------------------------------------------------------------------------
(* The types are kept.                                                      *)

Grows ==
  /\ stamp' \in Nat /\ stamp' >= stamp
  /\ Seqs \subseteq Seqs' /\ Len(msgs') \in Nat /\ Len(msgs') >= Len(msgs)

LEMMA Types ==
  ASSUME CacheType, Grows
  PROVE  /\ \A k, c : CallType(k, c) => CallType(k, c)'
         /\ \A p : PageType(p) => PageType(p)'
         /\ \A p : RealPage(p) => RealPage(p)'
         /\ \A e \in Event : EventType(e) => EventType(e)'
         /\ \A n \in 0 .. Len(msgs) : n \in 0 .. Len(msgs')
         /\ \A n \in 0 .. stamp : n \in 0 .. stamp'
  <1>1. stamp \in Nat /\ Len(msgs) \in Nat /\ stamp' \in Nat /\ stamp' >= stamp
        /\ Seqs \subseteq Seqs' /\ Len(msgs') \in Nat /\ Len(msgs') >= Len(msgs)
    BY MessagesAreReal DEF CacheType, ServerType, Grows
  <1>2. /\ \A n \in 0 .. Len(msgs) : n \in 0 .. Len(msgs')
        /\ \A n \in 0 .. stamp : n \in 0 .. stamp'
    BY <1>1
  <1>3. ASSUME NEW p, RealPage(p) PROVE RealPage(p)'
    BY <1>1, <1>2, <1>3 DEF RealPage, RealRows
  <1>4. ASSUME NEW p, PageType(p) PROVE PageType(p)'
    BY <1>3, <1>4 DEF PageType
  <1>5. ASSUME NEW e \in Event, EventType(e) PROVE EventType(e)'
    <2>1. e.stamp \in Nat
      BY DEF Event
    <2> QED  BY <1>1, <1>5, <2>1 DEF EventType
  <1>6. ASSUME NEW k, NEW c, CallType(k, c) PROVE CallType(k, c)'
    <2>1. c \in AnsweredCall(k) => c \in AnsweredCall(k)'
      BY <1>2 DEF AnsweredCall
    <2>2. c \in {Idle} \union AskedCall \union AnsweredCall(k)'
      BY <1>6, <2>1 DEF CallType
    <2>3. /\ c # Idle /\ k = "page" => c.input = 0
          /\ c # Idle /\ k = "older" => c.input \in Seqs'
          /\ c.phase = "answered" /\ k \in {"page", "older", "pollPage"} => RealPage(c.ans)'
          /\ c.phase = "answered" /\ k = "send" => (c.ok => c.ans \in Msg /\ c.ans.seq \in Seqs')
      BY <1>1, <1>3, <1>6 DEF CallType
    <2> QED  BY <2>2, <2>3 DEF CallType
  <1> QED  BY <1>2, <1>3, <1>4, <1>5, <1>6

LEMMA CallsKeepType ==
  ASSUME CacheType, Grows, NEW k \in Kinds, NEW c, CallType(k, c)',
         call' = [call EXCEPT ![k] = c]
  PROVE  CallsType'
  <1>1. call' = [j \in Kinds |-> call'[j]]
    BY DEF CacheType, CallsType
  <1>2. ASSUME NEW j \in Kinds PROVE CallType(j, call[j])'
    <2>1. CASE j = k
      <3>1. call'[j] = c
        BY <2>1 DEF CacheType, CallsType
      <3> QED  BY <2>1, <3>1
    <2>2. CASE j # k
      <3> PICK d : d = call[j]
        OBVIOUS
      <3>1. call'[j] = d /\ CallType(j, d)
        BY <2>2 DEF CacheType, CallsType
      <3>2. CallType(j, d)'
        BY <3>1, Types
      <3> QED  BY <3>1, <3>2
    <2> QED  BY <2>1, <2>2
  <1> QED  BY <1>1, <1>2 DEF CallsType
-----------------------------------------------------------------------------
(* What a step carries over.  Whatever was as new as the state of stamp s,  *)
(* but for what was on its way, still is.                                   *)

Carries(s) ==
  /\ Seqs \subseteq Seqs' /\ read' >= read
  /\ \A q \in Seqs : msgs'[q].own = msgs[q].own /\ (msgs[q].own => msgs'[q] = msgs[q])
  /\ \A q \in Seqs' \ Seqs : NewAfter(q, s)'
  /\ \A q \in Seqs : Message(q)' = Message(q) \/ PendingAfter(q, s)'
  /\ \A q : NewAfter(q, s) => NewAfter(q, s)'
  /\ \A q : PendingAfter(q, s) => PendingAfter(q, s)'
  /\ \A e \in Wire' : e.type = "created" => e \in Wire \/ \A q \in Seqs : e.msg.seq > q

LEMMA RowsCarry ==
  ASSUME CacheType, CacheType', NEW s, Carries(s)
  PROVE  /\ \A q \in Seqs : LaterAreNewer(q, s) => LaterAreNewer(q, s)'
         /\ \A rows : RealRows(rows) /\ TrueRows(rows, s) => TrueRows(rows, s)'
         /\ \A n, end, rows : Covers(n, end, rows, s) => Covers(n, end, rows, s)'
         /\ Due(s)' \subseteq Due(s)
         /\ Cardinality(Due(s)') <= Cardinality(Due(s))
         /\ Cardinality(Due(s)') \in Nat /\ Cardinality(Due(s)) \in Nat
  <1>1. ASSUME NEW q \in Seqs, LaterAreNewer(q, s) PROVE LaterAreNewer(q, s)'
    BY <1>1 DEF LaterAreNewer, Carries
  <1>2. ASSUME NEW rows, RealRows(rows), TrueRows(rows, s) PROVE TrueRows(rows, s)'
    <2> SUFFICES ASSUME NEW m \in rows PROVE m = Message(m.seq)' \/ PendingAfter(m.seq, s)'
      BY DEF TrueRows
    <2>1. m.seq \in Seqs
      BY <1>2 DEF RealRows
    <2>2. m = Message(m.seq) \/ PendingAfter(m.seq, s)
      BY <1>2 DEF TrueRows
    <2>3. /\ Message(m.seq)' = Message(m.seq) \/ PendingAfter(m.seq, s)'
          /\ PendingAfter(m.seq, s) => PendingAfter(m.seq, s)'
      BY <2>1 DEF Carries
    <2> QED  BY <2>2, <2>3
  <1>3. ASSUME NEW n, NEW end, NEW rows, Covers(n, end, rows, s) PROVE Covers(n, end, rows, s)'
    <2> SUFFICES ASSUME NEW q \in Seqs', Between(q, n, end)
                 PROVE  InRows(q, rows) \/ NewAfter(q, s)'
      BY DEF Covers, Between, InRows
    <2>1. CASE q \in Seqs
      <3>1. InRows(q, rows) \/ NewAfter(q, s)
        BY <1>3, <2>1 DEF Covers
      <3>2. NewAfter(q, s) => NewAfter(q, s)'
        BY DEF Carries
      <3> QED  BY <3>1, <3>2
    <2>2. CASE q \notin Seqs
      BY <2>2 DEF Carries
    <2> QED  BY <2>1, <2>2
  <1>4. Due(s)' \subseteq Due(s)
    <2> SUFFICES ASSUME NEW q \in Seqs', q > read', ~msgs'[q].own, ~NewAfter(q, s)'
                 PROVE  q \in Due(s)
      BY DEF Due
    <2>1. q \in Seqs
      BY DEF Carries
    <2>2. msgs'[q].own = msgs[q].own /\ ~NewAfter(q, s) /\ read' >= read
      BY <2>1 DEF Carries
    <2>3. q \in Nat /\ read \in Nat /\ read' \in Nat
      BY <2>1, MessagesAreReal DEF CacheType, ServerType
    <2>4. q > read
      BY <2>2, <2>3
    <2> QED  BY <2>1, <2>2, <2>4 DEF Due
  <1>5. Cardinality(Due(s)') <= Cardinality(Due(s)) /\ Cardinality(Due(s)') \in Nat
        /\ Cardinality(Due(s)) \in Nat
    <2> PICK T : T = Due(s)'
      OBVIOUS
    <2>1. T \in SUBSET Due(s)
      BY <1>4
    <2>2. /\ Cardinality(T) <= Cardinality(Due(s)) /\ Cardinality(T) \in Nat
          /\ Cardinality(Due(s)) \in Nat
      BY <2>1, DueIsFinite DEF CacheType
    <2> QED  BY <2>2
  <1> QED  BY <1>1, <1>2, <1>3, <1>4, <1>5

\* ... and so a page, a row, a highest seq and an answer fit as they did.
LEMMA SurfacesCarry ==
  ASSUME CacheType, CacheType', Carries(0)
  PROVE  /\ \A p : PageType(p) /\ PageFits(p) => PageFits(p)'
         /\ \A r : RowFits(r) /\ r.unread \in Nat => RowFits(r)'
         /\ \A n \in 0 .. Len(msgs) : SeenFits(n) => SeenFits(n)'
  <1>1. ASSUME NEW p, PageType(p), PageFits(p) PROVE PageFits(p)'
    <2> SUFFICES ASSUME p.loaded
                 PROVE  Covers(p.next, 0, p.rows, 0)' /\ TrueRows(p.rows, 0)' /\ CursorIsShown(p)
      BY DEF PageFits, CursorIsShown, InRows
    <2>1. Covers(p.next, 0, p.rows, 0) /\ TrueRows(p.rows, 0) /\ CursorIsShown(p)
      BY <1>1 DEF PageFits
    <2>2. RealRows(p.rows)
      BY <1>1 DEF PageType, RealPage
    <2> QED  BY <2>1, <2>2, RowsCarry
  <1>2. ASSUME NEW r, RowFits(r), r.unread \in Nat PROVE RowFits(r)'
    <2>1. r.there => r.loaded /\ Cardinality(Due(0)) <= r.unread
      BY <1>2 DEF RowFits
    <2>2. r.there => Cardinality(Due(0)') <= r.unread
      BY <1>2, <2>1, RowsCarry
    <2> QED  BY <2>1, <2>2 DEF RowFits
  <1>3. ASSUME NEW n \in 0 .. Len(msgs), SeenFits(n) PROVE SeenFits(n)'
    <2> SUFFICES ASSUME NEW e \in Wire', e.type = "created", ~e.msg.own
                 PROVE  e.msg.seq > n
      BY DEF SeenFits
    <2>1. CASE e \in Wire
      BY <1>3, <2>1 DEF SeenFits
    <2>2. CASE \A q \in Seqs : e.msg.seq > q
      <3>1. CASE n \in Seqs
        BY <2>2, <3>1
      <3>2. CASE n = 0
        <4>1. wire' \in Seq(Event) /\ e \in {wire'[i] : i \in DOMAIN wire'}
          BY DEF CacheType, WireType, Wire
        <4>2. e \in Event
          BY <4>1, ElementOfSeq, LenProperties
        <4>3. e.msg \in Msg
          BY <4>2 DEF Event
        <4> QED  BY <3>2, <4>3 DEF Msg
      <3> QED  BY <3>1, <3>2, MessagesAreReal DEF CacheType
    <2> QED  BY <2>1, <2>2 DEF Carries
  <1> QED  BY <1>1, <1>2, <1>3

LEMMA CallCarries ==
  ASSUME CacheType, CacheType', NEW k, NEW c, CallType(k, c), CallFits(k, c),
         c.phase = "answered" => Carries(c.stamp)
  PROVE  CallFits(k, c)'
  <1> SUFFICES ASSUME c.phase = "answered"
               PROVE  /\ k \in {"list", "backfill"} => Cardinality(Due(c.stamp)') <= c.ans.unread
                      /\ k \in {"page", "older"} => RowsFit(c.ans, c.input, c.stamp)'
                      /\ k = "send" => MessageFits(c.ans, c.stamp)'
                      /\ k = "read" => read' >= c.input
    BY DEF CallFits
  <1> DEFINE s == c.stamp
  <1>1. Carries(s) /\ c \in AnsweredCall(k)
    BY DEF CallType, Idle, AskedCall
  <1>2. CASE k \in {"list", "backfill"}
    <2>1. c.ans.unread \in Nat /\ Cardinality(Due(s)) <= c.ans.unread
      BY <1>1, <1>2 DEF CallFits, AnsweredCall, Answer, Unreads
    <2>2. Cardinality(Due(s)') <= Cardinality(Due(s)) /\ Cardinality(Due(s)') \in Nat
          /\ Cardinality(Due(s)) \in Nat
      BY <1>1, RowsCarry
    <2> QED  BY <1>2, <2>1, <2>2
  <1>3. CASE k \in {"page", "older"}
    <2>1. RowsFit(c.ans, c.input, s) /\ RealRows(c.ans.rows)
      BY <1>1, <1>3 DEF CallFits, CallType, RealPage
    <2>2. \A m \in c.ans.rows : LaterAreNewer(m.seq, s)'
      BY <1>1, <2>1, RowsCarry DEF RowsFit, RealRows
    <2>3. /\ Covers(c.ans.next, c.input, c.ans.rows, s)' /\ TrueRows(c.ans.rows, s)'
      BY <1>1, <2>1, RowsCarry DEF RowsFit
    <2>4. CursorIsShown(c.ans)
      BY <2>1 DEF RowsFit
    <2> QED  BY <1>3, <2>2, <2>3, <2>4 DEF RowsFit, CursorIsShown, InRows
  <1>4. CASE k = "send"
    <2> DEFINE m == c.ans
    <2>1. m \in Msg /\ m.seq \in Seqs /\ m.own /\ m = Message(m.seq) /\ LaterAreNewer(m.seq, s)
      BY <1>4 DEF CallFits, MessageFits
    <2>2. m.seq \in Seqs' /\ LaterAreNewer(m.seq, s)'
      BY <1>1, <2>1, RowsCarry DEF Carries
    <2>3. m = Message(m.seq)'
      <3>1. msgs[m.seq].own
        BY <2>1, MessagesAreReal DEF CacheType
      <3>2. msgs'[m.seq] = msgs[m.seq]
        BY <1>1, <2>1, <3>1 DEF Carries
      <3> QED  BY <2>1, <3>2 DEF Message
    <2> QED  BY <1>4, <2>1, <2>2, <2>3 DEF MessageFits
  <1>5. CASE k = "read"
    <2>1. read >= c.input /\ read' >= read /\ c.input \in Nat /\ read \in Nat /\ read' \in Nat
      BY <1>1, <1>5 DEF CallFits, AnsweredCall, Carries, CacheType, ServerType
    <2> QED  BY <1>5, <2>1
  <1> QED  BY <1>2, <1>3, <1>4, <1>5
-----------------------------------------------------------------------------
(* Steps of the server.                                                     *)

\* The server goes on: what is new is on its way, and nothing on its way is lost.
Advance ==
  /\ Seqs \subseteq Seqs'
  /\ \A q \in Seqs : msgs'[q].own = msgs[q].own /\ (msgs[q].own => msgs'[q] = msgs[q])
  /\ Wire \subseteq Wire'
  /\ \A q \in Seqs' \ Seqs :
       \E e \in Wire' : e.type = "created" /\ e.msg.seq = q /\ e.stamp > stamp
  /\ \A q \in Seqs : \/ Message(q)' = Message(q)
                     \/ \E e \in Wire' : e.type # "removed" /\ e.msg.seq = q /\ e.stamp > stamp
  /\ \A e \in Wire' \ Wire :
       /\ e.type = "created" => \A q \in Seqs : e.msg.seq > q
       /\ e.type # "removed" => e.msg = Message(e.msg.seq)'

LEMMA WireHasEvents ==
  ASSUME WireType
  PROVE  \A e \in Wire : e \in Event /\ e.stamp \in Nat /\ e.stamp <= stamp
  <1>1. \A e \in Wire : e \in Event
    BY ElementOfSeq, LenProperties DEF WireType, Wire
  <1> QED  BY <1>1 DEF Event, WireType, EventType

LEMMA AdvanceCarries ==
  ASSUME CacheType, WireType', Advance, read' >= read
  PROVE  /\ \A s \in 0 .. stamp : Carries(s)
         /\ WireIsCurrent => WireIsCurrent'
  <1>1. stamp \in Nat /\ \A e \in Wire : e.stamp \in 0 .. stamp
    BY WireHasEvents DEF CacheType, ServerType
  <1>2. \A e \in Wire' : e.stamp \in Nat
    <2>1. wire' \in Seq(Event)
      BY DEF WireType
    <2>2. \A e \in {wire'[i] : i \in DOMAIN wire'} : e \in Event
      BY <2>1, ElementOfSeq, LenProperties
    <2> QED  BY <2>2 DEF Wire, Event
  <1>3. ASSUME NEW s \in 0 .. stamp
        PROVE  Carries(s)
    <2>1. \A q \in Seqs' \ Seqs : NewAfter(q, s)'
      <3> SUFFICES ASSUME NEW q \in Seqs' \ Seqs PROVE NewAfter(q, s)'
        OBVIOUS
      <3>1. PICK e \in Wire' : e.type = "created" /\ e.msg.seq = q /\ e.stamp > stamp
        BY DEF Advance
      <3>2. e.stamp > s
        BY <1>1, <1>2, <3>1
      <3> QED  BY <3>1, <3>2 DEF NewAfter
    <2>2. \A q \in Seqs : Message(q)' = Message(q) \/ PendingAfter(q, s)'
      <3> SUFFICES ASSUME NEW q \in Seqs, Message(q)' # Message(q) PROVE PendingAfter(q, s)'
        OBVIOUS
      <3>1. PICK e \in Wire' : e.type # "removed" /\ e.msg.seq = q /\ e.stamp > stamp
        BY DEF Advance
      <3>2. e.stamp > s
        BY <1>1, <1>2, <3>1
      <3> QED  BY <3>1, <3>2 DEF PendingAfter
    <2>3. /\ \A q : NewAfter(q, s) => NewAfter(q, s)'
          /\ \A q : PendingAfter(q, s) => PendingAfter(q, s)'
      BY DEF Advance, NewAfter, PendingAfter
    <2> QED  BY <2>1, <2>2, <2>3 DEF Carries, Advance
  <1>4. ASSUME WireIsCurrent, NEW e \in Wire', e.type # "removed"
        PROVE  e.msg = Message(e.msg.seq)' \/ PendingAfter(e.msg.seq, e.stamp)'
    <2>1. CASE e \in Wire
      <3>1. e.msg.seq \in Seqs /\ e.stamp \in 0 .. stamp
        BY <1>1, <1>4, <2>1 DEF CacheType, WireType, EventType
      <3>2. e.msg = Message(e.msg.seq) \/ PendingAfter(e.msg.seq, e.stamp)
        BY <1>4, <2>1 DEF WireIsCurrent
      <3>3. /\ Message(e.msg.seq)' = Message(e.msg.seq) \/ PendingAfter(e.msg.seq, e.stamp)'
            /\ PendingAfter(e.msg.seq, e.stamp) => PendingAfter(e.msg.seq, e.stamp)'
        BY <1>3, <3>1 DEF Carries
      <3> QED  BY <3>2, <3>3
    <2>2. CASE e \notin Wire
      BY <1>4, <2>2 DEF Advance
    <2> QED  BY <2>1, <2>2
  <1>5. WireIsCurrent => WireIsCurrent'
    BY <1>4 DEF WireIsCurrent
  <1> QED  BY <1>3, <1>5

LEMMA Emits ==
  ASSUME wire \in Seq(Event), NEW e \in Event,
         wire' = IF down THEN wire ELSE Append(wire, e)
  PROVE  /\ wire' \in Seq(Event) /\ Wire \subseteq Wire' /\ Wire' \subseteq Wire \union {e}
         /\ ~down => e \in Wire'
         /\ down => Wire' = Wire
  <1>1. CASE down
    BY <1>1 DEF Wire
  <1>2. CASE ~down
    <2> DEFINE w == Append(wire, e)
               n == Len(wire)
    <2>1. /\ w \in Seq(Event) /\ n \in Nat
          /\ DOMAIN wire = 1 .. n /\ DOMAIN w = 1 .. n + 1
          /\ \A i \in 1 .. n : w[i] = wire[i]
          /\ w[n + 1] = e
      BY Appended
    <2>2. wire' = w
      BY <1>2
    <2> HIDE DEF w, n
    <2>3. ASSUME NEW i \in 1 .. n PROVE wire[i] \in Wire'
      <3>1. i \in 1 .. n + 1 /\ w[i] = wire[i]
        BY <2>1
      <3> QED  BY <2>1, <2>2, <3>1 DEF Wire
    <2>4. ASSUME NEW i \in 1 .. n + 1 PROVE w[i] \in Wire \union {e}
      <3>1. i \in 1 .. n \/ i = n + 1
        BY <2>1
      <3> QED  BY <2>1, <3>1 DEF Wire
    <2>5. e \in Wire'
      <3>1. n + 1 \in 1 .. n + 1
        BY <2>1
      <3> QED  BY <2>1, <2>2, <3>1 DEF Wire
    <2> QED  BY <1>2, <2>1, <2>2, <2>3, <2>4, <2>5 DEF Wire
  <1> QED  BY <1>1, <1>2

\* A message is stored and announced.
LEMMA Creates ==
  ASSUME CacheType, WireIsTrue, NEW own \in BOOLEAN, Created(own)
  PROVE  /\ msgs' \in Seq(Sent) /\ stamp' = stamp + 1 /\ Grows
         /\ WireType' /\ WireIsTrue' /\ \A e \in Wire' : e \in Wire \/ e.type = "created"
         /\ ~down => Advance
         /\ \A m, s : (m = [seq |-> Len(msgs) + 1, own |-> TRUE, text |-> 0] /\ s = stamp' /\ own)
                         => MessageFits(m, s)'
         /\ \A e \in Wire' : e \in Wire \/ e.stamp = stamp'
  <1> PICK n : n = Len(msgs)
    OBVIOUS
  <1> DEFINE new == [own |-> own, text |-> 0]
             m == [seq |-> n + 1, own |-> own, text |-> 0]
  <1>1. /\ n \in Nat /\ Seqs = 1 .. n /\ stamp \in Nat /\ msgs \in Seq(Sent) /\ new \in Sent
        /\ wire \in Seq(Event)
    BY MessagesAreReal DEF CacheType, ServerType, WireType, Sent
  <1>2. msgs' = Append(msgs, new) /\ stamp' = stamp + 1
    BY DEF Created
  <1>3. /\ msgs' \in Seq(Sent) /\ Len(msgs') = n + 1 /\ DOMAIN msgs' = 1 .. n + 1
        /\ \A q \in 1 .. n : msgs'[q] = msgs[q]
        /\ msgs'[n + 1] = new
    BY <1>1, <1>2, Appended
  <1>4. m \in Msg
    BY <1>1 DEF Msg
  <1> PICK e : e = [type |-> "created", stamp |-> stamp', msg |-> m]
    OBVIOUS
  <1>5. wire' = IF down THEN wire ELSE Append(wire, e)
    BY DEF Created, Emit
  <1>6. e \in Event /\ e.type = "created" /\ e.stamp = stamp + 1 /\ e.msg = m
    BY <1>1, <1>2, <1>4 DEF Event
  <1>7. m.seq = n + 1 /\ m.own = own /\ new.own = own /\ new.text = 0
    OBVIOUS
  <1>8. Message(m.seq)' = m
    BY <1>3, <1>7 DEF Message
  <1>9. \A q \in 1 .. n : Message(q)' = Message(q)
    BY <1>3 DEF Message
  <1> HIDE DEF new, m
  <1>10. Seqs' = 1 .. n + 1 /\ Seqs' \ Seqs = {n + 1}
    BY <1>1, <1>3 DEF Seqs
  <1>11. /\ wire' \in Seq(Event) /\ Wire \subseteq Wire' /\ Wire' \subseteq Wire \union {e}
         /\ ~down => e \in Wire'
    BY <1>1, <1>5, <1>6, Emits
  <1>12. Grows
    BY <1>1, <1>2, <1>3, <1>10 DEF Grows
  <1>13. \A f \in Wire : f \in Event /\ f.stamp \in Nat /\ f.stamp <= stamp
                         /\ (f.type # "removed" => f.msg.seq \in Seqs)
    BY WireHasEvents DEF CacheType, WireType, EventType
  <1>14. WireType'
    <2>1. EventType(e)'
      BY <1>1, <1>2, <1>6, <1>7, <1>10 DEF EventType
    <2>2. \A f \in Wire : EventType(f)'
      BY <1>12, <1>13, Types DEF CacheType, WireType
    <2> QED  BY <1>11, <2>1, <2>2 DEF WireType
  <1>15. WireIsTrue'
    <2>1. ASSUME NEW f \in Wire', NEW g \in Wire',
                 f.type # "removed", g.type = "created", g.stamp > f.stamp
          PROVE  g.msg.seq > f.msg.seq
      <3>1. CASE f \in Wire /\ g \in Wire
        BY <2>1, <3>1 DEF WireIsTrue
      <3>2. CASE f \in Wire /\ g = e
        BY <1>1, <1>6, <1>7, <1>13, <2>1, <3>2
      <3>3. CASE f = e
        <4>1. ~(g.stamp > f.stamp)
          BY <1>1, <1>6, <1>11, <1>13, <3>3
        <4> QED  BY <2>1, <4>1
      <3> QED  BY <1>11, <3>1, <3>2, <3>3
    <2>2. ASSUME NEW f \in Wire', f.type # "removed"
          PROVE  /\ f.msg.own = msgs'[f.msg.seq].own
                 /\ f.msg.own => f.msg = Message(f.msg.seq)'
      <3>1. CASE f \in Wire
        <4>1. f.msg.seq \in 1 .. n /\ f.msg.own = msgs[f.msg.seq].own
              /\ (f.msg.own => f.msg = Message(f.msg.seq))
          BY <1>1, <1>13, <2>2, <3>1 DEF WireIsTrue
        <4> QED  BY <1>3, <1>9, <4>1
      <3>2. CASE f = e
        BY <1>3, <1>6, <1>7, <1>8, <3>2
      <3> QED  BY <1>11, <3>1, <3>2
    <2> QED  BY <2>1, <2>2 DEF WireIsTrue
  <1>16. ASSUME ~down
         PROVE  Advance
    <2>1. Seqs \subseteq Seqs' /\ \A q \in Seqs : msgs'[q] = msgs[q] /\ Message(q)' = Message(q)
      BY <1>1, <1>3, <1>9, <1>10
    <2>2. e \in Wire' /\ e.msg.seq = n + 1 /\ e.stamp > stamp /\ Wire' \subseteq Wire \union {e}
      BY <1>1, <1>6, <1>7, <1>11, <1>16
    <2>3. \A q \in Seqs : e.msg.seq > q
      BY <1>1, <2>2
    <2> QED  BY <1>6, <1>8, <1>10, <1>11, <2>1, <2>2, <2>3 DEF Advance
  <1>17. ASSUME NEW x, NEW s, x = [seq |-> n + 1, own |-> TRUE, text |-> 0], s = stamp', own
         PROVE  MessageFits(x, s)'
    <2>1. x = m
      BY <1>17 DEF m
    <2>2. ~ \E f \in Wire' : f.stamp > s
      BY <1>1, <1>2, <1>6, <1>11, <1>13, <1>17
    <2>3. m.seq \in Seqs' /\ m.own
      BY <1>1, <1>7, <1>10, <1>17
    <2>4. LaterAreNewer(m.seq, s)'
      BY <2>2 DEF LaterAreNewer
    <2> QED  BY <1>4, <1>8, <2>1, <2>3, <2>4 DEF MessageFits
  <1>18. \A f \in Wire' : f \in Wire \/ (f.type = "created" /\ f.stamp = stamp')
    BY <1>2, <1>6, <1>11
  <1> QED  BY <1>2, <1>3, <1>12, <1>14, <1>15, <1>16, <1>17, <1>18
\* A message of somebody else is edited.
LEMMA Edits ==
  ASSUME CacheType, WireIsTrue, NEW q \in Seqs, OtherEdits(q)
  PROVE  /\ msgs' \in Seq(Sent) /\ stamp' = stamp + 1 /\ Grows
         /\ WireType' /\ WireIsTrue' /\ \A e \in Wire' : e \in Wire \/ e.type = "updated"
         /\ ~down => Advance
         /\ Wire \subseteq Wire'
  <1> PICK text : text = msgs[q].text + 1
    OBVIOUS
  <1> DEFINE m == [seq |-> q, own |-> FALSE, text |-> text]
  <1>1. /\ Len(msgs) \in Nat /\ Seqs = 1 .. Len(msgs) /\ stamp \in Nat /\ msgs \in Seq(Sent)
        /\ wire \in Seq(Event) /\ \A r \in Seqs : msgs[r] \in Sent
    BY MessagesAreReal DEF CacheType, ServerType, WireType
  <1>2. /\ msgs' = [msgs EXCEPT ![q].text = text] /\ stamp' = stamp + 1 /\ ~msgs[q].own
    BY DEF OtherEdits
  <1>3. text \in Nat /\ msgs[q].own = FALSE
    <2>1. msgs[q].own \in BOOLEAN /\ msgs[q].text \in Nat
      BY <1>1 DEF Sent
    <2> QED  BY <1>2, <2>1
  <1>4. /\ Len(msgs') = Len(msgs) /\ DOMAIN msgs' = DOMAIN msgs /\ msgs' \in Seq(Sent)
        /\ \A r \in Seqs : r # q => msgs'[r] = msgs[r]
        /\ msgs'[q].text = text /\ msgs'[q].own = FALSE
    <2> PICK x : x = [msgs[q] EXCEPT !.text = text]
      OBVIOUS
    <2>1. x \in Sent /\ x.text = text /\ x.own = FALSE
      BY <1>1, <1>3 DEF Sent
    <2>2. msgs' = [msgs EXCEPT ![q] = x]
      BY <1>2
    <2>3. msgs' \in Seq(Sent) /\ Len(msgs') = Len(msgs)
      BY <1>1, <2>1, <2>2, ExceptSeq DEF Seqs
    <2> QED  BY <1>1, <2>1, <2>2, <2>3 DEF Seqs
  <1>5. m \in Msg
    BY <1>1, <1>3 DEF Msg
  <1> PICK e : e = [type |-> "updated", stamp |-> stamp', msg |-> m]
    OBVIOUS
  <1>6. wire' = IF down THEN wire ELSE Append(wire, e)
    BY DEF OtherEdits, Emit
  <1>7. e \in Event /\ e.type = "updated" /\ e.stamp = stamp + 1 /\ e.msg = m
    BY <1>1, <1>2, <1>5 DEF Event
  <1>8. m.seq = q /\ m.own = FALSE
    OBVIOUS
  <1>9. Message(q)' = m
    BY <1>4 DEF Message
  <1>10. \A r \in Seqs : r # q => Message(r)' = Message(r)
    BY <1>4 DEF Message
  <1> HIDE DEF m
  <1>11. Seqs' = Seqs
    BY <1>4 DEF Seqs
  <1>12. /\ wire' \in Seq(Event) /\ Wire \subseteq Wire' /\ Wire' \subseteq Wire \union {e}
         /\ ~down => e \in Wire'
    BY <1>1, <1>6, <1>7, Emits
  <1>13. Grows
    BY <1>1, <1>2, <1>4, <1>11 DEF Grows
  <1>14. \A f \in Wire : f \in Event /\ f.stamp \in Nat /\ f.stamp <= stamp
                         /\ (f.type # "removed" => f.msg.seq \in Seqs)
    BY WireHasEvents DEF CacheType, WireType, EventType
  <1>15. WireType'
    <2>1. EventType(e)'
      BY <1>1, <1>2, <1>7, <1>8, <1>11 DEF EventType
    <2>2. \A f \in Wire : EventType(f)'
      BY <1>13, <1>14, Types DEF CacheType, WireType
    <2> QED  BY <1>12, <2>1, <2>2 DEF WireType
  <1>16. WireIsTrue'
    <2>1. ASSUME NEW f \in Wire', NEW g \in Wire',
                 f.type # "removed", g.type = "created", g.stamp > f.stamp
          PROVE  g.msg.seq > f.msg.seq
      <3>1. g \in Wire
        BY <1>7, <1>12, <2>1
      <3>2. CASE f \in Wire
        BY <2>1, <3>1, <3>2 DEF WireIsTrue
      <3>3. CASE f = e
        BY <1>1, <1>7, <1>14, <2>1, <3>1, <3>3
      <3> QED  BY <1>12, <3>2, <3>3
    <2>2. ASSUME NEW f \in Wire', f.type # "removed"
          PROVE  /\ f.msg.own = msgs'[f.msg.seq].own
                 /\ f.msg.own => f.msg = Message(f.msg.seq)'
      <3>1. CASE f \in Wire
        <4>1. f.msg.seq \in Seqs /\ f.msg.own = msgs[f.msg.seq].own
              /\ (f.msg.own => f.msg = Message(f.msg.seq))
          BY <1>14, <2>2, <3>1 DEF WireIsTrue
        <4>2. CASE f.msg.seq = q
          BY <1>3, <1>4, <4>1, <4>2
        <4>3. CASE f.msg.seq # q
          BY <1>4, <1>10, <4>1, <4>3
        <4> QED  BY <4>2, <4>3
      <3>2. CASE f = e
        BY <1>4, <1>7, <1>8, <3>2
      <3> QED  BY <1>12, <3>1, <3>2
    <2> QED  BY <2>1, <2>2 DEF WireIsTrue
  <1>17. ASSUME ~down
         PROVE  Advance
    <2>1. \A r \in Seqs : msgs'[r].own = msgs[r].own /\ (msgs[r].own => msgs'[r] = msgs[r])
      BY <1>3, <1>4
    <2>2. e \in Wire' /\ e.msg.seq = q /\ e.stamp > stamp /\ Wire' \subseteq Wire \union {e}
      BY <1>1, <1>7, <1>8, <1>12, <1>17
    <2> QED  BY <1>7, <1>9, <1>10, <1>11, <1>12, <2>1, <2>2 DEF Advance
  <1> QED  BY <1>2, <1>4, <1>7, <1>12, <1>13, <1>15, <1>16, <1>17

\* The viewer is removed, and told so.
LEMMA Removes ==
  ASSUME CacheType, WireIsTrue, ViewerRemoved
  PROVE  stamp' = stamp + 1 /\ Grows /\ WireType' /\ WireIsTrue' /\ Wire \subseteq Wire'
  <1>1. stamp \in Nat /\ wire \in Seq(Event) /\ Len(msgs) \in Nat
    BY MessagesAreReal DEF CacheType, ServerType, WireType
  <1>2. stamp' = stamp + 1 /\ msgs' = msgs
    BY DEF ViewerRemoved
  <1> PICK e : e = [type |-> "removed", stamp |-> stamp']
    OBVIOUS
  <1>3. e \in Event /\ e.type = "removed" /\ e.stamp = stamp + 1
    BY <1>1, <1>2 DEF Event
  <1>4. wire' = IF down THEN wire ELSE Append(wire, e)
    BY DEF ViewerRemoved, Emit
  <1>5. wire' \in Seq(Event) /\ Wire \subseteq Wire' /\ Wire' \subseteq Wire \union {e}
    BY <1>1, <1>3, <1>4, Emits
  <1>6. Seqs' = Seqs
    BY <1>2 DEF Seqs
  <1>7. Grows
    BY <1>1, <1>2, <1>6 DEF Grows
  <1>8. WireType'
    <2>1. EventType(e)'
      BY <1>1, <1>2, <1>3 DEF EventType
    <2>2. \A f \in Wire : f \in Event /\ EventType(f)
      BY WireHasEvents DEF CacheType, WireType
    <2>3. \A f \in Wire : EventType(f)'
      BY <1>7, <2>2, Types
    <2> QED  BY <1>5, <2>1, <2>3 DEF WireType
  <1>9. WireIsTrue'
    <2>1. \A f \in Wire' : f.type # "removed" => f \in Wire
      BY <1>3, <1>5
    <2>2. \A f \in Wire : Message(f.msg.seq)' = Message(f.msg.seq)
      BY <1>2 DEF Message
    <2> QED  BY <1>2, <2>1, <2>2 DEF WireIsTrue
  <1> QED  BY <1>2, <1>5, <1>7, <1>8, <1>9
-----------------------------------------------------------------------------
(* Steps that leave the cache alone.                                        *)

Base == CacheType /\ Quiet /\ RefusedAreGone /\ WireIsTrue

\* The clocks of the history variable stand still.
SameClock ==
  /\ ghost'.inOrder = ghost.inOrder /\ ghost'.newest = ghost.newest
  /\ ghost'.breaks = ghost.breaks

LEMMA StraightStays ==
  ASSUME SameClock, Wire \subseteq Wire', member' => member,
         \A k \in Kinds : call'[k] = call[k] \/ call[k].phase # "answered",
         Straight'
  PROVE  Straight
  <1>1. ghost.inOrder /\ ghost.breaks = 0 /\ member
    BY DEF Straight, SameClock
  <1>2. \A e \in Wire : OwnEcho(e) \/ e.stamp > ghost.newest
    BY DEF Straight, SameClock, OwnEcho
  <1>3. \A k \in Kinds : call[k].phase = "answered" => call[k].stamp >= ghost.newest
    BY DEF Straight, SameClock
  <1> QED  BY <1>1, <1>2, <1>3 DEF Straight

LEMMA CacheStays ==
  ASSUME CacheInv, Base', UNCHANGED cache, SameClock,
         Wire \subseteq Wire', member' => member,
         \A k \in Kinds : call'[k] = call[k] \/ call[k].phase # "answered",
         Straight' /\ Straight /\ Fits =>
           /\ Advance /\ read' >= read
           /\ \A k \in Kinds : call'[k] = call[k] \/ CallFits(k, call[k])'
  PROVE  CacheInv'
  <1> SUFFICES ASSUME Straight' PROVE Fits'
    BY DEF CacheInv, Current, Base
  <1>1. Straight /\ Fits
    BY StraightStays DEF CacheInv, Current
  <1>2. /\ Advance /\ read' >= read /\ CacheType /\ CacheType'
        /\ \A k \in Kinds : call'[k] = call[k] \/ CallFits(k, call[k])'
    BY <1>1 DEF CacheInv, Base
  <1>3. (\A s \in 0 .. stamp : Carries(s)) /\ WireIsCurrent'
    BY <1>1, <1>2, AdvanceCarries DEF CacheType, Fits
  <1>4. Carries(0)
    BY <1>2, <1>3 DEF CacheType, ServerType
  <1> PICK p, r, n : p = page /\ r = row /\ n = seenSeq
    OBVIOUS
  <1>5. p = page' /\ r = row' /\ n = seenSeq'
    BY DEF cache
  <1>6. PageType(p) /\ PageFits(p) /\ RowFits(r) /\ r.unread \in Nat
        /\ n \in 0 .. Len(msgs) /\ SeenFits(n)
    BY <1>1, <1>2 DEF CacheType, SurfacesType, Fits
  <1>7. PageFits(p)' /\ RowFits(r)' /\ SeenFits(n)'
    BY <1>2, <1>4, <1>6, SurfacesCarry
  <1>8. ASSUME NEW k \in Kinds
        PROVE  CallFits(k, call[k])'
    <2>1. CASE call'[k] = call[k]
      <3> PICK c : c = call[k]
        OBVIOUS
      <3>1. CallType(k, c) /\ CallFits(k, c) /\ c = call'[k]
        BY <1>1, <1>2, <2>1 DEF CacheType, CallsType, Fits
      <3>2. c.phase = "answered" => c.stamp \in 0 .. stamp
        BY <3>1 DEF CallType, Idle, AskedCall, AnsweredCall
      <3>3. CallFits(k, c)'
        BY <1>2, <1>3, <3>1, <3>2, CallCarries
      <3> QED  BY <3>1, <3>3
    <2> QED  BY <1>2, <2>1
  <1> QED  BY <1>3, <1>5, <1>7, <1>8 DEF Fits

LEMMA NothingAdvances ==
  ASSUME UNCHANGED <<msgs, wire>>
  PROVE  Advance /\ Wire' = Wire /\ Seqs' = Seqs
  BY DEF Advance, Wire, Seqs, Message

\* The parts of Base that a step leaves alone are kept.
LEMMA SurfacesKeepType ==
  ASSUME CacheType, Grows, UNCHANGED cache,
         ghost' \in [newest : 0 .. stamp', inOrder : BOOLEAN, asks : Nat, edits : Nat, breaks : Nat]
  PROVE  SurfacesType'
  <1> PICK p : p = page /\ p = page'
    BY DEF cache
  <1>1. PageType(p)'
    BY Types DEF CacheType, SurfacesType
  <1>2. seenSeq' \in 0 .. Len(msgs')
    BY Types DEF CacheType, SurfacesType, cache
  <1> QED  BY <1>1, <1>2 DEF CacheType, SurfacesType, cache

LEMMA GhostGrows ==
  ASSUME CacheType, Grows
  PROVE  ghost \in [newest : 0 .. stamp', inOrder : BOOLEAN, asks : Nat, edits : Nat, breaks : Nat]
  <1>1. ghost.newest \in 0 .. stamp'
    BY Types DEF CacheType, SurfacesType
  <1> QED  BY <1>1 DEF CacheType, SurfacesType

\* A step in which the call k becomes c, no answer goes missing, and the stream
\* stays up or down.
LEMMA CallStep ==
  ASSUME CacheInv, Grows, NEW k \in Kinds, NEW c,
         msgs' \in Seq(Sent), read' \in Nat, member' \in BOOLEAN,
         WireType', WireIsTrue',
         UNCHANGED <<down, cache>>, SameClock,
         ghost' \in [newest : 0 .. stamp', inOrder : BOOLEAN, asks : Nat, edits : Nat, breaks : Nat],
         CallType(k, c)', call' = [call EXCEPT ![k] = c], call[k].phase # "answered",
         k \in PollCalls => c = call[k] \/ down \/ call[k] # Idle,
         member' => member, Wire \subseteq Wire',
         member' => \A e \in Wire' : e \in Wire \/ e.type # "removed",
         c.phase = "answered" /\ member' => c.ok,
         Straight' /\ Straight /\ Fits => Advance /\ read' >= read /\ CallFits(k, c)'
  PROVE  CacheInv'
  <1>1. CacheType /\ Quiet /\ RefusedAreGone /\ WireIsTrue
    BY DEF CacheInv
  <1>2. \A j \in Kinds : call'[j] = IF j = k THEN c ELSE call[j]
    BY <1>1 DEF CacheType, CallsType
  <1>3. CacheType'
    <2>1. CallsType'
      BY <1>1, CallsKeepType
    <2>2. SurfacesType'
      BY <1>1, SurfacesKeepType
    <2>3. ServerType'
      BY <1>1 DEF ServerType, Grows, CacheType
    <2> QED  BY <2>1, <2>2, <2>3 DEF CacheType
  <1>4. Quiet'
    <2> SUFFICES ASSUME ghost.breaks = 0, ~down
                 PROVE  \A j \in PollCalls : call'[j] = Idle
      BY <1>1 DEF Quiet, SameClock
    <2>1. \A j \in PollCalls : call[j] = Idle /\ j \in Kinds
      BY <1>1 DEF Quiet, Kinds
    <2> QED  BY <1>2, <2>1
  <1>5. RefusedAreGone'
    BY <1>1, <1>2 DEF RefusedAreGone
  <1>6. \A j \in Kinds : call'[j] = call[j] \/ call[j].phase # "answered"
    BY <1>2
  <1>7. ASSUME Straight', Straight, Fits
        PROVE  /\ Advance /\ read' >= read
               /\ \A j \in Kinds : call'[j] = call[j] \/ CallFits(j, call[j])'
    <2>1. Advance /\ read' >= read /\ CallFits(k, c)' /\ call'[k] = c
      BY <1>2, <1>7
    <2>2. CallFits(k, call[k])'
      BY <2>1
    <2> QED  BY <1>2, <2>1, <2>2
  <1>8. Base'
    BY <1>3, <1>4, <1>5 DEF Base
  <1> HIDE DEF Advance, Base, Straight
  <1>9. UNCHANGED cache
    OBVIOUS
  <1> QED  BY <1>6, <1>7, <1>8, <1>9, CacheStays
-----------------------------------------------------------------------------
(* Requests and their answers.                                              *)

\* An answer to a read shows what there is.
LEMMA Reads ==
  ASSUME CacheType, NEW k \in Kinds, k \notin {"send", "read"}, call[k].phase = "asked",
         NEW c, c = [phase |-> "answered", ok |-> member, ans |-> Answers(k, call[k].input),
                     stamp |-> stamp, input |-> call[k].input]
  PROVE  CallType(k, c) /\ CallFits(k, c)
  <1> DEFINE end == call[k].input
             ans == Answers(k, end)
             b == IF k = "older" THEN end - 1 ELSE Len(msgs)
  <1>1. /\ Len(msgs) \in Nat /\ Seqs = 1 .. Len(msgs) /\ stamp \in Nat /\ member \in BOOLEAN
        /\ ServerType
    BY MessagesAreReal DEF CacheType, ServerType
  <1>2. /\ call[k] # Idle /\ end \in Nat /\ (k = "page" => end = 0) /\ (k = "older" => end \in Seqs)
    BY DEF CacheType, CallsType, CallType, Idle, AskedCall, AnsweredCall
  <1>3. /\ c.phase = "answered" /\ c.ok = member /\ c.ans = ans /\ c.stamp = stamp
        /\ c.input = end /\ c # Idle
    BY DEF Idle
  <1>4. \A e \in Wire : ~(e.stamp > stamp)
    BY <1>1, WireHasEvents DEF CacheType
  <1>5. k \in {"list", "pollList", "backfill", "page", "pollPage", "older"}
    BY DEF Kinds, Asked, PollCalls
  <1>6. CASE k \in {"list", "pollList", "backfill"}
    <2> DEFINE U == {q \in Seqs : q > read /\ ~msgs[q].own}
    <2>1. ans = [unread |-> Cardinality(U)]
      BY <1>6 DEF Answers, Unread
    <2>2. IsFiniteSet(U)
      <3>1. IsFiniteSet(1 .. Len(msgs))
        BY <1>1, FS_Interval, 1 \in Int, Len(msgs) \in Int
      <3>2. U \subseteq 1 .. Len(msgs)
        BY <1>1
      <3> QED  BY <3>1, <3>2, FS_Subset
    <2>3. Due(stamp) \subseteq U
      BY DEF Due
    <2>4. Cardinality(U) \in Nat /\ Cardinality(Due(stamp)) <= Cardinality(U)
      BY <2>2, <2>3, FS_Subset, FS_CardinalityType
    <2> HIDE DEF U
    <2>5. ans \in Unreads /\ ans.unread = Cardinality(U)
      BY <2>1, <2>4 DEF Unreads
    <2> HIDE DEF ans, end
    <2>6. ans \in Answer(k) /\ k # "page" /\ k # "older" /\ k # "send" /\ k # "read" /\ k # "pollPage"
      BY <1>6, <2>5 DEF Answer
    <2>7. c \in AnsweredCall(k)
      BY <1>1, <1>2, <2>6 DEF AnsweredCall, ans, end
    <2>8. CallType(k, c)
      BY <2>6, <2>7 DEF CallType
    <2>9. CallFits(k, c)
      BY <1>3, <2>4, <2>5, <2>6 DEF CallFits
    <2> QED  BY <2>8, <2>9
  <1>7. CASE k \in {"page", "pollPage", "older"}
    <2>1. b \in Nat /\ b <= Len(msgs)
      BY <1>1, <1>2
    <2>2. ans = PageOf(1 .. b)
      <3>1. CASE k = "older"
        <4>1. {q \in Seqs : q < end} = 1 .. b
          BY <1>1, <1>2, <3>1
        <4> QED  BY <3>1, <4>1 DEF Answers
      <3>2. CASE k # "older"
        BY <1>1, <1>7, <3>2 DEF Answers
      <3> QED  BY <3>1, <3>2
    <2>3. /\ ans \in PageAnswer /\ RealPage(ans)
          /\ \A m \in ans.rows : m = Message(m.seq) /\ m.seq \in 1 .. b
          /\ \A q \in 1 .. b : q >= ans.next => InRows(q, ans.rows)
          /\ CursorIsShown(ans)
      BY <1>1, <2>1, <2>2, Pages
    <2>4. k # "pollPage" => \A q \in Seqs : Between(q, ans.next, end) => q \in 1 .. b
      BY <1>1, <1>2, <1>7 DEF Between
    <2> HIDE DEF ans, end, b
    <2>5. ans \in Answer(k) /\ k # "send" /\ k # "read"
      BY <1>7, <2>3 DEF Answer
    <2>6. c \in AnsweredCall(k)
      BY <1>1, <1>2, <2>5 DEF AnsweredCall, ans, end
    <2>7. CallType(k, c)
      BY <1>2, <1>3, <2>3, <2>5, <2>6 DEF CallType
    <2>8. k # "pollPage" => RowsFit(ans, end, stamp)
      <3>1. TrueRows(ans.rows, stamp)
        BY <2>3 DEF TrueRows
      <3>2. \A m \in ans.rows : LaterAreNewer(m.seq, stamp)
        BY <1>4 DEF LaterAreNewer
      <3>3. k # "pollPage" => Covers(ans.next, end, ans.rows, stamp)
        BY <2>3, <2>4 DEF Covers, Between
      <3> QED  BY <2>3, <3>1, <3>2, <3>3 DEF RowsFit
    <2>9. CallFits(k, c)
      BY <1>3, <1>7, <2>8 DEF CallFits
    <2> QED  BY <2>7, <2>9
  <1> QED  BY <1>5, <1>6, <1>7

LEMMA ServeReadStep ==
  ASSUME CacheInv, NEW k \in Kinds, ServeRead(k)
  PROVE  CacheInv'
  <1> PICK c : c = [phase |-> "answered", ok |-> member, ans |-> Answers(k, call[k].input),
                    stamp |-> stamp, input |-> call[k].input]
    OBVIOUS
  <1>1. CacheType /\ WireIsTrue
    BY DEF CacheInv
  <1>2. k \notin {"send", "read"} /\ call[k].phase = "asked" /\ call' = [call EXCEPT ![k] = c]
        /\ UNCHANGED <<msgs, read, member, stamp, wire, down, cache, ghost>>
    BY DEF ServeRead, Answered, server
  <1>3. CallType(k, c) /\ CallFits(k, c)
    BY <1>1, <1>2, Reads
  <1>4. Grows
    BY <1>1, <1>2, MessagesAreReal DEF Grows, CacheType, ServerType, Seqs
  <1>5. CallType(k, c)'
    BY <1>1, <1>3, <1>4, Types
  <1>6. Advance /\ Wire' = Wire
    BY <1>2, NothingAdvances
  <1>7. WireType' /\ WireIsTrue'
    BY <1>1, <1>2 DEF CacheType, WireType, WireIsTrue, Wire, EventType, Seqs, Message
  <1>8. CallFits(k, c)'
    <2>1. Carries(stamp)
      BY <1>1, <1>2, <1>6, <1>7, AdvanceCarries DEF CacheType, ServerType
    <2>2. c.stamp = stamp
      OBVIOUS
    <2>3. CacheType'
      <3>1. CallsType'
        BY <1>1, <1>2, <1>4, <1>5, CallsKeepType
      <3>2. SurfacesType'
        BY <1>1, <1>2, <1>4, GhostGrows, SurfacesKeepType
      <3> QED  BY <1>1, <1>2, <1>7, <3>1, <3>2 DEF CacheType, ServerType
    <2> QED  BY <1>1, <1>3, <2>1, <2>2, <2>3, CallCarries
  <1>9. ghost' \in [newest : 0 .. stamp', inOrder : BOOLEAN, asks : Nat, edits : Nat, breaks : Nat]
    BY <1>1, <1>2, <1>4, GhostGrows
  <1>10. SameClock /\ msgs' \in Seq(Sent) /\ read' \in Nat /\ member' \in BOOLEAN /\ read' >= read
    BY <1>1, <1>2 DEF SameClock, CacheType, ServerType
  <1>11. call[k].phase # "answered" /\ call[k] # Idle /\ c.ok = member
    BY <1>2 DEF Idle
  <1> QED  BY <1>2, <1>4, <1>5, <1>6, <1>7, <1>8, <1>9, <1>10, <1>11, CallStep

\* A call is asked: nothing else changes but the count of what was asked.
LEMMA AskStep ==
  ASSUME CacheInv, NEW k \in Kinds, NEW n, call[k] = Idle,
         call' = [call EXCEPT ![k] = [phase |-> "asked", input |-> n]],
         n \in Nat, k = "page" => n = 0, k = "older" => n \in Seqs, k \notin PollCalls,
         UNCHANGED <<server, wire, down, cache>>, Counting
  PROVE  CacheInv'
  <1> PICK c : c = [phase |-> "asked", input |-> n]
    OBVIOUS
  <1>1. CacheType /\ WireIsTrue
    BY DEF CacheInv
  <1>2. c \in AskedCall /\ c.input = n /\ c.phase = "asked"
    BY DEF AskedCall
  <1>3. Grows
    BY <1>1, MessagesAreReal DEF Grows, CacheType, ServerType, Seqs, server
  <1>4. CallType(k, c)
    BY <1>2 DEF CallType
  <1>5. CallType(k, c)'
    BY <1>1, <1>3, <1>4, Types
  <1>6. Advance /\ Wire' = Wire
    BY NothingAdvances DEF server
  <1>7. WireType' /\ WireIsTrue'
    BY <1>1, SMTT(20) DEF CacheType, WireType, WireIsTrue, Wire, EventType, Seqs, Message, server
  <1>8. CallFits(k, c)'
    BY <1>2 DEF CallFits
  <1>9. ghost' \in [newest : 0 .. stamp', inOrder : BOOLEAN, asks : Nat, edits : Nat, breaks : Nat]
        /\ SameClock
    BY <1>1 DEF CacheType, SurfacesType, Counting, server, SameClock
  <1>10. msgs' \in Seq(Sent) /\ read' \in Nat /\ member' \in BOOLEAN /\ read' >= read
         /\ member' = member
    BY <1>1 DEF CacheType, ServerType, server
  <1>11. call[k].phase # "answered" /\ call' = [call EXCEPT ![k] = c]
    BY DEF Idle
  <1> QED  BY <1>2, <1>3, <1>5, <1>6, <1>7, <1>8, <1>9, <1>10, <1>11, CallStep

LEMMA AskSteps ==
  ASSUME CacheInv, Asking
  PROVE  CacheInv'
  <1>1. CacheType
    BY DEF CacheInv
  <1>2. Len(msgs) \in Nat /\ Seqs = 1 .. Len(msgs)
    BY <1>1, MessagesAreReal DEF CacheType
  <1>3. {"list", "page", "older", "send", "read"} \subseteq Kinds \ PollCalls
    BY DEF Kinds, PollCalls, Asked
  <1>4. CASE AskList
    BY <1>3, <1>4, AskStep DEF AskList, Ask
  <1>5. CASE AskPage
    BY <1>3, <1>5, AskStep DEF AskPage, Ask
  <1>6. CASE AskSend
    BY <1>3, <1>6, AskStep DEF AskSend, Ask
  <1>7. CASE AskOlder
    <2>1. page.loaded /\ page.next # 0 /\ page.next \in 0 .. Len(msgs)
      BY <1>1, <1>7 DEF AskOlder, CacheType, SurfacesType, PageType, RealPage
    <2>2. page.next \in Nat /\ page.next \in Seqs
      BY <1>2, <2>1
    <2> QED  BY <1>3, <1>7, <2>2, AskStep DEF AskOlder, Ask
  <1>8. CASE AskRead
    <2>1. \A m \in page.rows : m.seq \in 1 .. Len(msgs)
      BY <1>1, <1>2, <1>8 DEF AskRead, CacheType, SurfacesType, PageType, RealPage, RealRows
    <2>2. HighestSeq(page.rows) \in Nat
      BY <1>2, <2>1, Highest
    <2> QED  BY <1>3, <1>8, <2>2, AskStep DEF AskRead, Ask
  <1> QED  BY <1>4, <1>5, <1>6, <1>7, <1>8 DEF Asking
\* A step of the server that answers no call.
LEMMA ServerStep ==
  ASSUME CacheInv, Grows, msgs' \in Seq(Sent), read' = read, member' \in BOOLEAN,
         WireType', WireIsTrue', UNCHANGED <<call, down, cache>>, SameClock,
         ghost' \in [newest : 0 .. stamp', inOrder : BOOLEAN, asks : Nat, edits : Nat, breaks : Nat],
         member' => member, Wire \subseteq Wire',
         member' => \A e \in Wire' : e \in Wire \/ e.type # "removed",
         Straight' /\ ~down => Advance
  PROVE  CacheInv'
  <1>1. CacheType /\ Quiet /\ RefusedAreGone /\ WireIsTrue
    BY DEF CacheInv
  <1>2. CacheType'
    <2>1. CallsType'
      <3>1. call' = [k \in Kinds |-> call'[k]]
        BY <1>1 DEF CacheType, CallsType
      <3>2. ASSUME NEW k \in Kinds PROVE CallType(k, call[k])'
        <4> PICK c : c = call[k] /\ c = call'[k]
          OBVIOUS
        <4>1. CallType(k, c)'
          BY <1>1, Types DEF CacheType, CallsType
        <4> QED  BY <4>1
      <3> QED  BY <3>1, <3>2 DEF CallsType
    <2>2. SurfacesType'
      BY <1>1, SurfacesKeepType
    <2>3. ServerType'
      BY <1>1 DEF ServerType, Grows, CacheType
    <2> QED  BY <2>1, <2>2, <2>3 DEF CacheType
  <1>3. Quiet' /\ RefusedAreGone'
    BY <1>1 DEF Quiet, RefusedAreGone, SameClock
  <1>4. Base'
    BY <1>2, <1>3 DEF Base
  <1>5. ASSUME Straight', Straight, Fits
        PROVE  Advance /\ read' >= read
    <2>1. ~down
      BY <1>1, <1>5 DEF Straight, Quiet
    <2> QED  BY <1>1, <1>5, <2>1 DEF CacheType, ServerType
  <1>6. UNCHANGED cache /\ \A k \in Kinds : call'[k] = call[k]
    OBVIOUS
  <1> HIDE DEF Advance, Base, Straight
  <1> QED  BY <1>4, <1>5, <1>6, CacheStays

LEMMA OthersSteps ==
  ASSUME CacheInv, Others
  PROVE  CacheInv'
  <1>1. CacheType /\ WireIsTrue /\ msgs \in Seq(Sent) /\ member \in BOOLEAN
    BY DEF CacheInv, CacheType, ServerType
  <1>2. CASE OtherSends
    <2>1. Created(FALSE) /\ member /\ UNCHANGED <<read, member, call, down, cache, ghost>>
      BY <1>2 DEF OtherSends
    <2>2. /\ msgs' \in Seq(Sent) /\ stamp' = stamp + 1 /\ Grows
          /\ WireType' /\ WireIsTrue' /\ \A e \in Wire' : e \in Wire \/ e.type = "created"
          /\ ~down => Advance
      BY <1>1, <2>1, Creates
    <2>3. Wire \subseteq Wire'
      <3>1. down => Wire' = Wire
        BY <2>1 DEF Created, Emit, Wire
      <3> QED  BY <2>2, <3>1 DEF Advance
    <2>4. SameClock
      BY <2>1 DEF SameClock
    <2>5. ghost' \in [newest : 0 .. stamp', inOrder : BOOLEAN, asks : Nat, edits : Nat, breaks : Nat]
      BY <1>1, <2>1, <2>2, GhostGrows
    <2> QED  BY <1>1, <2>1, <2>2, <2>3, <2>4, <2>5, ServerStep
  <1>3. ASSUME NEW q \in Seqs, OtherEdits(q) PROVE CacheInv'
    <2>1. member /\ UNCHANGED <<read, member, call, down, cache>>
          /\ ghost' = [ghost EXCEPT !.edits = @ + 1]
      BY <1>3 DEF OtherEdits
    <2>2. /\ msgs' \in Seq(Sent) /\ stamp' = stamp + 1 /\ Grows
          /\ WireType' /\ WireIsTrue' /\ \A e \in Wire' : e \in Wire \/ e.type = "updated"
          /\ ~down => Advance
          /\ Wire \subseteq Wire'
      BY <1>1, <1>3, Edits
    <2>3. SameClock
      BY <1>1, <2>1 DEF SameClock, CacheType, SurfacesType
    <2>4. ghost' \in [newest : 0 .. stamp', inOrder : BOOLEAN, asks : Nat, edits : Nat, breaks : Nat]
      BY <1>1, <2>1, <2>2, GhostGrows
    <2> QED  BY <1>1, <2>1, <2>2, <2>3, <2>4, ServerStep
  <1>4. CASE ViewerRemoved
    <2>1. member /\ member' = FALSE /\ UNCHANGED <<msgs, read, call, down, cache, ghost>>
      BY <1>4 DEF ViewerRemoved
    <2>2. stamp' = stamp + 1 /\ Grows /\ WireType' /\ WireIsTrue' /\ Wire \subseteq Wire'
      BY <1>1, <1>4, Removes
    <2>3. SameClock /\ ~Straight'
      BY <2>1 DEF SameClock, Straight
    <2>4. ghost' \in [newest : 0 .. stamp', inOrder : BOOLEAN, asks : Nat, edits : Nat, breaks : Nat]
      BY <1>1, <2>1, <2>2, GhostGrows
    <2> QED  BY <1>1, <2>1, <2>2, <2>3, <2>4, ServerStep
  <1> QED  BY <1>2, <1>3, <1>4 DEF Others

\* A message is sent and answered, or refused.
LEMMA ServeSendStep ==
  ASSUME CacheInv, ServeSend
  PROVE  CacheInv'
  <1>1. CacheType /\ WireIsTrue /\ Quiet
    BY DEF CacheInv
  <1>2. /\ call["send"].phase = "asked" /\ UNCHANGED <<read, member, down, cache, ghost>>
        /\ "send" \in Kinds \ PollCalls
    BY DEF ServeSend, Kinds, Asked, PollCalls
  <1>3. /\ stamp \in Nat /\ member \in BOOLEAN /\ read \in Nat /\ msgs \in Seq(Sent)
        /\ call["send"].input \in Nat
    BY <1>1, <1>2 DEF CacheType, ServerType, CallsType, CallType, Idle, AskedCall, AnsweredCall
  <1>4. SameClock
    BY <1>2 DEF SameClock
  <1>5. CASE member
    <2> PICK m, s : m = [seq |-> Len(msgs) + 1, own |-> TRUE, text |-> 0] /\ s = stamp'
      OBVIOUS
    <2> PICK c : c = [phase |-> "answered", ok |-> member, ans |-> m, stamp |-> s,
                      input |-> call["send"].input]
      OBVIOUS
    <2>1. Created(TRUE) /\ call' = [call EXCEPT !["send"] = c]
      BY <1>5 DEF ServeSend, Answered
    <2>2. /\ msgs' \in Seq(Sent) /\ stamp' = stamp + 1 /\ Grows
          /\ WireType' /\ WireIsTrue' /\ \A e \in Wire' : e \in Wire \/ e.type = "created"
          /\ ~down => Advance
          /\ MessageFits(m, s)'
      BY <1>1, <2>1, Creates
    <2>3. Wire \subseteq Wire'
      <3>1. down => Wire' = Wire
        BY <2>1 DEF Created, Emit, Wire
      <3> QED  BY <2>2, <3>1 DEF Advance
    <2>4. m \in Msg /\ m.seq \in Seqs' /\ s \in 0 .. stamp'
      BY <1>3, <2>2 DEF MessageFits
    <2>5. CallType("send", c)'
      <3>1. c \in AnsweredCall("send")'
        BY <1>3, <2>4 DEF AnsweredCall, Answer
      <3>2. c.ans = m
        OBVIOUS
      <3> QED  BY <2>4, <3>1, <3>2 DEF CallType
    <2>6. CallFits("send", c)'
      BY <2>2 DEF CallFits
    <2>7. ghost' \in [newest : 0 .. stamp', inOrder : BOOLEAN, asks : Nat, edits : Nat, breaks : Nat]
      BY <1>1, <1>2, <2>2, GhostGrows
    <2>8. c.ok = member /\ call["send"].phase # "answered"
      BY <1>2
    <2>9. Straight => ~down
      BY <1>1 DEF Straight, Quiet
    <2> HIDE DEF Advance, Straight
    <2>10. read' >= read /\ UNCHANGED <<down, cache>>
      BY <1>2, <1>3
    <2> QED  BY <1>2, <1>3, <1>4, <2>1, <2>2, <2>3, <2>5, <2>6, <2>7, <2>8, <2>9, <2>10, CallStep
  <1>6. CASE ~member
    <2> PICK c : c = [phase |-> "answered", ok |-> member, ans |-> Nothing, stamp |-> stamp,
                      input |-> call["send"].input]
      OBVIOUS
    <2>1. UNCHANGED <<msgs, stamp, wire>> /\ call' = [call EXCEPT !["send"] = c]
      BY <1>6 DEF ServeSend, Answered
    <2>2. Grows
      BY <1>1, <2>1, MessagesAreReal DEF Grows, CacheType, ServerType, Seqs
    <2>3. WireType' /\ WireIsTrue' /\ Wire' = Wire
      BY <1>1, <2>1 DEF CacheType, WireType, WireIsTrue, Wire, EventType, Seqs, Message
    <2>4. CallType("send", c)
      <3>1. c \in AnsweredCall("send") /\ ~c.ok
        BY <1>3, <1>6 DEF AnsweredCall, Answer
      <3> QED  BY <3>1 DEF CallType
    <2>5. CallType("send", c)'
      BY <1>1, <2>2, <2>4, Types
    <2>6. ghost' \in [newest : 0 .. stamp', inOrder : BOOLEAN, asks : Nat, edits : Nat, breaks : Nat]
      BY <1>1, <1>2, <2>2, GhostGrows
    <2>7. ~Straight' /\ ~member' /\ call["send"].phase # "answered"
      BY <1>2, <1>6 DEF Straight
    <2> HIDE DEF Advance, Straight
    <2>8. msgs' \in Seq(Sent) /\ UNCHANGED <<down, cache>>
      BY <1>2, <1>3, <2>1
    <2> QED  BY <1>2, <1>3, <1>4, <2>1, <2>2, <2>3, <2>5, <2>6, <2>7, <2>8, CallStep
  <1> QED  BY <1>5, <1>6

\* A mark is set and answered, or refused.
LEMMA ServeMarkStep ==
  ASSUME CacheInv, ServeMark
  PROVE  CacheInv'
  <1>1. CacheType /\ WireIsTrue
    BY DEF CacheInv
  <1>2. /\ call["read"].phase = "asked" /\ UNCHANGED <<msgs, member, wire, down, cache, ghost>>
        /\ "read" \in Kinds \ PollCalls
    BY DEF ServeMark, Kinds, Asked, PollCalls
  <1>3. /\ stamp \in Nat /\ member \in BOOLEAN /\ read \in Nat /\ msgs \in Seq(Sent)
        /\ call["read"].input \in Nat
    BY <1>1, <1>2 DEF CacheType, ServerType, CallsType, CallType, Idle, AskedCall, AnsweredCall
  <1>4. SameClock
    BY <1>2 DEF SameClock
  <1>5. /\ stamp' \in Nat /\ stamp' >= stamp /\ read' \in Nat /\ read' >= read
        /\ member => read' >= call["read"].input
    <2> PICK n : n = call["read"].input
      OBVIOUS
    <2>1. n \in Nat /\ Max({read, n}) \in Nat /\ Max({read, n}) >= read /\ Max({read, n}) >= n
      BY <1>3, MaxOfTwo
    <2>2. IF member THEN read' = Max({read, n}) /\ stamp' = stamp + 1 ELSE UNCHANGED <<read, stamp>>
      BY DEF ServeMark
    <2> QED  BY <1>3, <2>1, <2>2
  <1> PICK s : s = stamp'
    OBVIOUS
  <1> PICK c : c = [phase |-> "answered", ok |-> member, ans |-> Nothing, stamp |-> s,
                    input |-> call["read"].input]
    OBVIOUS
  <1>6. call' = [call EXCEPT !["read"] = c]
    BY DEF ServeMark, Answered
  <1>7. Grows
    BY <1>1, <1>2, <1>3, <1>5, MessagesAreReal DEF Grows, CacheType, ServerType, Seqs
  <1>8. WireIsTrue' /\ Wire' = Wire /\ Advance
    BY <1>1, <1>2, NothingAdvances DEF WireIsTrue, Wire, Message
  <1>9. WireType'
    <2>1. \A e \in Wire : e \in Event /\ EventType(e)
      BY <1>1, WireHasEvents DEF CacheType, WireType
    <2>2. \A e \in Wire : EventType(e)'
      BY <1>1, <1>7, <2>1, Types
    <2> QED  BY <1>1, <1>2, <1>8, <2>2 DEF CacheType, WireType
  <1>10. CallType("read", c)'
    <2>1. s \in 0 .. stamp'
      BY <1>5
    <2> QED  BY <1>3, <2>1 DEF CallType, AnsweredCall, Answer
  <1>11. member => CallFits("read", c)'
    BY <1>5 DEF CallFits
  <1>12. ghost' \in [newest : 0 .. stamp', inOrder : BOOLEAN, asks : Nat, edits : Nat, breaks : Nat]
    BY <1>1, <1>2, <1>7, GhostGrows
  <1>13. Straight' => member
    BY <1>2 DEF Straight
  <1>14. c.ok = member /\ call["read"].phase # "answered" /\ member' = member
         /\ UNCHANGED <<down, cache>> /\ msgs' \in Seq(Sent) /\ member' \in BOOLEAN
    BY <1>2, <1>3
  <1>15. Straight' /\ Straight /\ Fits => Advance /\ read' >= read /\ CallFits("read", c)'
    BY <1>5, <1>8, <1>11, <1>13
  <1>16. /\ Wire \subseteq Wire' /\ (member' => \A e \in Wire' : e \in Wire \/ e.type # "removed")
         /\ (c.phase = "answered" /\ member' => c.ok) /\ "read" \in Kinds /\ "read" \notin PollCalls
    BY <1>2, <1>8, <1>14
  <1> HIDE DEF Advance, Straight
  <1> QED  BY <1>4, <1>5, <1>6, <1>7, <1>8, <1>9, <1>10, <1>12, <1>14, <1>15, <1>16, CallStep
-----------------------------------------------------------------------------
(* Answers land.                                                            *)

LEMMA LandStep ==
  ASSUME CacheInv, NEW k \in Kinds, NEW found, Lands(k), UNCHANGED <<server, wire, down>>,
         AppliedTo(call[k].stamp, found),
         NEW p, p = page', NEW r, r = row', NEW n, n = seenSeq',
         r \in [loaded : BOOLEAN, there : BOOLEAN, unread : Nat], PageType(p), n \in 0 .. Len(msgs),
         (/\ Straight /\ Fits /\ call[k].ok /\ found
          /\ \A e \in Wire : OwnEcho(e) \/ e.stamp > call[k].stamp)
            => PageFits(p) /\ RowFits(r) /\ SeenFits(n)
  PROVE  CacheInv'
  <1> PICK s : s = call[k].stamp
    OBVIOUS
  <1>1. CacheType /\ Quiet /\ RefusedAreGone /\ WireIsTrue
    BY DEF CacheInv
  <1>2. /\ UNCHANGED <<msgs, read, member, stamp, wire, down>>
        /\ call[k].phase = "answered" /\ call' = [call EXCEPT ![k] = Idle]
    BY DEF Lands, server
  <1>3. s \in 0 .. stamp /\ stamp \in Nat
    BY <1>1, <1>2 DEF CacheType, ServerType, CallsType, CallType, Idle, AskedCall, AnsweredCall
  <1>4. ghost \in [newest : 0 .. stamp, inOrder : BOOLEAN, asks : Nat, edits : Nat, breaks : Nat]
    BY <1>1 DEF CacheType, SurfacesType
  <1>5. /\ ghost'.newest \in 0 .. stamp /\ ghost'.newest >= s /\ ghost'.newest >= ghost.newest
        /\ ghost'.breaks = ghost.breaks /\ ghost'.inOrder \in BOOLEAN
        /\ ghost'.inOrder => ghost.inOrder /\ s >= ghost.newest /\ found
        /\ ghost' \in [newest : 0 .. stamp, inOrder : BOOLEAN, asks : Nat, edits : Nat, breaks : Nat]
    <2> PICK a, b : a = Max({ghost.newest, s}) /\ b = (ghost.inOrder /\ s >= ghost.newest /\ found)
      OBVIOUS
    <2>1. ghost' = [ghost EXCEPT !.newest = a, !.inOrder = b]
      BY DEF AppliedTo
    <2>2. a \in 0 .. stamp /\ a >= s /\ a >= ghost.newest
      BY <1>3, <1>4, MaxOfTwo
    <2>3. b \in BOOLEAN
      OBVIOUS
    <2> QED  BY <1>4, <2>1, <2>2, <2>3
  <1>6. Grows
    BY <1>1, <1>2, MessagesAreReal DEF Grows, CacheType, ServerType, Seqs
  <1>7. CacheType'
    <2>1. CallType(k, Idle)'
      BY DEF CallType, Idle
    <2>2. CallsType'
      BY <1>1, <1>2, <1>6, <2>1, CallsKeepType
    <2>3. PageType(p)'
      BY <1>1, <1>6, Types
    <2>4. SurfacesType'
      BY <1>2, <1>5, <2>3 DEF SurfacesType
    <2> QED  BY <1>1, <1>2, <2>2, <2>4
             DEF CacheType, ServerType, WireType, Wire, EventType, Seqs
  <1>8. \A j \in Kinds : call'[j] = IF j = k THEN Idle ELSE call[j]
    BY <1>1, <1>2 DEF CacheType, CallsType
  <1>9. Quiet' /\ RefusedAreGone' /\ WireIsTrue'
    <2>1. Quiet'
      <3> SUFFICES ASSUME ghost.breaks = 0 PROVE ~down /\ \A j \in PollCalls : call'[j] = Idle
        BY <1>2, <1>5 DEF Quiet
      <3>1. \A j \in PollCalls : j \in Kinds
        BY DEF Kinds
      <3> QED  BY <1>1, <1>8, <3>1 DEF Quiet
    <2>2. RefusedAreGone'
      BY <1>1, <1>2, <1>8 DEF RefusedAreGone, Wire, Idle
    <2>3. WireIsTrue'
      BY <1>1, <1>2 DEF WireIsTrue, Wire, Message
    <2> QED  BY <2>1, <2>2, <2>3
  <1>10. Advance /\ Wire' = Wire
    BY <1>2, NothingAdvances
  <1> SUFFICES ASSUME Straight' PROVE Fits'
    BY <1>7, <1>9 DEF CacheInv, Current
  <1>11. /\ \A e \in Wire : OwnEcho(e) \/ e.stamp > ghost'.newest
         /\ \A j \in Kinds : j # k /\ call[j].phase = "answered" => call[j].stamp >= ghost'.newest
         /\ ghost'.inOrder /\ ghost.breaks = 0 /\ member
    BY <1>2, <1>5, <1>8, <1>10 DEF Straight, OwnEcho
  <1>12. /\ \A e \in Wire : e.stamp \in Nat
         /\ \A j \in Kinds : call[j].phase = "answered" => call[j].stamp \in Nat
    <2>1. \A j \in Kinds : call[j].phase = "answered" => call[j].stamp \in 0 .. stamp
      BY <1>1 DEF CacheType, CallsType, CallType, Idle, AskedCall, AnsweredCall
    <2> QED  BY <1>1, <1>3, <2>1, WireHasEvents DEF CacheType
  <1>13. Straight /\ Fits
    <2>1. ghost.inOrder /\ ghost.breaks = 0 /\ member
      BY <1>5, <1>11
    <2>2. ghost'.newest \in Nat /\ ghost.newest \in Nat
      BY <1>3, <1>4, <1>5
    <2>3. \A e \in Wire : OwnEcho(e) \/ e.stamp > ghost.newest
      BY <1>5, <1>11, <1>12, <2>2
    <2>4. \A j \in Kinds : call[j].phase = "answered" => call[j].stamp >= ghost.newest
      <3> TAKE j \in Kinds
      <3>1. CASE j = k
        BY <1>5, <1>11, <3>1
      <3>2. CASE j # k
        BY <1>5, <1>11, <1>12, <2>2, <3>2
      <3> QED  BY <3>1, <3>2
    <2>5. Straight
      BY <2>1, <2>3, <2>4 DEF Straight
    <2> QED  BY <2>5 DEF CacheInv, Current
  <1>14. PageFits(p) /\ RowFits(r) /\ SeenFits(n)
    <2>1. call[k].ok
      BY <1>1, <1>2, <1>11 DEF RefusedAreGone
    <2>2. \A e \in Wire : OwnEcho(e) \/ e.stamp > call[k].stamp
      <3>1. ghost'.newest \in Nat /\ s \in Nat
        BY <1>3, <1>5
      <3> QED  BY <1>5, <1>11, <1>12, <3>1
    <2> QED  BY <1>5, <1>11, <1>13, <2>1, <2>2
  <1>15. (\A t \in 0 .. stamp : Carries(t)) /\ WireIsCurrent'
    <2>1. read' >= read
      BY <1>1, <1>2 DEF CacheType, ServerType
    <2> QED  BY <1>1, <1>7, <1>10, <1>13, <2>1, AdvanceCarries DEF CacheType, Fits
  <1>16. PageFits(p)' /\ RowFits(r)' /\ SeenFits(n)'
    <2>1. Carries(0)
      BY <1>3, <1>15
    <2> QED  BY <1>1, <1>7, <1>14, <2>1, SurfacesCarry
  <1>17. ASSUME NEW j \in Kinds PROVE CallFits(j, call[j])'
    <2>1. CASE j = k
      BY <1>8, <2>1 DEF CallFits, Idle
    <2>2. CASE j # k
      <3> PICK c : c = call[j]
        OBVIOUS
      <3>1. CallType(j, c) /\ CallFits(j, c) /\ c = call'[j]
        BY <1>1, <1>8, <1>13, <2>2 DEF CacheType, CallsType, Fits
      <3>2. c.phase = "answered" => c.stamp \in 0 .. stamp
        BY <3>1 DEF CallType, Idle, AskedCall, AnsweredCall
      <3>3. CallFits(j, c)'
        BY <1>1, <1>7, <1>15, <3>1, <3>2, CallCarries
      <3> QED  BY <3>1, <3>3
    <2> QED  BY <2>1, <2>2
  <1> QED  BY <1>15, <1>16, <1>17 DEF Fits

\* What holds but for what came after s holds but for all that is on its way.
LEMMA Later ==
  ASSUME CacheType, NEW s \in Nat
  PROVE  /\ \A n, end, rows : Covers(n, end, rows, s) => Covers(n, end, rows, 0)
         /\ \A rows : TrueRows(rows, s) => TrueRows(rows, 0)
         /\ Cardinality(Due(0)) <= Cardinality(Due(s))
         /\ Cardinality(Due(0)) \in Nat /\ Cardinality(Due(s)) \in Nat
  <1>1. \A e \in Wire : e.stamp > s => e.stamp > 0
    BY WireHasEvents DEF CacheType
  <1>2. /\ \A q : NewAfter(q, s) => NewAfter(q, 0)
        /\ \A q : PendingAfter(q, s) => PendingAfter(q, 0)
    BY <1>1 DEF NewAfter, PendingAfter
  <1>3. Due(0) \subseteq Due(s)
    BY <1>2 DEF Due
  <1>4. Cardinality(Due(0)) <= Cardinality(Due(s))
        /\ Cardinality(Due(0)) \in Nat /\ Cardinality(Due(s)) \in Nat
    BY <1>3, DueIsFinite DEF CacheType
  <1>5. \A n, end, rows : Covers(n, end, rows, s) => Covers(n, end, rows, 0)
    BY <1>2 DEF Covers
  <1>6. \A rows : TrueRows(rows, s) => TrueRows(rows, 0)
    BY <1>2 DEF TrueRows
  <1> QED  BY <1>4, <1>5, <1>6

\* Rows raise the highest seq seen, below all that is still to be announced.
LEMMA RowsAreSeen ==
  ASSUME CacheType, NEW rows, RealRows(rows)
  PROVE  LET n == Max({seenSeq, HighestSeq(rows)}) IN
         /\ n \in 0 .. Len(msgs)
         /\ \A s : (/\ SeenFits(seenSeq) /\ \A m \in rows : LaterAreNewer(m.seq, s)
                    /\ \A e \in Wire : OwnEcho(e) \/ e.stamp > s) => SeenFits(n)
  <1> DEFINE h == HighestSeq(rows)
             n == Max({seenSeq, h})
  <1>1. /\ Len(msgs) \in Nat /\ Seqs = 1 .. Len(msgs) /\ seenSeq \in 0 .. Len(msgs)
    BY MessagesAreReal DEF CacheType, SurfacesType
  <1>2. /\ h \in 0 .. Len(msgs) /\ (h = 0 \/ \E m \in rows : m.seq = h)
    BY <1>1, Highest DEF RealRows
  <1> HIDE DEF h
  <1>3. n \in 0 .. Len(msgs) /\ (n = seenSeq \/ n = h)
    BY <1>1, <1>2, MaxOfTwo
  <1> HIDE DEF n
  <1>4. ASSUME NEW s, SeenFits(seenSeq), \A m \in rows : LaterAreNewer(m.seq, s),
               \A e \in Wire : OwnEcho(e) \/ e.stamp > s,
               NEW e \in Wire, e.type = "created", ~e.msg.own
        PROVE  e.msg.seq > n
    <2>1. e.msg.seq > seenSeq
      BY <1>4 DEF SeenFits
    <2>2. e.stamp > s
      BY <1>4 DEF OwnEcho
    <2>3. \A m \in rows : e.msg.seq > m.seq
      BY <1>4, <2>2 DEF LaterAreNewer
    <2>4. e.msg.seq \in Nat
      BY <1>1, <1>4 DEF CacheType, WireType, EventType
    <2>5. e.msg.seq > h
      BY <1>1, <1>2, <2>1, <2>3, <2>4
    <2> QED  BY <1>3, <2>1, <2>5
  <1>5. \A s : (/\ SeenFits(seenSeq) /\ \A m \in rows : LaterAreNewer(m.seq, s)
                /\ \A e \in Wire : OwnEcho(e) \/ e.stamp > s) => SeenFits(n)
    BY <1>4 DEF SeenFits
  <1> QED  BY <1>3, <1>5 DEF n, h
LEMMA Replaced ==
  ASSUME NEW rows, NEW m
  PROVE  /\ \A q : InRows(q, rows) => InRows(q, ReplaceMessage(rows, m))
         /\ InRows(m.seq, ReplaceMessage(rows, m))
         /\ \A x \in ReplaceMessage(rows, m) : x = m \/ (x \in rows /\ x.seq # m.seq)
  BY DEF InRows, ReplaceMessage

LEMMA ShownPage ==
  ASSUME CacheType, NEW p, PageType(p), NEW m \in Msg, m.seq \in Seqs,
         NEW q, q = IF p.loaded THEN [p EXCEPT !.rows = ReplaceMessage(@, m)] ELSE p
  PROVE  /\ PageType(q) /\ q.loaded = p.loaded
         /\ p.loaded => q.rows = ReplaceMessage(p.rows, m) /\ q.next = p.next
         /\ PageFits(p) /\ m = Message(m.seq) => PageFits(q)
  <1>1. CASE ~p.loaded
    BY <1>1 DEF PageFits, PageType, Nothing
  <1>2. CASE p.loaded
    <2> PICK rows : rows = ReplaceMessage(p.rows, m)
      OBVIOUS
    <2>1. p \in [loaded : {TRUE}, rows : SUBSET Msg, next : Nat] /\ RealRows(p.rows)
          /\ p.next \in 0 .. Len(msgs)
      BY <1>2, LoadedPage
    <2>2. q = [p EXCEPT !.rows = rows]
      BY <1>2
    <2>3. q.rows = rows /\ q.next = p.next /\ q.loaded = TRUE /\ p.loaded = TRUE
      BY <2>1, <2>2
    <2>4. \A x \in rows : x = m \/ (x \in p.rows /\ x.seq # m.seq)
      BY Replaced
    <2>5. rows \subseteq Msg /\ RealRows(rows)
      BY <2>1, <2>4 DEF RealRows
    <2>6. PageType(q)
      BY <2>1, <2>2, <2>3, <2>5 DEF PageType, RealPage
    <2>7. ASSUME PageFits(p), m = Message(m.seq)
          PROVE  PageFits(q)
      <3>1. Covers(p.next, 0, p.rows, 0) /\ TrueRows(p.rows, 0) /\ CursorIsShown(p)
        BY <1>2, <2>7 DEF PageFits
      <3>2. \A x : InRows(x, p.rows) => InRows(x, rows)
        BY Replaced
      <3>3. Covers(q.next, 0, rows, 0) /\ CursorIsShown(q)
        BY <2>3, <3>1, <3>2 DEF Covers, CursorIsShown
      <3>4. TrueRows(rows, 0)
        BY <2>4, <2>7, <3>1 DEF TrueRows
      <3> QED  BY <2>3, <3>3, <3>4 DEF PageFits
    <2> QED  BY <2>3, <2>6, <2>7
  <1> QED  BY <1>1, <1>2

\* An answered call and its parts.
LEMMA AnswerTypes ==
  ASSUME CacheType, NEW k \in Kinds, call[k].phase = "answered"
  PROVE  /\ call[k].stamp \in 0 .. stamp /\ call[k].stamp \in Nat /\ call[k].input \in Nat
         /\ k \in {"list", "pollList", "backfill"} =>
              call[k].ans.unread \in Nat /\ Listed(call[k].ans.unread)
                   \in [loaded : BOOLEAN, there : BOOLEAN, unread : Nat]
         /\ k \in {"page", "pollPage", "older"} =>
              /\ call[k].ans \in PageAnswer /\ RealPage(call[k].ans)
              /\ k = "page" => call[k].input = 0
              /\ k = "older" => call[k].input \in Seqs
         /\ k = "send" /\ call[k].ok => call[k].ans \in Msg /\ call[k].ans.seq \in Seqs
  <1>1. call[k] \in AnsweredCall(k) /\ call[k] # Idle /\ CallType(k, call[k]) /\ stamp \in Nat
    BY DEF CacheType, CallsType, CallType, Idle, AskedCall, ServerType
  <1>2. call[k].ans \in Answer(k) /\ call[k].stamp \in 0 .. stamp /\ call[k].input \in Nat
    BY <1>1 DEF AnsweredCall
  <1>3. k \in {"list", "pollList", "backfill"} => call[k].ans \in Unreads
    BY <1>2 DEF Answer
  <1>4. k \in {"page", "pollPage", "older"} => call[k].ans \in PageAnswer
    BY <1>2 DEF Answer
  <1> QED  BY <1>1, <1>2, <1>3, <1>4 DEF CallType, Unreads, Listed

\* The list, or the conversation it lacks, as of its stamp.
LEMMA ListLands ==
  ASSUME CacheInv, LandList \/ LandBackfill
  PROVE  CacheInv'
  <1>1. CacheType /\ {"list", "backfill"} \subseteq Kinds
        /\ row \in [loaded : BOOLEAN, there : BOOLEAN, unread : Nat]
        /\ PageType(page) /\ seenSeq \in 0 .. Len(msgs)
    BY DEF CacheInv, CacheType, SurfacesType, Kinds, Asked
  <1> PICK p, r, n : p = page' /\ r = row' /\ n = seenSeq'
    OBVIOUS
  <1>2. PICK k \in {"list", "backfill"} :
          /\ Lands(k) /\ AppliedTo(call[k].stamp, TRUE)
          /\ UNCHANGED <<server, wire, down, page, seenSeq>>
          /\ r \in {row, Absent, Listed(call[k].ans.unread)}
    BY DEF LandList, LandBackfill, Applied
  <1>3. /\ call[k].phase = "answered" /\ call[k].stamp \in Nat /\ call[k].ans.unread \in Nat
        /\ Listed(call[k].ans.unread) \in [loaded : BOOLEAN, there : BOOLEAN, unread : Nat]
    BY <1>1, <1>2, AnswerTypes DEF Lands
  <1>4. r \in [loaded : BOOLEAN, there : BOOLEAN, unread : Nat]
    <2>1. Absent \in [loaded : BOOLEAN, there : BOOLEAN, unread : Nat]
      BY DEF Absent
    <2> QED  BY <1>1, <1>2, <1>3, <2>1
  <1>5. Fits => PageFits(p) /\ RowFits(r) /\ SeenFits(n)
    <2> SUFFICES ASSUME Fits PROVE PageFits(p) /\ RowFits(r) /\ SeenFits(n)
      OBVIOUS
    <2>1. PageFits(p) /\ RowFits(row) /\ SeenFits(n) /\ CallFits(k, call[k])
      BY <1>1, <1>2 DEF Fits
    <2>2. RowFits(Listed(call[k].ans.unread))
      <3>1. Cardinality(Due(call[k].stamp)) <= call[k].ans.unread
        BY <1>2, <1>3, <2>1 DEF CallFits
      <3>2. Cardinality(Due(0)) <= call[k].ans.unread
        <4>1. /\ Cardinality(Due(0)) <= Cardinality(Due(call[k].stamp))
              /\ Cardinality(Due(0)) \in Nat /\ Cardinality(Due(call[k].stamp)) \in Nat
          BY <1>1, <1>3, Later
        <4> QED  BY <1>3, <3>1, <4>1
      <3> QED  BY <3>2 DEF RowFits, Listed
    <2>3. RowFits(Absent)
      BY DEF RowFits, Absent
    <2> QED  BY <1>2, <2>1, <2>2, <2>3
  <1> HIDE DEF Fits
  <1>6. UNCHANGED <<server, wire, down>> /\ k \in Kinds /\ PageType(p) /\ n \in 0 .. Len(msgs)
    BY <1>1, <1>2
  <1> QED  BY <1>2, <1>4, <1>5, <1>6, LandStep

\* A first page, whatever was loaded.
LEMMA PageLands ==
  ASSUME CacheInv, LandPage
  PROVE  CacheInv'
  <1>1. CacheType /\ "page" \in Kinds
        /\ row \in [loaded : BOOLEAN, there : BOOLEAN, unread : Nat]
        /\ PageType(page) /\ seenSeq \in 0 .. Len(msgs)
    BY DEF CacheInv, CacheType, SurfacesType, Kinds, Asked
  <1> PICK p, r, n, a, s : /\ p = page' /\ r = row' /\ n = seenSeq'
                           /\ a = call["page"].ans /\ s = call["page"].stamp
    OBVIOUS
  <1>2. /\ Lands("page") /\ AppliedTo(s, TRUE) /\ UNCHANGED <<server, wire, down, row>>
        /\ call["page"].phase = "answered"
    BY DEF LandPage, Applied, Lands
  <1>3. /\ s \in Nat /\ a \in PageAnswer /\ RealPage(a) /\ call["page"].input = 0
    BY <1>1, <1>2, AnswerTypes
  <1>4. IF call["page"].ok
        THEN p = [loaded |-> TRUE, rows |-> a.rows, next |-> a.next]
             /\ n = Max({seenSeq, HighestSeq(a.rows)})
        ELSE p = page /\ n = seenSeq
    BY DEF LandPage
  <1>5. CASE ~call["page"].ok
    <2>1. PageType(p) /\ n \in 0 .. Len(msgs) /\ r = row
      BY <1>1, <1>2, <1>4, <1>5
    <2> QED  BY <1>1, <1>2, <1>5, <2>1, LandStep
  <1>6. CASE call["page"].ok
    <2>1. p.loaded /\ p.rows = a.rows /\ p.next = a.next
          /\ p = [loaded |-> TRUE, rows |-> a.rows, next |-> a.next]
      BY <1>4, <1>6
    <2>2. PageType(p)
      BY <1>3, <2>1 DEF PageType, PageAnswer, RealPage
    <2>3. /\ n \in 0 .. Len(msgs)
          /\ (/\ SeenFits(seenSeq) /\ \A m \in a.rows : LaterAreNewer(m.seq, s)
              /\ \A e \in Wire : OwnEcho(e) \/ e.stamp > s) => SeenFits(n)
      BY <1>1, <1>3, <1>4, <1>6, RowsAreSeen DEF RealPage
    <2>4. (Fits /\ \A e \in Wire : OwnEcho(e) \/ e.stamp > s)
             => PageFits(p) /\ RowFits(r) /\ SeenFits(n)
      <3> SUFFICES ASSUME Fits, \A e \in Wire : OwnEcho(e) \/ e.stamp > s
                   PROVE  PageFits(p) /\ RowFits(r) /\ SeenFits(n)
        OBVIOUS
      <3>1. RowFits(r) /\ SeenFits(seenSeq) /\ RowsFit(a, 0, s)
        BY <1>1, <1>2, <1>3 DEF Fits, CallFits
      <3>2. SeenFits(n)
        BY <2>3, <3>1 DEF RowsFit
      <3>3. Covers(a.next, 0, a.rows, 0) /\ TrueRows(a.rows, 0) /\ CursorIsShown(a)
        BY <1>1, <1>3, <3>1, Later DEF RowsFit
      <3>4. PageFits(p)
        BY <2>1, <3>3 DEF PageFits, CursorIsShown
      <3> QED  BY <3>1, <3>2, <3>4
    <2> HIDE DEF Fits
    <2>5. r \in [loaded : BOOLEAN, there : BOOLEAN, unread : Nat] /\ UNCHANGED <<server, wire, down>>
      BY <1>1, <1>2
    <2> QED  BY <1>1, <1>2, <2>2, <2>3, <2>4, <2>5, LandStep
  <1> QED  BY <1>5, <1>6
\* An older page, behind the page it was asked of.
LEMMA OlderLands ==
  ASSUME CacheInv, LandOlder
  PROVE  CacheInv'
  <1>1. CacheType /\ "older" \in Kinds
        /\ row \in [loaded : BOOLEAN, there : BOOLEAN, unread : Nat]
        /\ PageType(page) /\ seenSeq \in 0 .. Len(msgs)
    BY DEF CacheInv, CacheType, SurfacesType, Kinds, Asked
  <1> PICK p, r, n, a, s, end : /\ p = page' /\ r = row' /\ n = seenSeq' /\ end = call["older"].input
                                /\ a = call["older"].ans /\ s = call["older"].stamp
    OBVIOUS
  <1> PICK found, rows : /\ found = (page.loaded /\ page.next = end)
                         /\ rows = IF page.loaded THEN MergeMessages(page.rows, a.rows) ELSE a.rows
    OBVIOUS
  <1>2. /\ Lands("older") /\ AppliedTo(s, found) /\ UNCHANGED <<server, wire, down, row>>
        /\ call["older"].phase = "answered"
    BY DEF LandOlder, Lands
  <1>3. /\ s \in Nat /\ a \in PageAnswer /\ RealPage(a) /\ end \in Seqs
    BY <1>1, <1>2, AnswerTypes
  <1>4. IF call["older"].ok
        THEN p = [loaded |-> TRUE, next |-> a.next, rows |-> rows]
             /\ n = Max({seenSeq, HighestSeq(a.rows)})
        ELSE p = page /\ n = seenSeq
    BY DEF LandOlder
  <1>5. CASE ~call["older"].ok
    <2>1. PageType(p) /\ n \in 0 .. Len(msgs) /\ r = row
      BY <1>1, <1>2, <1>4, <1>5
    <2> QED  BY <1>1, <1>2, <1>5, <2>1, LandStep
  <1>6. CASE call["older"].ok
    <2>1. p.loaded /\ p.rows = rows /\ p.next = a.next
          /\ p = [loaded |-> TRUE, next |-> a.next, rows |-> rows]
      BY <1>4, <1>6
    <2>2. /\ \A x \in rows : x \in a.rows \/ (page.loaded /\ x \in page.rows)
          /\ \A q : InRows(q, a.rows) \/ (page.loaded /\ InRows(q, page.rows)) => InRows(q, rows)
      BY DEF MergeMessages, InPage, InRows
    <2>3. rows \subseteq Msg /\ RealRows(rows) /\ a.next \in Nat
      <3>1. page.loaded => page.rows \subseteq Msg /\ RealRows(page.rows)
        BY <1>1, LoadedPage
      <3> QED  BY <1>3, <2>2, <3>1 DEF PageAnswer, RealPage, RealRows
    <2>4. PageType(p)
      BY <1>3, <2>1, <2>3 DEF PageType, RealPage
    <2>5. /\ n \in 0 .. Len(msgs)
          /\ (/\ SeenFits(seenSeq) /\ \A m \in a.rows : LaterAreNewer(m.seq, s)
              /\ \A e \in Wire : OwnEcho(e) \/ e.stamp > s) => SeenFits(n)
      BY <1>1, <1>3, <1>4, <1>6, RowsAreSeen DEF RealPage
    <2>6. (Fits /\ found /\ \A e \in Wire : OwnEcho(e) \/ e.stamp > s)
             => PageFits(p) /\ RowFits(r) /\ SeenFits(n)
      <3> SUFFICES ASSUME Fits, found, \A e \in Wire : OwnEcho(e) \/ e.stamp > s
                   PROVE  PageFits(p) /\ RowFits(r) /\ SeenFits(n)
        OBVIOUS
      <3>1. RowFits(r) /\ SeenFits(seenSeq) /\ RowsFit(a, end, s) /\ PageFits(page)
        BY <1>1, <1>2 DEF Fits, CallFits
      <3>2. SeenFits(n)
        BY <2>5, <3>1 DEF RowsFit
      <3>3. Covers(a.next, end, a.rows, 0) /\ TrueRows(a.rows, 0) /\ CursorIsShown(a)
        BY <1>1, <1>3, <3>1, Later DEF RowsFit
      <3>4. Covers(end, 0, page.rows, 0) /\ TrueRows(page.rows, 0)
        BY <3>1 DEF PageFits
      <3>5. TrueRows(rows, 0)
        BY <2>2, <3>3, <3>4 DEF TrueRows
      <3>6. CursorIsShown(p)
        BY <2>1, <2>2, <3>3 DEF CursorIsShown
      <3>7. Covers(a.next, 0, rows, 0)
        <4> SUFFICES ASSUME NEW q \in Seqs, q >= a.next
                     PROVE  InRows(q, rows) \/ NewAfter(q, 0)
          BY DEF Covers, Between
        <4>1. q \in Nat /\ end \in Nat
          BY <1>1, <1>3, MessagesAreReal DEF CacheType
        <4>2. CASE q < end
          BY <2>2, <3>3, <4>2 DEF Covers, Between
        <4>3. CASE q >= end
          BY <2>2, <3>4, <4>3 DEF Covers, Between
        <4> QED  BY <4>1, <4>2, <4>3
      <3>8. PageFits(p)
        BY <2>1, <3>5, <3>6, <3>7 DEF PageFits
      <3> QED  BY <3>1, <3>2, <3>8
    <2> HIDE DEF Fits
    <2>7. r \in [loaded : BOOLEAN, there : BOOLEAN, unread : Nat] /\ UNCHANGED <<server, wire, down>>
      BY <1>1, <1>2
    <2>8. n \in 0 .. Len(msgs)
      BY <2>5
    <2> QED  BY <1>1, <1>2, <2>4, <2>6, <2>7, <2>8, LandStep
  <1> QED  BY <1>5, <1>6

\* The message that was sent, as its sender's client shows it.
LEMMA SendLands ==
  ASSUME CacheInv, LandSend
  PROVE  CacheInv'
  <1>1. CacheType /\ "send" \in Kinds
        /\ row \in [loaded : BOOLEAN, there : BOOLEAN, unread : Nat]
        /\ PageType(page) /\ seenSeq \in 0 .. Len(msgs)
    BY DEF CacheInv, CacheType, SurfacesType, Kinds, Asked
  <1> PICK p, r, n, m, s, q : /\ p = page' /\ r = row' /\ n = seenSeq' /\ q = page
                              /\ m = call["send"].ans /\ s = call["send"].stamp
    OBVIOUS
  <1>2. /\ Lands("send") /\ AppliedTo(s, TRUE) /\ UNCHANGED <<server, wire, down>>
        /\ call["send"].phase = "answered"
    BY DEF LandSend, Lands, Applied
  <1>3. s \in Nat /\ (call["send"].ok => m \in Msg /\ m.seq \in Seqs)
    BY <1>1, <1>2, AnswerTypes
  <1>4. CASE ~call["send"].ok
    <2>1. PageType(p) /\ n \in 0 .. Len(msgs) /\ r = row
      BY <1>1, <1>4 DEF LandSend, cache
    <2> QED  BY <1>1, <1>2, <1>4, <2>1, LandStep
  <1>5. CASE call["send"].ok
    <2>1. /\ r = row /\ n = Max({seenSeq, m.seq})
          /\ p = IF q.loaded THEN [q EXCEPT !.rows = ReplaceMessage(@, m)] ELSE q
      BY <1>5 DEF LandSend, ApplyMessage, Counted
    <2>2. Len(msgs) \in Nat /\ Seqs = 1 .. Len(msgs) /\ m \in Msg /\ m.seq \in Seqs
      BY <1>1, <1>3, <1>5, MessagesAreReal DEF CacheType
    <2>3. n \in 0 .. Len(msgs) /\ (n = seenSeq \/ n = m.seq) /\ n \in Nat
      <3>1. seenSeq \in Nat /\ m.seq \in Nat /\ m.seq \in 0 .. Len(msgs)
        BY <1>1, <2>2
      <3>2. n = seenSeq \/ n = m.seq
        BY <2>1, <3>1, MaxOfTwo
      <3> QED  BY <1>1, <3>1, <3>2
    <2>4. PageType(p) /\ (PageFits(q) /\ m = Message(m.seq) => PageFits(p))
      BY <1>1, <2>1, <2>2, ShownPage
    <2>5. (Fits /\ \A e \in Wire : OwnEcho(e) \/ e.stamp > s)
             => PageFits(p) /\ RowFits(r) /\ SeenFits(n)
      <3> SUFFICES ASSUME Fits, \A e \in Wire : OwnEcho(e) \/ e.stamp > s
                   PROVE  PageFits(p) /\ RowFits(r) /\ SeenFits(n)
        OBVIOUS
      <3>1. RowFits(r) /\ SeenFits(seenSeq) /\ MessageFits(m, s) /\ PageFits(q)
        BY <1>1, <1>2, <2>1 DEF Fits, CallFits
      <3>2. PageFits(p)
        BY <2>4, <3>1 DEF MessageFits
      <3>3. \A e \in Wire : e.type = "created" /\ ~e.msg.own => e.msg.seq > m.seq
        BY <3>1 DEF MessageFits, LaterAreNewer, OwnEcho
      <3>4. SeenFits(n)
        BY <2>3, <3>1, <3>3 DEF SeenFits
      <3> QED  BY <3>1, <3>2, <3>4
    <2> HIDE DEF Fits
    <2>6. r \in [loaded : BOOLEAN, there : BOOLEAN, unread : Nat] /\ n \in 0 .. Len(msgs)
      BY <1>1, <2>1, <2>3
    <2> QED  BY <1>1, <1>2, <2>4, <2>5, <2>6, LandStep
  <1> QED  BY <1>4, <1>5

\* A mark: a count that it clears hides nothing, because its message is loaded
\* and none behind it is newer.
LEMMA MarkLands ==
  ASSUME CacheInv, LandRead
  PROVE  CacheInv'
  <1>1. CacheType /\ "read" \in Kinds
        /\ row \in [loaded : BOOLEAN, there : BOOLEAN, unread : Nat]
        /\ PageType(page) /\ seenSeq \in 0 .. Len(msgs)
    BY DEF CacheInv, CacheType, SurfacesType, Kinds, Asked
  <1> PICK p, r, n, s, mark : /\ p = page' /\ r = row' /\ n = seenSeq'
                              /\ mark = call["read"].input /\ s = call["read"].stamp
    OBVIOUS
  <1> PICK found : found = (page.loaded /\ \E m \in page.rows : m.seq = mark)
    OBVIOUS
  <1>2. /\ Lands("read") /\ AppliedTo(s, found) /\ UNCHANGED <<server, wire, down, page, seenSeq>>
        /\ call["read"].phase = "answered"
    BY DEF LandRead, Lands
  <1>3. s \in Nat /\ mark \in Nat
    BY <1>1, <1>2, AnswerTypes
  <1>4. r = IF call["read"].ok /\ row.loaded /\ row.there /\ Clears(mark)
            THEN [row EXCEPT !.unread = 0] ELSE row
    BY DEF LandRead
  <1>5. r \in [loaded : BOOLEAN, there : BOOLEAN, unread : Nat]
    BY <1>1, <1>4
  <1>6. ASSUME Fits, found
        PROVE  RowFits(r)
    <2>1. RowFits(row) /\ PageFits(page) /\ read >= mark
      BY <1>1, <1>2, <1>6 DEF Fits, CallFits
    <2>2. CASE ~Clears(mark)
      BY <1>4, <2>1, <2>2
    <2>3. CASE Clears(mark)
      <3>1. /\ Len(msgs) \in Nat /\ Seqs = 1 .. Len(msgs) /\ read \in Nat
            /\ \A m \in page.rows : m.seq \in 1 .. Len(msgs)
            /\ page.loaded /\ page.next \in 0 .. Len(msgs)
        BY <1>1, <1>6, MessagesAreReal
           DEF CacheType, ServerType, PageType, RealPage, RealRows
      <3> PICK h : h = HighestSeq(page.rows)
        OBVIOUS
      <3>2. h \in 0 .. Len(msgs) /\ \A m \in page.rows : m.seq <= h
        BY <3>1, Highest
      <3>3. mark >= h
        BY <1>6, <2>3 DEF Clears
      <3>4. page.next <= h
        BY <2>1, <3>1, <3>2 DEF PageFits, CursorIsShown, InRows
      <3>5. ASSUME NEW q \in Seqs, q > read
            PROVE  NewAfter(q, 0)
        <4>1. q > h /\ q >= page.next
          BY <1>3, <2>1, <3>1, <3>2, <3>3, <3>4, <3>5
        <4>2. ~InRows(q, page.rows)
          BY <3>1, <3>2, <4>1 DEF InRows
        <4> QED  BY <2>1, <3>1, <4>1, <4>2 DEF PageFits, Covers, Between
      <3>6. Due(0) = {}
        BY <3>5 DEF Due
      <3>7. Cardinality(Due(0)) = 0
        BY <3>6, FS_EmptySet
      <3>8. Cardinality(Due(0)) <= 0 /\ row.there => row.loaded
        BY <2>1, <3>7 DEF RowFits
      <3>9. CASE r = row
        BY <2>1, <3>9
      <3>10. CASE r = [row EXCEPT !.unread = 0]
        <4>1. r.there = row.there /\ r.loaded = row.loaded /\ r.unread = 0
          BY <1>1, <3>10
        <4> QED  BY <3>7, <3>8, <4>1 DEF RowFits
      <3> QED  BY <1>4, <3>9, <3>10
    <2> QED  BY <2>2, <2>3
  <1>7. Fits => PageFits(p) /\ SeenFits(n)
    BY <1>2 DEF Fits
  <1> HIDE DEF Fits
  <1>8. UNCHANGED <<server, wire, down>> /\ PageType(p) /\ n \in 0 .. Len(msgs)
    BY <1>1, <1>2
  <1> QED  BY <1>1, <1>2, <1>5, <1>6, <1>7, <1>8, LandStep
-----------------------------------------------------------------------------
(* Events arrive.                                                           *)

\* An event taken off the wire leaves all others there.
LEMMA Shrinks ==
  ASSUME wire \in Seq(Event), NEW i \in DOMAIN wire, wire' = RemoveAt(wire, i)
  PROVE  /\ wire' \in Seq(Event)
         /\ Wire' \subseteq Wire /\ Wire \subseteq Wire' \union {wire[i]} /\ wire[i] \in Wire
  <1> DEFINE Of(s) == {s[k] : k \in DOMAIN s}
  <1>1. /\ RemoveAt(wire, i) \in Seq(Event) /\ Of(RemoveAt(wire, i)) \subseteq Of(wire)
        /\ \A k \in DOMAIN wire : k # i => wire[k] \in Of(RemoveAt(wire, i))
    BY Removed
  <1>2. Wire = Of(wire) /\ Wire' = Of(RemoveAt(wire, i))
    BY DEF Wire
  <1>3. Wire' \subseteq Wire /\ \A k \in DOMAIN wire : k # i => wire[k] \in Wire'
    <2> HIDE DEF Of
    <2> QED  BY <1>1, <1>2
  <1>4. \A x \in Wire : \E k \in DOMAIN wire : x = wire[k]
    BY DEF Wire
  <1>5. wire[i] \in Wire
    BY DEF Wire
  <1> QED  BY <1>1, <1>3, <1>4, <1>5

\* What an event that arrives in order leaves on its way, and carries over.
LEMMA Arrives ==
  ASSUME CacheInv, CacheType', NEW i \in DOMAIN wire, Receive(i), Straight'
  PROVE  /\ Straight /\ wire[i].type # "removed" /\ UNCHANGED <<msgs, read, member, stamp>>
         /\ wire[i] \in Wire /\ wire[i] \in Event /\ wire[i].stamp \in Nat
         /\ Wire' \subseteq Wire /\ Wire \subseteq Wire' \union {wire[i]}
         /\ \A f \in Wire' : f.stamp \in Nat /\ (OwnEcho(f) \/ f.stamp > wire[i].stamp)
         /\ \A k \in Kinds : call'[k].phase = "answered" =>
              call'[k].stamp \in Nat /\ call'[k].stamp >= wire[i].stamp
         /\ \A s \in Nat : s >= wire[i].stamp => Carries(s)
  <1> PICK e : e = wire[i]
    OBVIOUS
  <1>1. CacheType /\ RefusedAreGone /\ WireIsTrue
    BY DEF CacheInv
  <1>2. wire \in Seq(Event) /\ UNCHANGED <<msgs, read, member, stamp, down>>
        /\ wire' = RemoveAt(wire, i)
    BY <1>1 DEF CacheType, WireType, Receive, server
  <1>3. Wire' \subseteq Wire /\ Wire \subseteq Wire' \union {e} /\ e \in Wire
    BY <1>2, Shrinks
  <1>4. \A f \in Wire : f \in Event /\ f.stamp \in Nat /\ f.stamp <= stamp
    BY <1>1, WireHasEvents DEF CacheType
  <1>5. ghost \in [newest : 0 .. stamp, inOrder : BOOLEAN, asks : Nat, edits : Nat, breaks : Nat]
        /\ stamp \in Nat
    BY <1>1 DEF CacheType, SurfacesType, ServerType
  <1>6. /\ ghost'.newest \in Nat /\ ghost'.newest >= e.stamp /\ ghost'.newest >= ghost.newest
        /\ ghost'.breaks = ghost.breaks
        /\ ghost'.inOrder => ghost.inOrder /\ (e.stamp > ghost.newest \/ OwnEcho(e))
    <2> PICK a, b : a = Max({ghost.newest, e.stamp})
                    /\ b = (ghost.inOrder /\ (e.stamp > ghost.newest \/ OwnEcho(e)))
      OBVIOUS
    <2>1. ghost' = [ghost EXCEPT !.newest = a, !.inOrder = b]
      BY DEF Receive
    <2>2. a \in Nat /\ a >= e.stamp /\ a >= ghost.newest
      BY <1>3, <1>4, <1>5, MaxOfTwo
    <2> QED  BY <1>5, <2>1, <2>2
  <1>7. \A k \in Kinds : call'[k] = call[k] \/ call'[k].phase # "answered"
    BY <1>1 DEF Receive, CacheType, CallsType
  <1>8. \A k \in Kinds : k # "backfill" \/ call[k] # Idle => call'[k] = call[k]
    BY <1>1 DEF Receive, CacheType, CallsType
  <1>9. ghost'.inOrder /\ ghost'.breaks = 0 /\ member
        /\ (\A f \in Wire' : OwnEcho(f) \/ f.stamp > ghost'.newest)
        /\ \A k \in Kinds : call'[k].phase = "answered" => call'[k].stamp >= ghost'.newest
    BY <1>2 DEF Straight, OwnEcho
  <1>10. \A f \in Wire' : f.stamp \in Nat /\ (OwnEcho(f) \/ f.stamp > e.stamp)
    BY <1>3, <1>4, <1>6, <1>9
  <1>11. \A k \in Kinds : call'[k].phase = "answered" =>
              call'[k].stamp \in Nat /\ call'[k].stamp >= e.stamp
    <2> SUFFICES ASSUME NEW k \in Kinds, call'[k].phase = "answered"
                 PROVE  call'[k].stamp \in Nat /\ call'[k].stamp >= e.stamp
      OBVIOUS
    <2>1. call'[k] = call[k] /\ call'[k].stamp >= ghost'.newest
      BY <1>7, <1>9
    <2>2. call[k].stamp \in Nat
      BY <1>1, <2>1, AnswerTypes
    <2> QED  BY <1>3, <1>4, <1>6, <2>1, <2>2
  <1>12. Straight
    <2>1. \A f \in Wire : OwnEcho(f) \/ f.stamp > ghost.newest
      <3> SUFFICES ASSUME NEW f \in Wire PROVE OwnEcho(f) \/ f.stamp > ghost.newest
        OBVIOUS
      <3>1. CASE f = e
        BY <1>6, <1>9, <3>1
      <3>2. CASE f \in Wire'
        BY <1>4, <1>5, <1>6, <1>9, <3>2
      <3> QED  BY <1>3, <3>1, <3>2
    <2>2. ASSUME NEW k \in Kinds, call[k].phase = "answered" PROVE call[k].stamp >= ghost.newest
      <3>1. call'[k] = call[k]
        BY <1>8, <2>2 DEF Idle
      <3>2. call[k].stamp >= ghost'.newest /\ call[k].stamp \in Nat
        BY <1>1, <1>9, <2>2, <3>1, AnswerTypes
      <3> QED  BY <1>5, <1>6, <3>2
    <2> QED  BY <1>6, <1>9, <2>1, <2>2 DEF Straight
  <1>13. e.type # "removed"
    BY <1>1, <1>3, <1>9 DEF RefusedAreGone
  <1>14. ASSUME NEW s \in Nat, s >= e.stamp
         PROVE  Carries(s)
    <2>1. \A f \in Wire : f.stamp > s => f \in Wire'
      <3> SUFFICES ASSUME NEW f \in Wire, f.stamp > s PROVE f \in Wire'
        OBVIOUS
      <3>1. f # e
        BY <1>3, <1>4, <1>14
      <3> QED  BY <1>3, <3>1
    <2>2. /\ \A q : NewAfter(q, s) => NewAfter(q, s)'
          /\ \A q : PendingAfter(q, s) => PendingAfter(q, s)'
      BY <2>1 DEF NewAfter, PendingAfter
    <2>3. read \in Nat /\ Seqs' = Seqs /\ \A q : Message(q)' = Message(q)
      BY <1>1, <1>2 DEF CacheType, ServerType, Seqs, Message
    <2> QED  BY <1>2, <1>3, <2>2, <2>3 DEF Carries
  <1> QED  BY <1>2, <1>3, <1>4, <1>10, <1>11, <1>12, <1>13, <1>14

\* An event of a message that arrives in order is shown, counted and seen as it should.
LEMMA ArrivesFitting ==
  ASSUME CacheInv, CacheType', NEW i \in DOMAIN wire, Receive(i), Straight'
  PROVE  Fits'
  <1> PICK e, m : e = wire[i] /\ m = e.msg
    OBVIOUS
  <1>1. /\ Straight /\ e.type # "removed" /\ UNCHANGED <<msgs, read, member, stamp>>
        /\ e \in Wire /\ e \in Event /\ e.stamp \in Nat
        /\ Wire' \subseteq Wire /\ Wire \subseteq Wire' \union {e}
        /\ \A f \in Wire' : f.stamp \in Nat /\ (OwnEcho(f) \/ f.stamp > e.stamp)
        /\ \A k \in Kinds : call'[k].phase = "answered" =>
             call'[k].stamp \in Nat /\ call'[k].stamp >= e.stamp
        /\ \A s \in Nat : s >= e.stamp => Carries(s)
    BY Arrives
  <1>2. CacheType /\ WireIsTrue /\ Fits
    BY <1>1 DEF CacheInv, Current
  <1>3. m \in Msg /\ m.seq \in Seqs /\ e.type \in {"created", "updated"} /\ m.seq \in Nat
        /\ m.own = msgs[m.seq].own /\ (m.own => m = Message(m.seq))
    BY <1>1, <1>2, MessagesAreReal DEF Event, CacheType, WireType, EventType, WireIsTrue
  <1>4. Seqs' = Seqs /\ \A q : Message(q)' = Message(q)
    BY <1>1 DEF Seqs, Message
  <1>5. ASSUME NEW q, NewAfter(q, 0) PROVE NewAfter(q, 0)' \/ (e.type = "created" /\ q = m.seq)
    BY <1>1, <1>5 DEF NewAfter
  <1>6. ASSUME NEW q, PendingAfter(q, 0) PROVE PendingAfter(q, 0)' \/ q = m.seq
    BY <1>1, <1>6 DEF PendingAfter
  <1>7. m = Message(m.seq) \/ PendingAfter(m.seq, 0)'
    <2> SUFFICES ASSUME m # Message(m.seq) PROVE PendingAfter(m.seq, 0)'
      OBVIOUS
    <2>1. PendingAfter(m.seq, e.stamp)
      BY <1>1, <1>2 DEF Fits, WireIsCurrent
    <2>2. PICK f \in Wire : f.type # "removed" /\ f.msg.seq = m.seq /\ f.stamp > e.stamp
      BY <2>1 DEF PendingAfter
    <2>3. f # e /\ f.stamp > 0
      BY <1>1, <1>2, <2>2, WireHasEvents DEF CacheType
    <2> QED  BY <1>1, <2>2, <2>3 DEF PendingAfter
  <1>8. WireIsCurrent'
    <2> SUFFICES ASSUME NEW f \in Wire', f.type # "removed"
                 PROVE  f.msg = Message(f.msg.seq)' \/ PendingAfter(f.msg.seq, f.stamp)'
      BY DEF WireIsCurrent
    <2>1. f \in Wire /\ f.stamp \in Nat /\ (f.msg.own => f.msg = Message(f.msg.seq))
      BY <1>1, <1>2 DEF WireIsTrue
    <2>2. f.msg = Message(f.msg.seq) \/ PendingAfter(f.msg.seq, f.stamp)
      BY <1>2, <2>1 DEF Fits, WireIsCurrent
    <2>3. CASE f.msg = Message(f.msg.seq)
      BY <1>4, <2>3
    <2>4. CASE ~f.msg.own /\ PendingAfter(f.msg.seq, f.stamp)
      <3>1. f.stamp > e.stamp
        BY <1>1, <2>4 DEF OwnEcho
      <3>2. PICK g \in Wire : g.type # "removed" /\ g.msg.seq = f.msg.seq /\ g.stamp > f.stamp
        BY <2>4 DEF PendingAfter
      <3>3. g # e
        BY <1>1, <2>1, <3>1, <3>2
      <3> QED  BY <1>1, <3>2, <3>3 DEF PendingAfter
    <2> QED  BY <2>1, <2>2, <2>3, <2>4
  <1> PICK p, q, r, n : p = page /\ q = page' /\ r = row' /\ n = seenSeq'
    OBVIOUS
  <1>9. /\ r = Counted(e, FALSE) /\ n = Max({seenSeq, m.seq})
        /\ q = IF p.loaded THEN [p EXCEPT !.rows = ReplaceMessage(@, m)] ELSE p
    BY <1>1 DEF Receive, ApplyMessage
  <1>10. PageFits(q)'
    <2>1. /\ q.loaded = p.loaded
          /\ p.loaded => q.rows = ReplaceMessage(p.rows, m) /\ q.next = p.next
      BY <1>2, <1>3, <1>9, ShownPage DEF CacheType, SurfacesType
    <2> SUFFICES ASSUME p.loaded
                 PROVE  Covers(q.next, 0, q.rows, 0)' /\ TrueRows(q.rows, 0)' /\ CursorIsShown(q)
      BY <2>1 DEF PageFits, CursorIsShown, InRows
    <2>2. Covers(p.next, 0, p.rows, 0) /\ TrueRows(p.rows, 0) /\ CursorIsShown(p)
      BY <1>2 DEF Fits, PageFits
    <2>3. /\ \A x : InRows(x, p.rows) => InRows(x, q.rows)
          /\ InRows(m.seq, q.rows)
          /\ \A x \in q.rows : x = m \/ (x \in p.rows /\ x.seq # m.seq)
      BY <2>1, Replaced
    <2>4. CursorIsShown(q)
      BY <2>1, <2>2, <2>3 DEF CursorIsShown
    <2>5. Covers(q.next, 0, q.rows, 0)'
      <3> SUFFICES ASSUME NEW x \in Seqs, Between(x, q.next, 0)
                   PROVE  InRows(x, q.rows) \/ NewAfter(x, 0)'
        BY <1>4 DEF Covers, Between, InRows
      <3>1. InRows(x, p.rows) \/ NewAfter(x, 0)
        BY <2>1, <2>2 DEF Covers
      <3> QED  BY <1>5, <2>3, <3>1
    <2>6. TrueRows(q.rows, 0)'
      <3> SUFFICES ASSUME NEW x \in q.rows PROVE x = Message(x.seq)' \/ PendingAfter(x.seq, 0)'
        BY DEF TrueRows
      <3>1. CASE x = m
        BY <1>4, <1>7, <3>1
      <3>2. CASE x \in p.rows /\ x.seq # m.seq
        <4>1. x = Message(x.seq) \/ PendingAfter(x.seq, 0)
          BY <2>2, <3>2 DEF TrueRows
        <4> QED  BY <1>4, <1>6, <3>2, <4>1
      <3> QED  BY <2>3, <3>1, <3>2
    <2> QED  BY <2>4, <2>5, <2>6
  <1>11. RowFits(r)'
    <2> PICK D : D = Due(0)'
      OBVIOUS
    <2>1. D \subseteq Due(0) \union {m.seq}
      BY <1>1, <1>4, <1>5 DEF Due
    <2>2. e.type # "created" \/ m.own => D \subseteq Due(0)
      <3>1. m.own => m.seq \notin D
        BY <1>1, <1>3 DEF Due
      <3>2. e.type # "created" => D \subseteq Due(0)
        BY <1>1, <1>4, <1>5 DEF Due
      <3> QED  BY <2>1, <3>1, <3>2
    <2>3. /\ IsFiniteSet(Due(0)) /\ Cardinality(Due(0)) \in Nat
          /\ \A T \in SUBSET Due(0) : Cardinality(T) <= Cardinality(Due(0)) /\ Cardinality(T) \in Nat
      BY <1>2, DueIsFinite DEF CacheType
    <2>4. row \in [loaded : BOOLEAN, there : BOOLEAN, unread : Nat] /\ RowFits(row)
      BY <1>2 DEF CacheType, SurfacesType, Fits
    <2>5. CASE row.loaded /\ row.there /\ IsNew(e) /\ ~m.own
      <3>1. r = [row EXCEPT !.unread = @ + 1]
        BY <1>9, <2>5 DEF Counted
      <3>2. r.unread = row.unread + 1 /\ r.loaded = row.loaded /\ r.there = row.there
        BY <2>4, <3>1
      <3>3. Cardinality(D) <= Cardinality(Due(0)) + 1
        <4>1. IsFiniteSet(Due(0) \union {m.seq})
              /\ Cardinality(Due(0) \union {m.seq}) \in {Cardinality(Due(0)), Cardinality(Due(0)) + 1}
          BY <2>3, FS_AddElement
        <4>2. Cardinality(D) <= Cardinality(Due(0) \union {m.seq}) /\ Cardinality(D) \in Nat
          BY <2>1, <4>1, FS_Subset, FS_CardinalityType
        <4> QED  BY <2>3, <4>1, <4>2
      <3>4. Cardinality(Due(0)) <= row.unread /\ row.unread \in Nat
        BY <2>4, <2>5 DEF RowFits
      <3>5. Cardinality(D) <= r.unread
        <4>1. Cardinality(D) \in Nat
          BY <2>1, <2>3, FS_AddElement, FS_Subset, FS_CardinalityType
        <4> QED  BY <2>3, <3>2, <3>3, <3>4, <4>1
      <3> QED  BY <2>5, <3>2, <3>5 DEF RowFits
    <2>6. CASE ~(row.loaded /\ row.there /\ IsNew(e) /\ ~m.own)
      <3>1. r = row
        BY <1>9, <2>6 DEF Counted
      <3> SUFFICES ASSUME row.there PROVE r.loaded /\ Cardinality(D) <= r.unread
        BY <3>1 DEF RowFits
      <3>2. row.loaded /\ Cardinality(Due(0)) <= row.unread
        BY <2>4 DEF RowFits
      <3>3. e.type # "created" \/ m.own
        <4>1. ~IsNew(e) \/ m.own
          BY <2>6, <3>2
        <4>2. e.type = "created" /\ ~m.own => IsNew(e)
          BY <1>1, <1>2 DEF Fits, SeenFits, IsNew
        <4> QED  BY <4>1, <4>2
      <3>4. D \subseteq Due(0)
        BY <2>2, <3>3
      <3>5. Cardinality(D) <= Cardinality(Due(0)) /\ Cardinality(D) \in Nat
        BY <2>3, <3>4
      <3> QED  BY <2>3, <2>4, <3>1, <3>2, <3>5
    <2> QED  BY <2>5, <2>6
  <1>12. SeenFits(n)'
    <2> SUFFICES ASSUME NEW f \in Wire', f.type = "created", ~f.msg.own PROVE f.msg.seq > n
      BY DEF SeenFits
    <2>1. f \in Wire /\ f.stamp > e.stamp
      BY <1>1 DEF OwnEcho
    <2>2. f.msg.seq > m.seq /\ f.msg.seq > seenSeq
      BY <1>1, <1>2, <2>1 DEF WireIsTrue, Fits, SeenFits
    <2>3. seenSeq \in Nat
      BY <1>2, MessagesAreReal DEF CacheType, SurfacesType
    <2>4. n = seenSeq \/ n = m.seq
      BY <1>3, <1>9, <2>3, MaxOfTwo
    <2> QED  BY <2>2, <2>4
  <1>13. ASSUME NEW k \in Kinds PROVE CallFits(k, call[k])'
    <2> PICK c : c = call'[k]
      OBVIOUS
    <2>1. CASE c.phase # "answered"
      BY <2>1 DEF CallFits
    <2>2. CASE c.phase = "answered"
      <3>1. c = call[k]
        BY <1>2, <2>2 DEF Receive, CacheType, CallsType
      <3>2. CallType(k, c) /\ CallFits(k, c)
        BY <1>2, <3>1 DEF CacheType, CallsType, Fits
      <3>3. Carries(c.stamp)
        BY <1>1, <2>2
      <3>4. CallFits(k, c)'
        BY <1>2, <3>2, <3>3, CallCarries
      <3> QED  BY <3>4
    <2> QED  BY <2>1, <2>2
  <1> QED  BY <1>8, <1>10, <1>11, <1>12, <1>13 DEF Fits

LEMMA ReceiveStep ==
  ASSUME CacheInv, NEW i \in DOMAIN wire, Receive(i)
  PROVE  CacheInv'
  <1> PICK e : e = wire[i]
    OBVIOUS
  <1>1. CacheType /\ Quiet /\ RefusedAreGone /\ WireIsTrue
    BY DEF CacheInv
  <1>2. wire \in Seq(Event) /\ UNCHANGED <<msgs, read, member, stamp, down>>
        /\ wire' = RemoveAt(wire, i)
    BY <1>1 DEF CacheType, WireType, Receive, server
  <1>3. wire' \in Seq(Event) /\ Wire' \subseteq Wire /\ e \in Wire
    BY <1>2, Shrinks
  <1>4. e \in Event /\ EventType(e) /\ e.stamp \in Nat /\ e.stamp <= stamp
    BY <1>1, <1>3, WireHasEvents DEF CacheType, WireType
  <1>5. Grows
    BY <1>1, <1>2, MessagesAreReal DEF Grows, CacheType, ServerType, Seqs
  <1>6. WireType'
    <2>1. \A f \in Wire : f \in Event /\ EventType(f)
      BY <1>1, WireHasEvents DEF CacheType, WireType
    <2>2. \A f \in Wire' : EventType(f)'
      BY <1>1, <1>3, <1>5, <2>1, Types
    <2> QED  BY <1>3, <2>2 DEF WireType
  <1>7. /\ CallsType'
        /\ \A k \in Kinds :
             call'[k] = call[k] \/ (call[k] = Idle /\ k = "backfill" /\ call'[k].phase = "asked")
    <2> PICK c : c = [phase |-> "asked", input |-> 0]
      OBVIOUS
    <2>1. c \in AskedCall /\ "backfill" \in Kinds /\ c.phase = "asked"
      BY DEF AskedCall, Kinds
    <2>2. CallType("backfill", c)'
      BY <2>1 DEF CallType
    <2>3. CASE call["backfill"] = Idle /\ call' = [call EXCEPT !["backfill"] = c]
      <3>1. CallsType'
        BY <1>1, <1>5, <2>1, <2>2, <2>3, CallsKeepType
      <3>2. \A k \in Kinds : call'[k] = IF k = "backfill" THEN c ELSE call[k]
        BY <1>1, <2>3 DEF CacheType, CallsType
      <3> QED  BY <2>1, <2>3, <3>1, <3>2
    <2>4. CASE call' = call
      <3> PICK d : d = call["backfill"] /\ d = call'["backfill"]
        BY <2>4
      <3>1. CallType("backfill", d)
        BY <1>1, <2>1 DEF CacheType, CallsType
      <3>2. CallType("backfill", d)'
        BY <1>1, <1>5, <3>1, Types
      <3>3. call' = [call EXCEPT !["backfill"] = d]
        BY <1>1, <2>4 DEF CacheType, CallsType
      <3>4. CallsType'
        BY <1>1, <1>5, <2>1, <3>2, <3>3, CallsKeepType
      <3> QED  BY <2>4, <3>4
    <2> QED  BY <2>3, <2>4 DEF Receive
  <1>8. ghost' \in [newest : 0 .. stamp, inOrder : BOOLEAN, asks : Nat, edits : Nat, breaks : Nat]
        /\ ghost'.breaks = ghost.breaks
    <2> PICK a, b : a = Max({ghost.newest, e.stamp})
                    /\ b = (ghost.inOrder /\ (e.stamp > ghost.newest \/ OwnEcho(e)))
      OBVIOUS
    <2>1. ghost' = [ghost EXCEPT !.newest = a, !.inOrder = b]
      BY DEF Receive
    <2>2. ghost \in [newest : 0 .. stamp, inOrder : BOOLEAN, asks : Nat, edits : Nat, breaks : Nat]
          /\ stamp \in Nat
      BY <1>1 DEF CacheType, SurfacesType, ServerType
    <2>3. a \in 0 .. stamp
      BY <1>4, <2>2, MaxOfTwo
    <2>4. b \in BOOLEAN
      OBVIOUS
    <2> QED  BY <2>1, <2>2, <2>3, <2>4
  <1>9. SurfacesType'
    <2> PICK p, q, r, n : p = page /\ q = page' /\ r = row' /\ n = seenSeq'
      OBVIOUS
    <2>1. /\ row \in [loaded : BOOLEAN, there : BOOLEAN, unread : Nat] /\ PageType(p)
          /\ seenSeq \in 0 .. Len(msgs) /\ Len(msgs) \in Nat /\ Seqs = 1 .. Len(msgs)
      BY <1>1, MessagesAreReal DEF CacheType, SurfacesType
    <2>2. /\ r \in [loaded : BOOLEAN, there : BOOLEAN, unread : Nat] /\ PageType(q)
          /\ n \in 0 .. Len(msgs)
      <3>1. CASE e.type = "removed"
        <4>1. r = (IF row.loaded THEN Absent ELSE row) /\ q = Nothing /\ n = 0
          BY <3>1 DEF Receive, DropConversation
        <4>2. Absent \in [loaded : BOOLEAN, there : BOOLEAN, unread : Nat] /\ PageType(Nothing)
          BY DEF Absent, PageType, Nothing
        <4> QED  BY <2>1, <4>1, <4>2
      <3>2. CASE e.type # "removed"
        <4> PICK m : m = e.msg
          OBVIOUS
        <4>1. /\ r = Counted(e, FALSE) /\ n = Max({seenSeq, m.seq})
              /\ q = IF p.loaded THEN [p EXCEPT !.rows = ReplaceMessage(@, m)] ELSE p
          BY <3>2 DEF Receive, ApplyMessage
        <4>2. m \in Msg /\ m.seq \in Seqs
          BY <1>4, <3>2 DEF Event, EventType
        <4>3. PageType(q)
          BY <1>1, <2>1, <4>1, <4>2, ShownPage
        <4>4. n \in 0 .. Len(msgs)
          <5>1. seenSeq \in Nat /\ m.seq \in Nat /\ m.seq \in 0 .. Len(msgs)
            BY <2>1, <4>2
          <5>2. n = seenSeq \/ n = m.seq
            BY <4>1, <5>1, MaxOfTwo
          <5> QED  BY <2>1, <5>1, <5>2
        <4>5. r = row \/ r = [row EXCEPT !.unread = @ + 1]
          BY <4>1 DEF Counted
        <4> QED  BY <2>1, <4>3, <4>4, <4>5
      <3> QED  BY <3>1, <3>2
    <2>3. PageType(q)'
      BY <1>1, <1>5, <2>2, Types
    <2> QED  BY <1>2, <1>8, <2>2, <2>3 DEF SurfacesType
  <1>10. CacheType'
    BY <1>1, <1>2, <1>6, <1>7, <1>9 DEF CacheType, ServerType
  <1>11. Quiet'
    <2>1. \A k \in PollCalls : k \in Kinds /\ k # "backfill"
      BY DEF PollCalls, Kinds
    <2> QED  BY <1>1, <1>2, <1>7, <1>8, <2>1 DEF Quiet
  <1>12. RefusedAreGone'
    BY <1>1, <1>2, <1>3, <1>7 DEF RefusedAreGone
  <1>13. WireIsTrue'
    BY <1>1, <1>2, <1>3 DEF WireIsTrue, Message
  <1>14. Straight' => Fits'
    BY <1>10, ArrivesFitting
  <1> QED  BY <1>10, <1>11, <1>12, <1>13, <1>14 DEF CacheInv, Current
-----------------------------------------------------------------------------
(* The stream breaks, and the poller takes over.                            *)

\* A step after which the stream has been broken owes nothing but Base.
LEMMA BrokenStep ==
  ASSUME Base', ghost'.breaks # 0
  PROVE  CacheInv'
  BY DEF Base, CacheInv, Current, Straight

LEMMA BreakStep ==
  ASSUME CacheInv, Break
  PROVE  CacheInv'
  <1>1. CacheType /\ WireIsTrue /\ RefusedAreGone
    BY DEF CacheInv
  <1>2. UNCHANGED <<msgs, read, member, stamp, call, row, page, seenSeq>> /\ wire' = <<>>
        /\ down' = TRUE /\ ghost' = [ghost EXCEPT !.breaks = @ + 1]
    BY DEF Break, server, cache
  <1>3. Wire' = {}
    BY <1>2 DEF Wire
  <1>4. Grows
    BY <1>1, <1>2, MessagesAreReal DEF Grows, CacheType, ServerType, Seqs
  <1>5. ghost' \in [newest : 0 .. stamp', inOrder : BOOLEAN, asks : Nat, edits : Nat, breaks : Nat]
        /\ ghost'.breaks # 0
    BY <1>1, <1>2 DEF CacheType, SurfacesType
  <1>6. SurfacesType'
    BY <1>1, <1>2, <1>4, <1>5, SurfacesKeepType DEF cache
  <1>7. CallsType'
    <2>1. ASSUME NEW k \in Kinds PROVE CallType(k, call[k])'
      <3> PICK c : c = call[k] /\ c = call'[k]
        BY <1>2
      <3>1. CallType(k, c)'
        BY <1>1, <1>4, Types DEF CacheType, CallsType
      <3> QED  BY <3>1
    <2> QED  BY <1>1, <1>2, <2>1 DEF CacheType, CallsType
  <1>8. ServerType' /\ WireType'
    BY <1>1, <1>2, <1>3 DEF CacheType, ServerType, WireType
  <1>9. Quiet' /\ RefusedAreGone' /\ WireIsTrue'
    BY <1>1, <1>2, <1>3, <1>5 DEF Quiet, RefusedAreGone, WireIsTrue
  <1>10. Base'
    BY <1>6, <1>7, <1>8, <1>9 DEF Base, CacheType
  <1> QED  BY <1>5, <1>10, BrokenStep

\* A step of the stream or the poller that may change who is down and what is asked.
LEMMA DownStep ==
  ASSUME CacheInv, UNCHANGED <<server, wire, cache, ghost>>, ghost.breaks # 0, down' \in BOOLEAN,
         call' = [k \in Kinds |-> call'[k]],
         \A k \in Kinds : call'[k] = call[k]
                          \/ (k \in PollCalls /\ call'[k] = [phase |-> "asked", input |-> 0])
  PROVE  CacheInv'
  <1>1. CacheType /\ WireIsTrue /\ RefusedAreGone
    BY DEF CacheInv
  <1>2. UNCHANGED <<msgs, read, member, stamp, row, page, seenSeq>>
    BY DEF server, cache
  <1>3. Grows
    BY <1>1, <1>2, MessagesAreReal DEF Grows, CacheType, ServerType, Seqs
  <1>4. SurfacesType'
    BY <1>1, <1>3, GhostGrows, SurfacesKeepType
  <1>5. CallsType'
    <2>1. ASSUME NEW k \in Kinds PROVE CallType(k, call[k])'
      <3> PICK c, d : c = call[k] /\ d = call'[k]
        OBVIOUS
      <3>1. CallType(k, c)
        BY <1>1 DEF CacheType, CallsType
      <3>2. CASE d = c
        <4>1. CallType(k, d)'
          BY <1>1, <1>3, <3>1, <3>2, Types
        <4> QED  BY <4>1
      <3>3. CASE k \in PollCalls /\ d = [phase |-> "asked", input |-> 0]
        <4>1. d \in AskedCall /\ d.phase = "asked" /\ k # "page" /\ k # "older"
          BY <3>3 DEF AskedCall, PollCalls
        <4>2. CallType(k, d)'
          BY <4>1 DEF CallType
        <4> QED  BY <4>2
      <3> QED  BY <3>2, <3>3
    <2> QED  BY <2>1 DEF CallsType
  <1>6. ServerType' /\ WireType' /\ WireIsTrue'
    <2>1. ServerType'
      BY <1>1, <1>2 DEF CacheType, ServerType
    <2>2. WireType' /\ WireIsTrue'
      BY <1>1, <1>2 DEF CacheType, WireType, WireIsTrue, Wire, EventType, Seqs, Message
    <2> QED  BY <2>1, <2>2
  <1>7. RefusedAreGone'
    BY <1>1, <1>2 DEF RefusedAreGone, Wire
  <1>8. Base' /\ ghost'.breaks # 0
    BY <1>4, <1>5, <1>6, <1>7 DEF Base, CacheType, Quiet
  <1> QED  BY <1>8, BrokenStep

LEMMA ReopenStep ==
  ASSUME CacheInv, Reopen
  PROVE  CacheInv'
  <1>1. ghost.breaks # 0
    BY DEF CacheInv, Quiet, Reopen
  <1>2. call' = [k \in Kinds |-> call'[k]] /\ \A k \in Kinds : call'[k] = call[k]
    BY DEF CacheInv, CacheType, CallsType, Reopen
  <1>3. UNCHANGED <<server, wire, cache, ghost>> /\ down' \in BOOLEAN
    BY DEF Reopen
  <1> QED  BY <1>1, <1>2, <1>3, DownStep

LEMMA PollTickStep ==
  ASSUME CacheInv, PollTick
  PROVE  CacheInv'
  <1>1. ghost.breaks # 0 /\ down \in BOOLEAN
    BY DEF CacheInv, Quiet, PollTick, CacheType, ServerType
  <1> PICK asked : asked = [phase |-> "asked", input |-> 0]
    OBVIOUS
  <1>2. /\ call' = [k \in Kinds |-> call'[k]]
        /\ \A k \in Kinds : call'[k] = call[k]
                            \/ (k \in PollCalls /\ call'[k] = asked)
    <2>1. call' = [k \in Kinds |->
             IF (k = "pollList" /\ row.loaded) \/ (k = "pollPage" /\ page.loaded)
             THEN asked ELSE call[k]]
      BY DEF PollTick
    <2>2. "pollList" \in PollCalls /\ "pollPage" \in PollCalls
      BY DEF PollCalls
    <2> QED  BY <2>1, <2>2
  <1>3. UNCHANGED <<server, wire, cache, ghost>> /\ down' \in BOOLEAN
    BY <1>1 DEF PollTick
  <1> QED  BY <1>1, <1>2, <1>3, DownStep

LEMMA PollsLand ==
  ASSUME CacheInv, LandPollList \/ LandPollPage
  PROVE  CacheInv'
  <1>1. /\ CacheType /\ PollCalls \subseteq Kinds
        /\ row \in [loaded : BOOLEAN, there : BOOLEAN, unread : Nat]
        /\ PageType(page) /\ seenSeq \in 0 .. Len(msgs) /\ Len(msgs) \in Nat
    BY MessagesAreReal DEF CacheInv, CacheType, SurfacesType, Kinds
  <1> PICK p, r, n : p = page' /\ r = row' /\ n = seenSeq'
    OBVIOUS
  <1>2. PICK k \in PollCalls :
          /\ Lands(k) /\ AppliedTo(call[k].stamp, TRUE) /\ UNCHANGED <<server, wire, down>>
          /\ \/ k = "pollList" /\ LandPollList
             \/ k = "pollPage" /\ LandPollPage
    BY DEF LandPollList, LandPollPage, Applied, PollCalls
  <1>3. k \in Kinds /\ call[k].phase = "answered"
    BY <1>1, <1>2 DEF Lands
  <1>4. Absent \in [loaded : BOOLEAN, there : BOOLEAN, unread : Nat] /\ PageType(Nothing)
    BY DEF Absent, PageType, Nothing
  <1>5. /\ r \in [loaded : BOOLEAN, there : BOOLEAN, unread : Nat] /\ PageType(p)
        /\ n \in 0 .. Len(msgs)
    <2>1. CASE k = "pollList"
      <3>1. Listed(call[k].ans.unread) \in [loaded : BOOLEAN, there : BOOLEAN, unread : Nat]
        BY <1>1, <1>3, <2>1, AnswerTypes
      <3>2. (r = row \/ r = Listed(call[k].ans.unread)) /\ p = page /\ n = seenSeq
        BY <1>2, <2>1 DEF LandPollList
      <3> QED  BY <1>1, <3>1, <3>2
    <2>2. CASE k = "pollPage" /\ ~call[k].ok
      <3>1. (r = row \/ r = Absent) /\ p = Nothing /\ n = 0
        BY <1>2, <2>2 DEF LandPollPage, DropConversation
      <3> QED  BY <1>1, <1>4, <3>1
    <2>3. CASE k = "pollPage" /\ call[k].ok
      <3> PICK a, rows : a = call[k].ans /\ rows = MergePolled(page.rows, a.rows)
        OBVIOUS
      <3>1. /\ p = IF page.loaded THEN [page EXCEPT !.rows = rows] ELSE page
            /\ n = Max({seenSeq, HighestSeq(a.rows)}) /\ r = row
        BY <1>2, <2>3 DEF LandPollPage
      <3>2. a \in PageAnswer /\ RealPage(a)
        BY <1>1, <1>3, <2>3, AnswerTypes
      <3>3. n \in 0 .. Len(msgs)
        BY <1>1, <3>1, <3>2, RowsAreSeen DEF RealPage
      <3>4. CASE page.loaded
        <4>1. /\ page \in [loaded : {TRUE}, rows : SUBSET Msg, next : Nat]
              /\ RealRows(page.rows) /\ page.next \in 0 .. Len(msgs)
          BY <1>1, <3>4, LoadedPage
        <4>2. \A m \in rows : m \in page.rows \/ m \in a.rows
          BY DEF MergePolled
        <4>3. rows \subseteq Msg /\ RealRows(rows)
          BY <3>2, <4>1, <4>2 DEF RealRows, RealPage, PageAnswer
        <4>4. p = [page EXCEPT !.rows = rows]
          BY <3>1, <3>4
        <4>5. /\ p \in [loaded : {TRUE}, rows : SUBSET Msg, next : Nat]
              /\ p.rows = rows /\ p.next = page.next
          BY <4>1, <4>3, <4>4
        <4> QED  BY <1>1, <3>1, <3>3, <4>1, <4>3, <4>5 DEF PageType, RealPage
      <3> QED  BY <1>1, <3>1, <3>3, <3>4
    <2> QED  BY <2>1, <2>2, <2>3 DEF PollCalls
  <1>6. ~Straight
    BY <1>2, <1>3 DEF CacheInv, Quiet, Straight, Idle
  <1> HIDE DEF Straight, Fits
  <1>7. UNCHANGED <<server, wire, down>> /\ Lands(k) /\ AppliedTo(call[k].stamp, TRUE)
    BY <1>2
  <1> QED  BY <1>3, <1>5, <1>6, <1>7, LandStep
-----------------------------------------------------------------------------
(* The invariant.                                                           *)

LEMMA CacheStarts == CacheInit => CacheInv
  <1> SUFFICES ASSUME CacheInit PROVE CacheInv
    OBVIOUS
  <1>1. /\ msgs = <<[own |-> FALSE, text |-> 0]>> /\ read = 0 /\ member = TRUE /\ stamp = 0
        /\ call = [k \in Kinds |-> Idle] /\ wire = <<>> /\ down = FALSE
        /\ row = [Absent EXCEPT !.loaded = FALSE] /\ page = Nothing /\ seenSeq = 0
        /\ ghost = [newest |-> 0, inOrder |-> TRUE, asks |-> 0, edits |-> 0, breaks |-> 0]
    BY DEF CacheInit
  <1>2. msgs \in Seq(Sent) /\ Len(msgs) \in Nat
    BY <1>1 DEF Sent
  <1>3. Wire = {} /\ wire \in Seq(Event)
    BY <1>1 DEF Wire
  <1>4. \A k \in Kinds : call[k] = Idle /\ Idle.phase = "idle"
    BY <1>1 DEF Idle
  <1>5. row = [loaded |-> FALSE, there |-> FALSE, unread |-> 0]
    BY <1>1 DEF Absent
  <1>6. SurfacesType
    <2>1. PageType(Nothing)
      BY DEF PageType, Nothing
    <2>2. row \in [loaded : BOOLEAN, there : BOOLEAN, unread : Nat]
      BY <1>5
    <2>3. seenSeq \in 0 .. Len(msgs)
      BY <1>1, <1>2
    <2>4. ghost \in [newest : 0 .. stamp, inOrder : BOOLEAN, asks : Nat, edits : Nat, breaks : Nat]
      BY <1>1
    <2>5. PageType(page)
      BY <1>1, <2>1
    <2> QED  BY <2>2, <2>3, <2>4, <2>5 DEF SurfacesType
  <1>7. CallsType
    <2>1. ASSUME NEW k \in Kinds PROVE CallType(k, Idle)
      BY DEF CallType, Idle
    <2>2. \A k \in Kinds : CallType(k, call[k])
      BY <1>4, <2>1
    <2>3. call = [k \in Kinds |-> call[k]]
      BY <1>1
    <2> QED  BY <2>2, <2>3 DEF CallsType
  <1>8. CacheType
    BY <1>1, <1>2, <1>3, <1>6, <1>7 DEF CacheType, ServerType, WireType
  <1>9. Quiet
    BY <1>1, <1>4 DEF Quiet, PollCalls, Kinds
  <1>10. RefusedAreGone /\ WireIsTrue
    BY <1>3, <1>4 DEF RefusedAreGone, WireIsTrue
  <1>11. Fits
    <2>1. WireIsCurrent /\ SeenFits(seenSeq)
      BY <1>3 DEF WireIsCurrent, SeenFits
    <2>2. PageFits(page) /\ RowFits(row)
      BY <1>1, <1>5 DEF PageFits, RowFits, Nothing
    <2>3. \A k \in Kinds : CallFits(k, call[k])
      BY <1>4 DEF CallFits
    <2> QED  BY <2>1, <2>2, <2>3 DEF Fits
  <1> QED  BY <1>8, <1>9, <1>10, <1>11 DEF CacheInv, Current

LEMMA CacheUnchanged ==
  ASSUME CacheInv, UNCHANGED cacheVars
  PROVE  CacheInv'
  <1>1. CacheType /\ WireIsTrue /\ Quiet /\ RefusedAreGone
    BY DEF CacheInv
  <1>2. /\ UNCHANGED <<msgs, read, member, stamp, call, wire, down, row, page, seenSeq, ghost>>
        /\ UNCHANGED cache
    BY DEF cacheVars, server, cache
  <1>3. Grows
    BY <1>1, <1>2, MessagesAreReal DEF Grows, CacheType, ServerType, Seqs
  <1>4. ServerType' /\ msgs' \in Seq(Sent) /\ member' \in BOOLEAN
    BY <1>1, <1>2 DEF CacheType, ServerType
  <1>5. WireType' /\ WireIsTrue'
    BY <1>1, <1>2 DEF CacheType, WireType, WireIsTrue, Wire, EventType, Seqs, Message
  <1>6. ghost' \in [newest : 0 .. stamp', inOrder : BOOLEAN, asks : Nat, edits : Nat, breaks : Nat]
        /\ SameClock
    BY <1>1, <1>2 DEF CacheType, SurfacesType, SameClock
  <1>7. Advance /\ Wire' = Wire
    BY <1>2, NothingAdvances
  <1> QED  BY <1>1, <1>2, <1>3, <1>4, <1>5, <1>6, <1>7, ServerStep

LEMMA CacheSteps ==
  ASSUME CacheInv, [CacheNext]_cacheVars
  PROVE  CacheInv'
  <1>1. ASSUME Serve PROVE CacheInv'
    <2>1. CASE \E k \in Kinds : ServeRead(k)
      BY <2>1, ServeReadStep
    <2> QED  BY <1>1, <2>1, ServeSendStep, ServeMarkStep DEF Serve
  <1>2. ASSUME Land PROVE CacheInv'
    BY <1>2, ListLands, PageLands, OlderLands, SendLands, MarkLands, PollsLand DEF Land
  <1>3. ASSUME Streaming PROVE CacheInv'
    <2>1. CASE \E i \in DOMAIN wire : i <= 2 /\ Receive(i)
      BY <2>1, ReceiveStep
    <2> QED  BY <1>3, <2>1, BreakStep, ReopenStep DEF Streaming
  <1> QED  BY <1>1, <1>2, <1>3, AskSteps, OthersSteps, PollTickStep, CacheUnchanged DEF CacheNext

\* Always, while nothing was lost or overtaken, what the cache shows is what the
\* server has, but for what is on its way.
LEMMA CacheInvariant == CacheSpec => []CacheInv
  <1>1. CacheInit => CacheInv
    BY CacheStarts
  <1>2. CacheInv /\ [CacheNext]_cacheVars => CacheInv'
    BY CacheSteps
  <1> QED  BY <1>1, <1>2, PTL DEF CacheSpec

\* Nothing under way, nothing on its way.
LEMMA Rest ==
  ASSUME CacheInv, AtRest, Uninterrupted, member
  PROVE  /\ CacheType /\ Fits
         /\ \A q, s : ~NewAfter(q, s) /\ ~PendingAfter(q, s)
  <1>1. Wire = {}
    BY DEF AtRest, Wire
  <1>2. \A k \in Kinds : call[k].phase # "answered"
    BY DEF AtRest, Idle
  <1>3. Straight
    BY <1>1, <1>2 DEF Straight, Uninterrupted
  <1> QED  BY <1>1, <1>3 DEF CacheInv, Current, NewAfter, PendingAfter

\* With the stream up throughout and nothing overtaken, a client with nothing
\* under way shows every message back to its cursor, and no outdated text, for any
\* number of messages, edits and calls and any size of page.
THEOREM ShownCurrent == CacheSpec => []ShownIsCurrent
  <1>1. CacheInv => ShownIsCurrent
    <2> SUFFICES ASSUME CacheInv, AtRest, Uninterrupted, member, page.loaded
                 PROVE  /\ \A q \in Loaded : Message(q) \in page.rows
                        /\ \A m \in page.rows : m = Message(m.seq)
      BY DEF ShownIsCurrent
    <2>1. CacheType /\ Fits /\ \A q, s : ~NewAfter(q, s) /\ ~PendingAfter(q, s)
      BY Rest
    <2>2. Covers(page.next, 0, page.rows, 0) /\ TrueRows(page.rows, 0)
      BY <2>1 DEF Fits, PageFits
    <2>3. \A m \in page.rows : m = Message(m.seq)
      BY <2>1, <2>2 DEF TrueRows
    <2>4. ASSUME NEW q \in Loaded PROVE Message(q) \in page.rows
      <3>1. q \in Seqs /\ Between(q, page.next, 0)
        BY DEF Loaded, Between
      <3>2. PICK m \in page.rows : m.seq = q
        BY <2>1, <2>2, <3>1 DEF Covers, InRows
      <3> QED  BY <2>3, <3>2
    <2> QED  BY <2>3, <2>4
  <1> QED  BY <1>1, CacheInvariant, PTL

\* ... and then the count of a conversation in its list is at least the number of
\* its unread messages.
THEOREM UnreadShown == CacheSpec => []UnreadIsNotHidden
  <1>1. CacheInv => UnreadIsNotHidden
    <2> SUFFICES ASSUME CacheInv, AtRest, Uninterrupted, member, row.there
                 PROVE  row.unread >= Unread
      BY DEF UnreadIsNotHidden
    <2>1. CacheType /\ Fits /\ \A q, s : ~NewAfter(q, s) /\ ~PendingAfter(q, s)
      BY Rest
    <2>2. Due(0) = {q \in Seqs : q > read /\ ~msgs[q].own}
      BY <2>1 DEF Due
    <2>3. Unread = Cardinality(Due(0))
      BY <2>2 DEF Unread
    <2>4. Cardinality(Due(0)) <= row.unread /\ row.unread \in Nat /\ Cardinality(Due(0)) \in Nat
      BY <2>1, DueIsFinite DEF Fits, RowFits, CacheType, SurfacesType
    <2> QED  BY <2>3, <2>4
  <1> QED  BY <1>1, CacheInvariant, PTL
=============================================================================
