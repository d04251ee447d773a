----------------------------- MODULE Connection ----------------------------
(***************************************************************************)
(* How a client stays in touch with the server: the controller of the      *)
(* stream (packages/client/src/realtime.ts), the poller that stands in for *)
(* it (polling.ts), and what a poll asks for and what its answers do       *)
(* (client.ts).                                                            *)
(*                                                                         *)
(* Time passes in units; the poller's interval is Interval of them.  What  *)
(* the answers say of messages is the subject of ClientCache: here a       *)
(* thread is loaded or not, and the server lets the user read it or not.   *)
(***************************************************************************)
EXTENDS Naturals, Sequences

CONSTANTS
    Threads,        \* the conversations the user may open
    PolledThreads,  \* how many of them a poll refreshes
    Interval,       \* the poller's interval
    MaxFailures,    \* bound: how many polls may fail
    MaxChanges      \* bound: how often the user is removed or added

ASSUME ConnectionAssumption ==
    /\ PolledThreads \in Nat \ {0}
    /\ Interval \in Nat \ {0}
    /\ MaxFailures \in Nat
    /\ MaxChanges \in Nat

VARIABLES
    setting,    \* the host's choice: mode, and whether there is an EventSource
    wanted,     \* connect was called, and disconnect not since
    source,     \* the EventSource: "none", "connecting", "open" or "closed"
    abandoned,  \* a source that was given up and may still say that it opened
    status,     \* what the snapshot says
    error,      \* whether the snapshot holds an error
    poller,     \* the poller, and what its ticks have asked
    hidden,     \* the tab is hidden
    recent,     \* the threads touched last, newest first
    loaded,     \* the threads with a page in the cache
    readable,   \* the threads the server lets the user read
    leaving,    \* the removals on their way down the stream
    bounds

vars == <<setting, wanted, source, abandoned, status, error, poller, hidden, recent, loaded,
          readable, leaving, bounds>>

stream == <<setting, wanted, source, abandoned, status, error>>
rooms == <<recent, loaded, readable, leaving>>

Modes == {"auto", "sse", "poll"}
Statuses == {"idle", "connecting", "open", "closed", "polling"}

\* A timer that is not set.
Off == Interval + 1

\* The list of conversations, taken as loaded, is polled along with the threads.
List == "list"

TypeOK ==
    /\ setting \in [mode : Modes, sourced : BOOLEAN]
    /\ wanted \in BOOLEAN /\ abandoned \in BOOLEAN /\ error \in BOOLEAN /\ hidden \in BOOLEAN
    /\ source \in {"none", "connecting", "open", "closed"}
    /\ status \in Statuses
    /\ poller.timer \in 0 .. Off /\ poller.since \in 0 .. Interval
    /\ DOMAIN poller.asks \subseteq Threads \cup {List}
    /\ loaded \subseteq Threads /\ readable \subseteq Threads /\ leaving \subseteq Threads
    /\ \A i \in DOMAIN recent : recent[i] \in Threads

Init ==
    /\ setting \in [mode : Modes, sourced : BOOLEAN]
    /\ wanted = FALSE /\ abandoned = FALSE
    /\ source = "none"
    /\ status = "idle" /\ error = FALSE
    /\ poller = [running |-> FALSE, timer |-> Off, since |-> Interval, ticking |-> FALSE,
                 asks |-> <<>>, why |-> "shown", crowded |-> FALSE]
    /\ hidden \in BOOLEAN
    /\ recent = <<>> /\ loaded = {} /\ readable = Threads /\ leaving = {}
    /\ bounds = [failures |-> 0, changes |-> 0]
-----------------------------------------------------------------------------
(***************************************************************************)
(* The poller.  "crowded" is a ghost: a tick began while the requests of   *)
(* another were out, or within an interval of the last one.  "why" says    *)
(* what began the last tick, for the ghost alone.                          *)
(***************************************************************************)

\* The recent threads that are loaded, and the list.
Polled == {t \in loaded : \E i \in DOMAIN recent : recent[i] = t} \cup {List}

\* One beat, unless one is under way or nobody looks.  Showing the tab ticks
\* whatever the time.
Tick(p, unseen, why) ==
    IF p.ticking \/ unseen THEN p
    ELSE [p EXCEPT
            !.ticking = TRUE, !.since = 0, !.asks = [s \in Polled |-> "sent"],
            !.crowded = @ \/ p.asks # <<>>
                          \/ ("shown" \notin {why, p.why} /\ p.since < Interval),
            !.why = why]

StartTimer(p) == [p EXCEPT !.timer = IF @ = Off THEN Interval ELSE @]

\* Bug: every start ticks, however fresh the last tick.
StartAfresh(p) ==
    IF p.running THEN p ELSE Tick(StartTimer([p EXCEPT !.running = TRUE]), hidden, "started")

\* start: a fresh tick of an earlier start spares one.
Start(p) ==
    LET started == StartTimer([p EXCEPT !.running = TRUE])
    IN IF p.running THEN p
       ELSE IF p.since >= Interval THEN Tick(started, hidden, "started") ELSE started

Stop(p) == [p EXCEPT !.running = FALSE, !.timer = Off]

TimerFires ==
    /\ poller.timer = 0
    /\ poller' = Tick([poller EXCEPT !.timer = Interval], hidden, "timer")
    /\ UNCHANGED <<stream, hidden, rooms, bounds>>

\* A unit passes, unless the timer is due.
Pass ==
    /\ poller.timer # 0
    /\ poller.timer # Off \/ poller.since < Interval
    /\ poller' = [poller EXCEPT !.timer = IF @ = Off THEN Off ELSE @ - 1,
                                !.since = IF @ < Interval THEN @ + 1 ELSE @]
    /\ UNCHANGED <<stream, hidden, rooms, bounds>>

\* The listener of a running poller; one that is stopped listens to nothing.
Hide ==
    /\ ~hidden
    /\ hidden' = TRUE
    /\ poller' = IF poller.running THEN [poller EXCEPT !.timer = Off] ELSE poller
    /\ UNCHANGED <<stream, rooms, bounds>>

Show ==
    /\ hidden
    /\ hidden' = FALSE
    /\ poller' = IF poller.running THEN Tick(StartTimer(poller), FALSE, "shown") ELSE poller
    /\ UNCHANGED <<stream, rooms, bounds>>
-----------------------------------------------------------------------------
(***************************************************************************)
(* The controller.                                                         *)
(***************************************************************************)

\* Bug: an error is shown and nothing stands in for the stream.
ReportOnly(wants, seen, failed) ==
    status' = seen /\ error' = failed /\ UNCHANGED poller

\* What is seen is reported; where polling is allowed it then takes over.
FallBack(wants, seen, failed) ==
    IF setting.mode = "sse" \/ ~wants
    THEN status' = seen /\ error' = failed /\ UNCHANGED poller
    ELSE status' = "polling" /\ error' = failed /\ poller' = Start(poller)

\* "poll" never opens a stream.
ConnectPolling ==
    /\ setting.mode = "poll"
    /\ wanted' = TRUE
    /\ FallBack(TRUE, status, FALSE)
    /\ UNCHANGED <<setting, source, abandoned, hidden, rooms, bounds>>

\* A source that lives, or retries by itself, is left alone.
ConnectStream ==
    /\ setting.mode # "poll"
    /\ source \in {"none", "closed"}
    /\ setting.sourced
    /\ wanted' = TRUE
    /\ source' = "connecting"
    /\ status' = "connecting" /\ error' = FALSE
    /\ UNCHANGED <<setting, abandoned, poller, hidden, rooms, bounds>>

\* There is no EventSource in this runtime.
ConnectInVain ==
    /\ setting.mode # "poll"
    /\ ~setting.sourced
    /\ wanted' = TRUE
    /\ FallBack(TRUE, "closed", TRUE)
    /\ UNCHANGED <<setting, source, abandoned, hidden, rooms, bounds>>

Disconnect ==
    /\ status # "idle"
    /\ wanted' = FALSE
    /\ poller' = Stop(poller)
    /\ abandoned' = (abandoned \/ source = "connecting")
    /\ source' = "none"
    /\ leaving' = {}
    /\ status' = "closed" /\ error' = FALSE
    /\ UNCHANGED <<setting, hidden, recent, loaded, readable, bounds>>

\* onopen of the current source: the stream has authority again.
Opened ==
    /\ poller' = Stop(poller)
    /\ status' = "open" /\ error' = FALSE

StreamOpens ==
    /\ source = "connecting"
    /\ source' = "open"
    /\ Opened
    /\ UNCHANGED <<setting, wanted, abandoned, hidden, rooms, bounds>>

\* Bug: onopen does not ask whose it is.
LateOpenTrusted ==
    /\ abandoned
    /\ abandoned' = FALSE
    /\ Opened
    /\ UNCHANGED <<setting, wanted, source, hidden, rooms, bounds>>

\* onopen of a source that was given up: a replacement of EventSource may still
\* call it.
LateOpen ==
    /\ abandoned
    /\ abandoned' = FALSE
    /\ UNCHANGED <<setting, wanted, source, status, error, poller, hidden, rooms, bounds>>

\* onerror: the source tries again by itself, or the server's answer (401, 403)
\* has closed it for good.  What was on its way is lost.
StreamErrs ==
    \E next \in {"connecting", "closed"} :
        /\ source \in {"connecting", "open"}
        /\ source' = next
        /\ leaving' = {}
        /\ FallBack(wanted, next, TRUE)
        /\ UNCHANGED <<setting, wanted, abandoned, hidden, recent, loaded, readable, bounds>>
-----------------------------------------------------------------------------
(***************************************************************************)
(* The user's threads: what the host opens, what the server allows, and    *)
(* what the answers to a poll do.                                          *)
(***************************************************************************)

\* touchThread: to the front, and only so many are kept.
Touched(t) ==
    LET others == SelectSeq(recent, LAMBDA u : u # t)
    IN SubSeq(<<t>> \o others, 1, IF Len(others) + 1 < PolledThreads THEN Len(others) + 1
                                                                    ELSE PolledThreads)

\* messages.list, answered at once; a refusal leaves what was loaded.
OpenThread(t) ==
    /\ recent' = Touched(t)
    /\ loaded' = IF t \in readable THEN loaded \cup {t} ELSE loaded
    /\ UNCHANGED <<stream, poller, hidden, readable, leaving, bounds>>

\* Somebody removes the user: the event goes down the stream, if there is one.
LoseUser(t) ==
    /\ bounds.changes < MaxChanges
    /\ t \in readable
    /\ readable' = readable \ {t}
    /\ leaving' = IF source = "open" THEN leaving \cup {t} ELSE leaving
    /\ bounds' = [bounds EXCEPT !.changes = @ + 1]
    /\ UNCHANGED <<stream, poller, hidden, recent, loaded>>

AddUser(t) ==
    /\ bounds.changes < MaxChanges
    /\ t \notin readable
    /\ readable' = readable \cup {t}
    /\ bounds' = [bounds EXCEPT !.changes = @ + 1]
    /\ UNCHANGED <<stream, poller, hidden, recent, loaded, leaving>>

\* participant.removed names the viewer: every copy of the thread goes.
RemovalArrives(t) ==
    /\ t \in leaving
    /\ leaving' = leaving \ {t}
    /\ loaded' = loaded \ {t}
    /\ UNCHANGED <<stream, poller, hidden, recent, readable, bounds>>

\* The server answers a request of a poll by what holds when it reads.
PollServed(s) ==
    /\ s \in DOMAIN poller.asks /\ poller.asks[s] = "sent"
    /\ poller' = [poller EXCEPT !.asks[s] =
                    IF s \in Threads \ readable THEN "FORBIDDEN_READ" ELSE "ok"]
    /\ UNCHANGED <<stream, hidden, rooms, bounds>>

PollFails(s) ==
    /\ s \in DOMAIN poller.asks /\ poller.asks[s] = "sent"
    /\ bounds.failures < MaxFailures
    /\ poller' = [poller EXCEPT !.asks[s] = "NETWORK_ERROR"]
    /\ bounds' = [bounds EXCEPT !.failures = @ + 1]
    /\ UNCHANGED <<stream, hidden, rooms>>

\* Bug: a refused poll is one that failed, and is tried again.
DropsNever(s, answer) == {}

\* A refusal is the only sign of the user's removal that a poll can get.
Drops(s, answer) == IF answer = "FORBIDDEN_READ" THEN {s} ELSE {}

\* The tick is over with the last of its answers.
PollLands(s) ==
    /\ s \in DOMAIN poller.asks /\ poller.asks[s] # "sent"
    /\ LET rest == [u \in DOMAIN poller.asks \ {s} |-> poller.asks[u]]
       IN poller' = [poller EXCEPT !.asks = rest, !.ticking = @ /\ rest # <<>>]
    /\ loaded' = loaded \ Drops(s, poller.asks[s])
    /\ UNCHANGED <<stream, hidden, recent, readable, leaving, bounds>>
-----------------------------------------------------------------------------
Connects == ConnectPolling \/ ConnectStream \/ ConnectInVain

Next ==
    \/ Connects
    \/ Disconnect
    \/ StreamOpens
    \/ StreamErrs
    \/ LateOpen
    \/ TimerFires
    \/ Pass
    \/ Hide
    \/ Show
    \/ \E t \in Threads : OpenThread(t) \/ LoseUser(t) \/ AddUser(t) \/ RemovalArrives(t)
    \/ \E s \in Threads \cup {List} : PollServed(s) \/ PollFails(s) \/ PollLands(s)

Spec == Init /\ [][Next]_vars

\* Clocks run, timers fire, and a request is answered or fails.
Fairness ==
    /\ WF_vars(Pass)
    /\ WF_vars(TimerFires)
    /\ WF_vars(\E s \in Threads \cup {List} : PollServed(s))
    /\ WF_vars(\E s \in Threads \cup {List} : PollLands(s))

FairSpec == Spec /\ Fairness
-----------------------------------------------------------------------------
\* The snapshot tells the truth, whatever order the host, the source and its late
\* callbacks come in: "open" is a live stream and no polls, "polling" is a poller
\* that runs and keeps the error that caused it, a client that was closed has
\* neither, and one that wants to be connected and may poll is never left with
\* nothing (createRealtime, realtime.ts:314-402).
StatusIsTrue ==
    /\ status = "open" => source = "open" /\ ~poller.running /\ ~error
    /\ status = "polling" => wanted /\ poller.running /\ (error <=> setting.mode # "poll")
    /\ status \in {"idle", "closed"} => ~poller.running
    /\ poller.running => wanted /\ status \in {"polling", "connecting"}
    /\ wanted /\ setting.mode # "sse" =>
        source = "open" \/ status = "connecting" \/ poller.running

\* Polls never overlap, and two follow each other within an interval only when one
\* of them is the catch-up of a tab that was shown: neither a stream that flaps nor
\* a slow network stacks up requests (createPoller, polling.ts:73-110).
PollsAreSpaced == ~poller.crowded

\* A thread the user was removed from does not stay on the screen of a client that
\* polls it, although no event tells it (pollOnce, client.ts:724-728).
Watched(t) ==
    t \in loaded \ readable /\ poller.running /\ ~hidden /\ \E i \in DOMAIN recent : recent[i] = t

RemovalIsNoticed == \A t \in Threads : Watched(t) ~> ~Watched(t)
=============================================================================
