--------------------------- MODULE TriggerScheduler ---------------------------
(***************************************************************************)
(* Event triggers (triggers/): the background scheduler with its reload of *)
(* the definitions, the cron, threshold, Slack, email and calendar ticks,  *)
(* the dispatcher, and the routes that edit or fire a trigger meanwhile.   *)
(*                                                                         *)
(* Time is counted in poll intervals of the loop.  `Binds` says whether    *)
(* the names that the code imports or looks up only when it runs are       *)
(* there (jsonb_to_dict, MCPClient.from_server_id, the columns of the      *)
(* trace insert): at this commit they are not, and FALSE is the code as it *)
(* is; TRUE is what the rest of it does once they are.                     *)
(***************************************************************************)
EXTENDS Integers, Sequences, FiniteSets, SequencesExt, FiniteSetsExt

CONSTANTS
    Trigger,
    ReloadEvery,   \* _RELOAD_INTERVAL_SECONDS
    CronEvery,     \* the period of a cron schedule
    PollEvery,     \* poll_interval_seconds, poll_interval_minutes
    EventAt,       \* when a calendar event, shifted by the offset, is due
    Tolerance,     \* _FIRE_TOLERANCE_SECONDS
    PruneEvery,    \* the hour of _maybe_prune
    PageSize,      \* limit of the Slack and email fetches
    Matching,      \* the messages that pass the trigger's filter
    Binds,         \* see above
    MaxTime,       \* bound: length of a behaviour
    MaxItems,      \* bound: messages that arrive
    MaxEdits,      \* bound: calls of the editing and firing routes
    MaxRestarts    \* bound: restarts of the kernel

ASSUME TriggerAssumption ==
    /\ IsFiniteSet(Trigger)
    /\ ReloadEvery \in Nat \ {0} /\ CronEvery \in Nat \ {0} /\ PollEvery \in Nat \ {0}
    /\ EventAt \in Nat /\ Tolerance \in Nat /\ PruneEvery \in Nat \ {0}
    /\ PageSize \in Nat \ {0} /\ Matching \subseteq Nat /\ Binds \in BOOLEAN
    /\ MaxTime \in Nat /\ MaxItems \in Nat /\ MaxEdits \in Nat /\ MaxRestarts \in Nat

Kinds   == {"webhook", "cron", "threshold", "slack", "email", "calendar"}
Unset   == -1
Message == 1..MaxItems

VARIABLES
    clock,
    kind,        \* trigger_definitions.kind, immutable
    row,         \* the definition: "on", "off", or "none" once deleted
    since,       \* when it was last switched or deleted
    metric,      \* what the aggregate over the window gives
    inbox,       \* messages that have arrived: 1..inbox, oldest first
    edits, restarts,
    sched,       \* where the scheduler is
    tickAt,      \* now of the tick
    wakeAt,      \* the end of its sleep
    todo,        \* triggers the tick has still to visit
    loaded,      \* _triggers
    lastReload,
    dbLost,      \* the last reload could not reach the database
    nextAt,      \* _cron_next, _next_poll
    wasMet,      \* ThresholdEvaluator._state
    falls,       \* evaluations that found the condition unmet
    cursor,      \* SlackIngester._cursors
    handled,        \* EmailIngester._seen
    eventFired,  \* CalendarPoller._fired
    lastPrune,
    acted        \* what this process has acted on, in order

trigVars == <<clock, kind, row, since, metric, inbox, edits, restarts, sched, tickAt,
              wakeAt, todo, loaded, lastReload, dbLost, nextAt, wasMet, falls, cursor,
              handled, eventFired, lastPrune, acted>>

worldVars  == <<clock, kind, row, since, metric, inbox, edits, restarts>>
memoryVars == <<wasMet, falls, cursor, handled, eventFired, lastPrune>>

TrigTypeOK ==
    /\ clock \in 0..MaxTime /\ kind \in [Trigger -> Kinds]
    /\ row \in [Trigger -> {"on", "off", "none"}] /\ since \in [Trigger -> 0..MaxTime]
    /\ metric \in {"none", "unmet", "met"} /\ inbox \in 0..MaxItems
    /\ edits \in 0..MaxEdits /\ restarts \in 0..MaxRestarts
    /\ sched \in {"sleep", "reload", "visit", "act", "record"}
    /\ tickAt \in Int /\ wakeAt \in Nat /\ lastReload \in Int /\ lastPrune \in Nat
    /\ todo \in Seq(Trigger) /\ loaded \in Seq(Trigger) /\ dbLost \in BOOLEAN
    /\ nextAt \in [Trigger -> Int] /\ wasMet \in [Trigger -> BOOLEAN]
    /\ falls \in [Trigger -> Nat]
    /\ cursor \in [Trigger -> 0..MaxItems] /\ handled \in [Trigger -> SUBSET Message]
    /\ eventFired \subseteq Trigger
    /\ acted \in Seq(Trigger \X Nat)

\* A process starts with nothing in memory.  Its clock is far from 0, so the
\* first tick reloads and every poll is due.
Blank == [wasMet |-> [t \in Trigger |-> FALSE], falls |-> [t \in Trigger |-> 0],
          cursor |-> [t \in Trigger |-> 0], handled |-> [t \in Trigger |-> {}]]

TrigInit ==
    /\ clock = 0
    /\ kind \in [Trigger -> Kinds]
    /\ row = [t \in Trigger |-> "on"] /\ since = [t \in Trigger |-> 0]
    /\ metric = "none" /\ inbox = 0 /\ edits = 0 /\ restarts = 0
    /\ sched = "sleep" /\ tickAt = -1 /\ wakeAt = 1
    /\ todo = <<>> /\ loaded = <<>> /\ lastReload = -ReloadEvery /\ dbLost = FALSE
    /\ nextAt = [t \in Trigger |-> Unset]
    /\ wasMet = Blank.wasMet /\ falls = Blank.falls /\ cursor = Blank.cursor
    /\ handled = Blank.handled /\ eventFired = {} /\ lastPrune = 0
    /\ acted = <<>>

-----------------------------------------------------------------------------
(***************************************************************************)
(* The world: time, the metric, messages, and the editing routes.          *)
(***************************************************************************)
schedVars == <<sched, tickAt, wakeAt, todo, loaded, lastReload, dbLost, nextAt,
               memoryVars, acted>>

Elapse ==
    /\ clock < MaxTime
    /\ clock' = clock + 1
    /\ UNCHANGED <<kind, row, since, metric, inbox, edits, restarts, schedVars>>

\* record_metric_sample, or samples that leave the window; only where a trigger
\* looks at them, as with messages.
MetricMoves(value) ==
    /\ \E t \in Trigger : kind[t] = "threshold"
    /\ edits < MaxEdits /\ edits' = edits + 1
    /\ metric' = value
    /\ UNCHANGED <<clock, kind, row, since, inbox, restarts, schedVars>>

MessageArrives ==
    /\ inbox < MaxItems /\ \E t \in Trigger : kind[t] \in {"slack", "email"}
    /\ inbox' = inbox + 1
    /\ UNCHANGED <<clock, kind, row, since, metric, edits, restarts, schedVars>>

\* update_trigger with `enabled`; a definition that is gone gives 404.
Switch(t, state) ==
    /\ edits < MaxEdits /\ edits' = edits + 1
    /\ row[t] \in {"on", "off"} \ {state}
    /\ row' = [row EXCEPT ![t] = state] /\ since' = [since EXCEPT ![t] = clock]
    /\ UNCHANGED <<clock, kind, metric, inbox, restarts, schedVars>>

\* delete_trigger.
Delete(t) ==
    /\ edits < MaxEdits /\ edits' = edits + 1
    /\ row[t] # "none"
    /\ row' = [row EXCEPT ![t] = "none"] /\ since' = [since EXCEPT ![t] = clock]
    /\ UNCHANGED <<clock, kind, metric, inbox, restarts, schedVars>>

-----------------------------------------------------------------------------
(***************************************************************************)
(* The scheduler.                                                          *)
(***************************************************************************)
\* The loop wakes; definitions older than ReloadEvery are read again.
ReloadDue_never == lastReload < 0
ReloadDue == clock - lastReload >= ReloadEvery
Wake ==
    /\ sched = "sleep" /\ clock >= wakeAt
    /\ tickAt' = clock
    /\ IF ReloadDue THEN sched' = "reload" /\ UNCHANGED todo
                    ELSE sched' = "visit" /\ todo' = loaded
    /\ UNCHANGED <<worldVars, wakeAt, loaded, lastReload, dbLost, nextAt, memoryVars,
                   acted>>

Reload ==
    /\ sched = "reload" /\ Binds
    /\ loaded' = SetToSeq({t \in Trigger : row[t] = "on" /\ kind[t] # "webhook"})
    /\ lastReload' = tickAt /\ dbLost' = FALSE
    /\ sched' = "visit" /\ todo' = loaded'
    /\ UNCHANGED <<worldVars, tickAt, wakeAt, nextAt, memoryVars, acted>>

\* The query, or the import behind it, fails: what was loaded stays, and the
\* next tick tries again.
ReloadFails(lost) ==
    /\ sched = "reload" /\ (lost \/ ~Binds)
    /\ dbLost' = lost
    /\ sched' = "visit" /\ todo' = loaded
    /\ UNCHANGED <<worldVars, tickAt, wakeAt, loaded, lastReload, nextAt, memoryVars,
                   acted>>

Current == Head(todo)

\* The visit of a trigger is over, with or without an exception; after the last
\* one the loop sleeps.
NextVisit ==
    /\ todo' = Tail(todo)
    /\ sched' = "visit"

EndTick ==
    /\ sched = "visit" /\ todo = <<>>
    /\ sched' = "sleep" /\ wakeAt' = clock + 1
    /\ UNCHANGED <<worldVars, tickAt, todo, loaded, lastReload, dbLost, nextAt,
                   memoryVars, acted>>

\* _compute_cron_next: the first scheduled time after the tick, or at once if
\* that has passed already.
LatestOf(m, n) == IF m > n THEN m ELSE n
NextCron_same  == LatestOf((tickAt \div CronEvery) * CronEvery, clock)
NextCron       == LatestOf((tickAt \div CronEvery + 1) * CronEvery, clock)

Visiting(t, k) == sched = "visit" /\ todo # <<>> /\ t = Current /\ kind[t] = k

Acts(t, keys) ==
    /\ sched' = "act"
    /\ acted' = acted \o [i \in DOMAIN keys |-> <<t, keys[i]>>]
    /\ UNCHANGED todo

VisitCron(t) ==
    LET next == IF nextAt[t] = Unset THEN NextCron ELSE nextAt[t] IN
    /\ Visiting(t, "cron")
    /\ nextAt' = [nextAt EXCEPT ![t] = next]
    /\ IF tickAt < next THEN NextVisit /\ UNCHANGED acted
                        ELSE Acts(t, <<tickAt \div CronEvery>>)
    /\ UNCHANGED <<worldVars, tickAt, wakeAt, loaded, lastReload, dbLost, memoryVars>>

\* A poll that is not due.
VisitEarly(t) ==
    /\ \E k \in {"threshold", "slack", "email", "calendar"} : Visiting(t, k)
    /\ tickAt < nextAt[t]
    /\ NextVisit
    /\ UNCHANGED <<worldVars, tickAt, wakeAt, loaded, lastReload, dbLost, nextAt,
                   memoryVars, acted>>

\* The next poll is set before anything is asked.
Polls(t, k) ==
    /\ Visiting(t, k) /\ tickAt >= nextAt[t]
    /\ nextAt' = [nextAt EXCEPT ![t] = tickAt + PollEvery]
    /\ UNCHANGED <<worldVars, tickAt, wakeAt, loaded, lastReload, dbLost>>

\* The query or the fetch raises, finds nothing, or finds nothing that is new
\* and passes the filter.
PollFails(t) ==
    /\ \E k \in {"threshold", "slack", "email", "calendar"} : Polls(t, k)
    /\ NextVisit
    /\ UNCHANGED <<memoryVars, acted>>

\* The state is kept before the dispatch.
Rising(t) == metric = "met" /\ ~wasMet[t]
PollThreshold(t) ==
    /\ Polls(t, "threshold") /\ metric # "none"
    /\ wasMet' = [wasMet EXCEPT ![t] = metric = "met"]
    /\ falls' = [falls EXCEPT ![t] = IF metric = "unmet" THEN @ + 1 ELSE @]
    /\ IF Rising(t) THEN Acts(t, <<falls[t]>>) ELSE NextVisit /\ UNCHANGED acted
    /\ UNCHANGED <<cursor, handled, eventFired, lastPrune>>

Newest(S) == {m \in S : Cardinality({n \in S : n > m}) < PageSize}
Ordered(S) == CHOOSE q \in [1..Cardinality(S) -> S] : \A i, j \in DOMAIN q : i < j => q[i] < q[j]

\* Slack: the newest page of what is later than the cursor.  The cursor moves
\* before the messages are ingested.
CursorAfter(S) == Max(S)
PollSlack(t) ==
    LET fetched == Newest(cursor[t] + 1..inbox) \cap Matching IN
    /\ Polls(t, "slack") /\ fetched # {}
    /\ cursor' = [cursor EXCEPT ![t] = CursorAfter(fetched)]
    /\ Acts(t, Ordered(fetched))
    /\ UNCHANGED <<wasMet, falls, handled, eventFired, lastPrune>>

\* Email: the newest page of unread threads, less those handled before.
PollEmail(t) ==
    LET fetched == Newest(1..inbox)
        new     == (fetched \ handled[t]) \cap Matching IN
    /\ Polls(t, "email") /\ new # {}
    /\ handled' = [handled EXCEPT ![t] = @ \cup fetched]
    /\ Acts(t, Ordered(new))
    /\ UNCHANGED <<wasMet, falls, cursor, eventFired, lastPrune>>

Near == LatestOf(EventAt - clock, clock - EventAt) <= Tolerance

\* Calendar: an event near its time fires, once; then the memory of what fired
\* is cleared if an hour has gone by, as it is when the fetch finds no event.
PollCalendar(t, found) ==
    LET fire  == found /\ Near /\ t \notin eventFired
        prune == clock - lastPrune >= PruneEvery IN
    /\ Polls(t, "calendar")
    /\ eventFired' = IF prune THEN {} ELSE IF fire THEN eventFired \cup {t} ELSE eventFired
    /\ lastPrune' = IF prune THEN clock ELSE lastPrune
    /\ IF fire THEN Acts(t, <<lastPrune>>) ELSE NextVisit /\ UNCHANGED acted
    /\ UNCHANGED <<wasMet, falls, cursor, handled>>

\* The action: a job is enqueued, or messages are ingested.  The dispatcher
\* turns an exception into a status; one of an ingester is caught by the tick.
\* Only a dispatch is recorded.
Act ==
    /\ sched = "act"
    /\ IF kind[Current] \in {"slack", "email"}
       THEN NextVisit
       ELSE sched' = "record" /\ UNCHANGED todo
    /\ UNCHANGED <<worldVars, tickAt, wakeAt, loaded, lastReload, dbLost, nextAt,
                   memoryVars, acted>>

\* record_fire, which may fail and is only logged then (a deleted definition has
\* no row to refer to); a cron trigger then gets its next time.  The rows of
\* trigger_fires are left out, and with them the routes that fire by hand or by
\* webhook: they dispatch on their own and touch nothing of the scheduler.
Record ==
    /\ sched = "record"
    /\ nextAt' = IF kind[Current] = "cron" THEN [nextAt EXCEPT ![Current] = NextCron]
                 ELSE nextAt
    /\ NextVisit
    /\ UNCHANGED <<worldVars, tickAt, wakeAt, loaded, lastReload, dbLost, memoryVars,
                   acted>>

\* The kernel stops (stop() waits, then cancels) or dies, and starts again.
Restart ==
    /\ restarts < MaxRestarts /\ restarts' = restarts + 1
    /\ sched' = "sleep" /\ tickAt' = -1 /\ wakeAt' = clock + 1
    /\ todo' = <<>> /\ loaded' = <<>> /\ lastReload' = -ReloadEvery /\ dbLost' = FALSE
    /\ nextAt' = [t \in Trigger |-> Unset]
    /\ wasMet' = Blank.wasMet /\ falls' = Blank.falls /\ cursor' = Blank.cursor
    /\ handled' = Blank.handled /\ eventFired' = {} /\ lastPrune' = clock
    /\ acted' = <<>>
    /\ UNCHANGED <<clock, kind, row, since, metric, inbox, edits>>

TrigNext ==
    \/ Elapse \/ MessageArrives \/ Restart
    \/ \E value \in {"none", "unmet", "met"} \ {metric} : MetricMoves(value)
    \/ \E t \in Trigger :
          \/ Delete(t)
          \/ \E state \in {"on", "off"} : Switch(t, state)
          \/ VisitCron(t) \/ VisitEarly(t) \/ PollFails(t) \/ PollThreshold(t)
          \/ PollSlack(t) \/ PollEmail(t)
          \/ \E found \in BOOLEAN : PollCalendar(t, found)
    \/ Wake \/ Reload \/ EndTick \/ Act \/ Record
    \/ \E lost \in BOOLEAN : ReloadFails(lost)

TrigSpec == TrigInit /\ [][TrigNext]_trigVars

-----------------------------------------------------------------------------
(***************************************************************************)
(* Properties.                                                             *)
(***************************************************************************)
\* Within the life of a process nothing fires twice: a cron trigger once per
\* scheduled time, a threshold once per rise of the metric, a message once, a
\* calendar event once between two prunes -- whatever raises, is slow, is
\* edited or reloaded in between.
NothingFiresTwice == \A i, j \in DOMAIN acted : acted[i] = acted[j] => i = j

\* A trigger that is switched off or deleted stops within a reload interval,
\* unless the database could not be read.
DisabledStopsSoon ==
    sched = "act" =>
        \/ row[Current] = "on" \/ dbLost
        \/ tickAt - since[Current] < ReloadEvery

\* "Cached trigger definitions. Refreshed every `_reload_interval`."
\* (scheduler.py): what has been on for that long is in force.
EnabledIsLoaded ==
    \A t \in Trigger :
        sched = "sleep" /\ kind[t] # "webhook" /\ row[t] = "on" /\ ~dbLost
            /\ tickAt - since[t] >= ReloadEvery
        => \E i \in DOMAIN loaded : loaded[i] = t
=============================================================================
