-------------------------------- MODULE Rates --------------------------------
(***************************************************************************)
(* RateService: the naira rate the API keeps in memory.  Requests refresh  *)
(* it from the worker's RateFeedLog, or from the providers if the log is   *)
(* old; an admin may override it.  A refresh awaits up to four answers, so *)
(* an override and other refreshes come in between.                        *)
(*                                                                         *)
(* A live rate is called by the instant it was quoted at, an override by   *)
(* its element of AdminRates, the worker's static fallback is Baseline.    *)
(***************************************************************************)
EXTENDS Integers

CONSTANTS
    Fetches,        \* the calls of fetchLiveRate that may overlap
    AdminRates,     \* the rates an admin may set
    Baseline,       \* what the worker logs when no provider answers
    Throttle,       \* REFRESH_MIN_INTERVAL_MS
    FreshFor,       \* how old a row of the feed may be
    Horizon         \* bound of the model: the last instant

VARIABLES
    now,
    feed,           \* the newest RateFeedLog row: its rate and its time
    rate,           \* RateState: currentRateNGN, isManualOverride, isStale
    lastTry,        \* lastRefreshAttemptAt
    fetch,          \* fetch[f]: where the call is, and the row it read
    overtaken       \* (history) calls under way when an override was set

ratesVars == <<now, feed, rate, lastTry, fetch, overtaken>>

Quotes == (0..Horizon) \cup {Baseline}
Rows == [rate : Quotes, at : -FreshFor..Horizon]
Idle == [stage |-> "idle", row |-> [rate |-> Baseline, at |-> -FreshFor]]

RatesTypeOK ==
    /\ now \in 0..Horizon
    /\ feed \in Rows
    /\ rate \in [shown : Quotes \cup AdminRates, override : BOOLEAN, stale : BOOLEAN]
    /\ lastTry \in -Throttle..Horizon
    /\ fetch \in [Fetches -> [stage : {"idle", "feed", "answer", "providers"}, row : Rows]]
    /\ overtaken \subseteq Fetches

RatesInit ==
    /\ now = 0
    /\ feed = Idle.row
    /\ rate = [shown |-> Baseline, override |-> FALSE, stale |-> FALSE]
    /\ lastTry = -Throttle
    /\ fetch = [f \in Fetches |-> Idle]
    /\ overtaken = {}

Tick ==
    /\ now < Horizon
    /\ now' = now + 1
    /\ UNCHANGED <<feed, rate, lastTry, fetch, overtaken>>

\* pollRateEngine of the worker: the market's rate, or the static one.
PollRateEngine ==
    /\ \E q \in {now, Baseline} : feed' = [rate |-> q, at |-> now]
    /\ UNCHANGED <<now, rate, lastTry, fetch, overtaken>>

-----------------------------------------------------------------------------

\* (mutant) a refresh does not look for an override
MayRefresh_Always == now - lastTry >= Throttle

\* Not under an override, and not again within the throttle.
MayRefresh == ~rate.override /\ now - lastTry >= Throttle

EnsureFreshRate(f) ==
    /\ MayRefresh
    /\ fetch[f].stage = "idle"
    /\ fetch' = [fetch EXCEPT ![f].stage = "feed"]
    /\ lastTry' = now
    /\ UNCHANGED <<now, feed, rate, overtaken>>

\* The row is read, and answered some time later; an error goes to the providers.
ReadFeed(f) ==
    /\ fetch[f].stage = "feed"
    /\ \/ fetch' = [fetch EXCEPT ![f] = [stage |-> "answer", row |-> feed]]
       \/ fetch' = [fetch EXCEPT ![f].stage = "providers"]
    /\ UNCHANGED <<now, feed, rate, lastTry, overtaken>>

Ends(f) ==
    /\ fetch' = [fetch EXCEPT ![f] = Idle]
    /\ overtaken' = overtaken \ {f}
    /\ UNCHANGED <<now, feed, lastTry>>

Show(q) == rate' = [rate EXCEPT !.shown = q, !.stale = FALSE]

UseFeed(f) ==
    /\ fetch[f].stage = "answer"
    /\ now - fetch[f].row.at < FreshFor
    /\ Show(fetch[f].row.rate)
    /\ Ends(f)

FeedIsOld(f) ==
    /\ fetch[f].stage = "answer"
    /\ now - fetch[f].row.at >= FreshFor
    /\ fetch' = [fetch EXCEPT ![f].stage = "providers"]
    /\ UNCHANGED <<now, feed, rate, lastTry, overtaken>>

\* The first provider that answers, or none.
UseProvider(f) ==
    /\ fetch[f].stage = "providers"
    /\ Show(now) \/ rate' = [rate EXCEPT !.stale = TRUE]
    /\ Ends(f)

SetRateOverride(r) ==
    /\ rate' = [rate EXCEPT !.shown = r, !.override = TRUE]
    /\ overtaken' = {f \in Fetches : fetch[f].stage # "idle"}
    /\ UNCHANGED <<now, feed, lastTry, fetch>>

RatesNext ==
    \/ Tick \/ PollRateEngine
    \/ \E f \in Fetches : \/ EnsureFreshRate(f) \/ ReadFeed(f) \/ UseFeed(f)
                          \/ FeedIsOld(f) \/ UseProvider(f)
    \/ \E r \in AdminRates : SetRateOverride(r)

RatesSpec == RatesInit /\ [][RatesNext]_ratesVars

-----------------------------------------------------------------------------

\* Once an admin has set the rate, only an admin changes it -- or, once each, the
\* refreshes that were under way when it was set: they check the override before
\* they start and not when their answer comes, and what they leave stays, as no
\* refresh starts any more.
OverrideHolds ==
    [][rate.override /\ rate'.shown # rate.shown
          => \/ rate'.shown \in AdminRates
             \/ \E f \in overtaken : fetch[f].stage # "idle" /\ fetch'[f].stage = "idle"]_ratesVars
=============================================================================
