---------------------------- MODULE MarketStream ----------------------------
(***************************************************************************)
(* The live market ingress of the Paper runtime: StreamingMarketRuntime    *)
(* (runtime/streaming.py), which admits one market event at a time and     *)
(* dispatches it and issued execution facts in root order, and the loop    *)
(* that drives it from the local source (run_local_market_stream and       *)
(* LocalSimulatedMarketSource, product/market_stream.py).                  *)
(*                                                                         *)
(* A market event is the time it was fetched at, which is its event time   *)
(* and its availability.  A fact is its ingress sequence and its           *)
(* availability.  Callbacks are the caller's code: they may issue facts,   *)
(* request a stop, take time, return or raise.  A stop signal may arrive   *)
(* between any two steps, and the wall clock may step back.                *)
(***************************************************************************)
EXTENDS Integers, FiniteSets

CONSTANTS
    StreamMaxMarkets,  \* event_limit of the source
    MaxFacts,          \* bound: facts the callbacks issue
    MaxPending,        \* max_pending_facts
    StreamMaxAge,      \* max_market_age_seconds
    StallTimeout,      \* stall_timeout_seconds
    MaxDrainPolls,     \* max_drain_polls
    StreamMaxTime,     \* bound on the clocks
    MaxBack            \* bound: steps back of the wall clock

ASSUME MarketStreamAssumption ==
    /\ {StreamMaxMarkets, MaxFacts, StreamMaxTime, MaxBack} \subseteq Nat
    /\ {MaxPending, StreamMaxAge, StallTimeout, MaxDrainPolls} \subseteq Nat \ {0}

VARIABLES
    streamNow, mono, back,  \* the clocks, and the steps back so far
    stopping,               \* the stop flag of the signal handler
    rt,                     \* the runtime
    source,                 \* the local source: events issued, time of the last
    streamPc, from, polls,  \* the loop: its step, the caller of poll, drain_polls
    event,                  \* what next_event returned
    active,                 \* the root being dispatched
    applied,                \* callback invocations of each fact
    failed,                 \* some callback raised
    early                   \* the stop flag when the pending market was admitted

clocks == <<streamNow, mono, back, stopping>>
ghosts == <<applied, failed, early>>
streamVars == <<clocks, rt, source, streamPc, from, polls, event, active, ghosts>>

None == 0 - 1
NoRoot == [kind |-> "none"]

(* runtime_root_order_key: availability, then facts by sequence, then the market. *)
FactKey(f) == f.at * (MaxFacts + 1) + f.id - 1
MarketKey(t) == t * (MaxFacts + 1) + MaxFacts

StreamFresh ==
    [phase |-> "running", reason |-> "none", market |-> None, facts |-> {},
     lastKey |-> None, failedKind |-> "none",
     utc |-> 0, sampled |-> 0, marketMono |-> 0]

StreamInit ==
    /\ streamNow = 0 /\ mono = 0 /\ back = 0 /\ stopping = FALSE
    /\ rt = StreamFresh
    /\ source = [issued |-> 0, last |-> None, closed |-> FALSE]
    /\ streamPc = "top" /\ from = "loop" /\ polls = 0
    /\ event = None /\ active = NoRoot
    /\ applied = [i \in 1 .. MaxFacts |-> 0] /\ failed = FALSE /\ early = FALSE

-----------------------------------------------------------------------------
(* The environment.                                                        *)

Running == streamPc \notin {"done", "raised"}

Signal ==
    /\ Running
    /\ ~stopping
    /\ stopping' = TRUE
    /\ UNCHANGED <<streamNow, mono, back, rt, source, streamPc, from, polls, event, active, ghosts>>

Tick ==
    /\ Running
    /\ streamNow < StreamMaxTime /\ mono < StreamMaxTime
    /\ streamNow' = streamNow + 1 /\ mono' = mono + 1
    /\ UNCHANGED <<back, stopping, rt, source, streamPc, from, polls, event, active, ghosts>>

StepBack ==
    /\ Running
    /\ back < MaxBack
    /\ \E t \in 0 .. streamNow - 1 : streamNow' = t
    /\ back' = back + 1
    /\ UNCHANGED <<mono, stopping, rt, source, streamPc, from, polls, event, active, ghosts>>

-----------------------------------------------------------------------------
(* StreamingMarketRuntime: the next runtime state of each call.            *)

(* _sample: the injected clocks may not regress. *)
Regressed(r) == streamNow < r.utc \/ mono < r.sampled

(* _drain: the first reason to stop stays. *)
Drained(r, why) ==
    IF r.phase = "running"
    THEN [r EXCEPT !.phase = "draining", !.reason = why, !.market = None]
    ELSE r

(* heartbeat, after a clean sample; a stalled source stops the stream. *)
Beaten(r) ==
    LET s == [r EXCEPT !.utc = streamNow, !.sampled = mono]
    IN  CASE r.phase = "closed" -> r
          [] r.phase # "closed" /\ mono - r.marketMono > StallTimeout ->
                 Drained(s, "source_stalled")
          [] OTHER -> s

(* fail_source, fail_heartbeat_callback and the exception path of poll. *)
StreamFailed(r, why, kind) ==
    IF r.phase = "closed" THEN r
    ELSE [r EXCEPT !.phase = "draining", !.reason = why, !.market = None,
                   !.failedKind = IF kind = "source" THEN @ ELSE kind]

(* enqueue_fact, from a callback. *)
Enqueue(at) ==
    \E i \in 1 .. MaxFacts :
        /\ applied[i] = 0
        /\ \A f \in rt.facts : f.id < i
        /\ \A j \in 1 .. i - 1 : applied[j] > 0 \/ \E f \in rt.facts : f.id = j
        /\ rt.phase # "closed"
        /\ Cardinality(rt.facts) < MaxPending
        /\ rt' = [rt EXCEPT !.facts = @ \cup {[id |-> i, at |-> at]}]

-----------------------------------------------------------------------------
(* The loop.                                                               *)

(* An exception: into the handler, or out of it. *)
Handler == IF from = "handler" THEN "raised" ELSE "except"
Throw == streamPc' = Handler

(* while phase is RUNNING, unless a stop was requested. *)
Top ==
    /\ streamPc = "top"
    /\ IF rt.phase = "running" /\ ~stopping
       THEN streamPc' = "beat" /\ UNCHANGED <<rt, from>>
       ELSE /\ streamPc' = "drain" /\ from' = "drain"
            /\ rt' = Drained(rt, "stop_requested")
    /\ UNCHANGED <<clocks, source, polls, event, active, ghosts>>

(* heartbeat and on_heartbeat, which may request a stop or raise. *)
Beat(how) ==
    /\ streamPc = "beat"
    /\ IF Regressed(rt) THEN how = "raise" /\ rt' = rt /\ Throw /\ UNCHANGED failed
       ELSE LET s == Beaten(rt)
            IN  /\ rt' = CASE how = "ok"    -> s
                           [] how = "stop"  -> Drained(s, "stop_requested")
                           [] how = "raise" -> StreamFailed(s, "callback_error", "heartbeat")
                /\ failed' = (failed \/ how = "raise")
                /\ IF how = "raise" THEN Throw
                   ELSE streamPc' = IF rt'.phase = "running" THEN "fetch" ELSE "top"
    /\ UNCHANGED <<clocks, source, from, polls, event, active, applied, early>>

(* LocalSimulatedMarketSource.next_event: nothing after the limit, and the *)
(* clock must have advanced since the last event.                          *)
StreamFetch ==
    /\ streamPc = "fetch"
    /\ \/ /\ source.issued = StreamMaxMarkets
          /\ event' = None /\ streamPc' = "fetched" /\ UNCHANGED <<source, rt>>
       \/ /\ source.issued < StreamMaxMarkets
          /\ streamNow > source.last
          /\ event' = streamNow /\ streamPc' = "fetched"
          /\ source' = [source EXCEPT !.issued = @ + 1, !.last = streamNow]
          /\ UNCHANGED rt
       \/ /\ source.issued < StreamMaxMarkets
          /\ streamNow <= source.last
          /\ rt' = StreamFailed(rt, "source_error", "source") /\ Throw
          /\ UNCHANGED <<source, event>>
    /\ UNCHANGED <<clocks, from, polls, active, ghosts>>

(* A stop that came during the fetch discards what it returned. *)
Fetched ==
    /\ streamPc = "fetched"
    /\ CASE stopping -> rt' = Drained(rt, "stop_requested") /\ streamPc' = "top"
         [] ~stopping /\ event = None ->
                rt' = Drained(rt, "source_exhausted") /\ streamPc' = "top"
         [] OTHER -> streamPc' = "receive" /\ UNCHANGED rt
    /\ UNCHANGED <<clocks, source, from, polls, event, active, ghosts>>

(* receive_market: one pending event, after everything dispatched. *)
Receive ==
    /\ streamPc = "receive"
    /\ LET admitted == rt.phase = "running" /\ rt.market = None /\ MarketKey(event) > rt.lastKey
       IN  /\ rt' = IF admitted THEN [rt EXCEPT !.market = event] ELSE rt
           /\ streamPc' = IF admitted THEN "check" ELSE Handler
    /\ early' = stopping
    /\ UNCHANGED <<clocks, source, from, polls, event, active, applied, failed>>

(* The stop flag is read before every poll of the inner loop. *)
Check ==
    /\ streamPc = "check"
    /\ rt' = IF stopping THEN Drained(rt, "stop_requested") ELSE rt
    /\ streamPc' = "poll"
    /\ UNCHANGED <<clocks, source, from, polls, event, active, ghosts>>

-----------------------------------------------------------------------------
(* poll.                                                                   *)

(* The heartbeat of the poll, and the staleness of a visible market. *)
Sampled(r) ==
    LET s == Beaten(r)
    IN  IF s.market # None /\ s.market <= s.utc /\ s.utc - s.market > StreamMaxAge
        THEN Drained(s, "stale_market") ELSE s

Eligible(r) ==
    {[kind |-> "fact", fact |-> f, key |-> FactKey(f)] : f \in {g \in r.facts : g.at <= r.utc}}
    \cup {[kind |-> "market", at |-> t, key |-> MarketKey(t)] :
             t \in {u \in {r.market} : u # None /\ u <= r.utc}}

(* Nothing eligible: the loop sleeps, or looks at its phase again. *)
PollNothing ==
    /\ streamPc = "poll"
    /\ ~Regressed(rt)
    /\ Eligible(Sampled(rt)) = {}
    /\ rt' = Sampled(rt)
    /\ streamPc' = IF from # "loop" THEN "drain" ELSE "top"
    /\ LET tick == IF (from = "loop" => rt'.phase = "running") /\ streamNow < StreamMaxTime /\ mono < StreamMaxTime
                   THEN 1 ELSE 0
       IN  streamNow' = streamNow + tick /\ mono' = mono + tick
    /\ UNCHANGED <<back, stopping, source, from, polls, event, active, ghosts>>

PollRegressed ==
    /\ streamPc = "poll"
    /\ Regressed(rt)
    /\ Throw
    /\ UNCHANGED <<clocks, rt, source, from, polls, event, active, ghosts>>

(* The least eligible root is dispatched; a market root never behind what  *)
(* was dispatched before it.                                               *)
PollDispatch ==
    /\ streamPc = "poll"
    /\ ~Regressed(rt)
    /\ LET s == Sampled(rt)
       IN  \E root \in Eligible(s) :
             /\ \A other \in Eligible(s) : root.key <= other.key
             /\ LET late == root.kind = "market" /\ root.key <= s.lastKey
                IN  /\ rt' = IF late THEN Drained(s, "callback_error")
                             ELSE [s EXCEPT !.lastKey = root.key]
                    /\ streamPc' = IF late THEN Handler ELSE "active"
                    /\ active' = IF late THEN NoRoot ELSE root
             /\ applied' = IF root.kind = "fact"
                           THEN [applied EXCEPT ![root.fact.id] = @ + 1] ELSE applied
    /\ UNCHANGED <<clocks, source, from, polls, event, failed, early>>

(* Inside the callback: a fact is issued, a stop requested. *)
Issue(at) ==
    /\ streamPc = "active"
    /\ Enqueue(at)
    /\ UNCHANGED <<clocks, source, streamPc, from, polls, event, active, ghosts>>

CallbackStops ==
    /\ streamPc = "active"
    /\ rt' = Drained(rt, "stop_requested")
    /\ UNCHANGED <<clocks, source, streamPc, from, polls, event, active, ghosts>>

StreamReturn ==
    /\ streamPc = "active"
    /\ rt' = IF active.kind = "market"
             THEN [rt EXCEPT !.market = None, !.marketMono = rt.sampled]
             ELSE [rt EXCEPT !.facts = @ \ {active.fact}]
    /\ active' = NoRoot
    /\ streamPc' = IF from = "loop" THEN "check" ELSE "drain"
    /\ UNCHANGED <<clocks, source, from, polls, event, ghosts>>

StreamRaise ==
    /\ streamPc = "active"
    /\ rt' = StreamFailed(rt, "callback_error", active.kind)
    /\ active' = NoRoot
    /\ failed' = TRUE
    /\ Throw
    /\ UNCHANGED <<clocks, source, from, polls, event, applied, early>>

-----------------------------------------------------------------------------
(* drain_facts, close and the exception handler.                           *)

Finish == source' = [source EXCEPT !.closed = TRUE]

DrainPoll ==
    /\ streamPc = "drain"
    /\ rt.facts # {}
    /\ IF polls < MaxDrainPolls
       THEN streamPc' = "poll" /\ polls' = polls + 1
       ELSE Throw /\ UNCHANGED polls
    /\ UNCHANGED <<clocks, rt, source, from, event, active, ghosts>>

(* close: the facts are gone, so the runtime closes and the loop returns,  *)
(* or raises again what brought it into the handler.                       *)
StreamClose ==
    /\ streamPc = "drain"
    /\ rt.facts = {}
    /\ rt' = [Drained(rt, "stop_requested") EXCEPT !.phase = "closed"]
    /\ streamPc' = IF from = "handler" THEN "raised" ELSE "done"
    /\ Finish
    /\ UNCHANGED <<clocks, from, polls, event, active, ghosts>>

\* Mutant of Except: the facts are drained whatever failed.
ExceptDrains ==
    /\ streamPc = "except"
    /\ rt' = IF rt.phase = "running" THEN StreamFailed(rt, "source_error", "source") ELSE rt
    /\ streamPc' = "drain" /\ from' = "handler"
    /\ UNCHANGED <<clocks, source, polls, event, active, ghosts>>

(* except BaseException: a failed fact is not drained. *)
Except ==
    /\ streamPc = "except"
    /\ rt' = IF rt.phase = "running" THEN StreamFailed(rt, "source_error", "source") ELSE rt
    /\ IF rt.failedKind # "fact"
       THEN streamPc' = "drain" /\ from' = "handler" /\ UNCHANGED source
       ELSE streamPc' = "raised" /\ Finish /\ UNCHANGED from
    /\ UNCHANGED <<clocks, polls, event, active, ghosts>>

(* finally: the source is released when the handler itself raises. *)
Release ==
    /\ streamPc = "raised"
    /\ ~source.closed
    /\ Finish
    /\ UNCHANGED <<clocks, rt, streamPc, from, polls, event, active, ghosts>>

-----------------------------------------------------------------------------
Loop ==
    \/ Top
    \/ \E how \in {"ok", "stop", "raise"} : Beat(how)
    \/ StreamFetch \/ Fetched \/ Receive \/ Check
    \/ PollNothing \/ PollRegressed \/ PollDispatch
    \/ StreamReturn \/ StreamRaise
    \/ DrainPoll \/ StreamClose \/ Except \/ Release

Callback ==
    \/ \E at \in streamNow .. streamNow + 1 : Issue(at)
    \/ CallbackStops

StreamEnded == ~Running /\ source.closed /\ UNCHANGED streamVars

StreamNext == Loop \/ Callback \/ Signal \/ Tick \/ StepBack \/ StreamEnded

StreamSpec == StreamInit /\ [][StreamNext]_streamVars


-----------------------------------------------------------------------------
(* The runtime and its loop keep the shapes the code gives them; a market  *)
(* is pending only while the stream runs.                                  *)
StreamTypeOK ==
    /\ streamNow \in 0 .. StreamMaxTime /\ mono \in 0 .. StreamMaxTime
    /\ rt.phase \in {"running", "draining", "closed"}
    /\ rt.phase = "running" <=> rt.reason = "none"
    /\ rt.market # None => rt.phase = "running"
    /\ Cardinality(rt.facts) <= MaxPending
    /\ streamPc \in {"top", "beat", "fetch", "fetched", "receive", "check", "poll", "active",
                     "drain", "except", "done", "raised"}
    /\ (active # NoRoot) <=> streamPc = "active"
    /\ polls \in 0 .. MaxDrainPolls

(* No fact's callback is invoked twice, whatever is retried, drained or    *)
(* handled after a failure (drain_facts in the exception handler,          *)
(* run_local_market_stream).                                               *)
FactOnce == \A i \in 1 .. MaxFacts : applied[i] <= 1

(* A closed stream has handed every issued fact to its callback, and one   *)
(* whose reason is a requested stop had no callback raise: evidence may    *)
(* read that reason as a clean end.                                        *)
ClosedIsSettled ==
    rt.phase = "closed" =>
        /\ rt.facts = {}
        /\ rt.reason \in {"stop_requested", "source_exhausted"} => ~failed

(* A stop signal that arrived before a market event was admitted keeps the *)
(* event from its callback, wherever in the loop the signal fell.          *)
StopDiscards == active.kind = "market" => ~early

\* The market stream: a fact is applied once, a closed stream is settled, and
\* a stop discards what was not dispatched.
StreamSafe ==
    /\ StreamTypeOK /\ FactOnce /\ ClosedIsSettled /\ StopDiscards
=============================================================================
