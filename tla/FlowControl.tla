----------------------------- MODULE FlowControl -----------------------------
(***************************************************************************)
(* AdaptiveFlowController (crates/muxiva-core/src/flow.rs) of one input    *)
(* port, for every RealtimeInputProfile that validate (realtime.rs)        *)
(* accepts.                                                                *)
(*                                                                         *)
(* The queue is counted exactly, in frames, bytes and media time.  predict *)
(* computes in floating point: what evaluate tells apart in it (how near   *)
(* latency and saturation are) is chosen freely.                           *)
(***************************************************************************)
EXTENDS Integers, Sequences, FiniteSets

CONSTANTS
    MaxFrames, MaxBytes, MaxMedia,   \* tuning: the three limits of the queue
    MaxInFlight,                     \* tuning.max_in_flight
    Measurements,                    \* FrameMeasurements: <<1, bytes, media>>
    SIGNAL_HISTORY_LIMIT,
    MaxInput                         \* bound: frames enqueued

RESUME_SAMPLES == 3

VARIABLES
    profile,    \* RealtimeInputProfile: the contract and the overflow policy
    flow,       \* AdaptiveFlowController
    works,      \* the FlowWork tokens that exist, one of another port included
    account     \* history: [input, completed, refused, healthySince]

flowVars == <<profile, flow, works, account>>

----------------------------------------------------------------------------
(* RealtimeInputProfile                                                    *)

DropPolicies == {"DropOldest", "DropNewest", "DropSilenceFirst"}
AudioOverflowPolicy == DropPolicies \cup {"PropagateBackpressure", "AbortSession"}

\* Durations in units of the latency budget; 0 is a zero or an absent one.
Profiles ==
    [delivery : {"Lossless", "BestEffort"}, ordering : {"Strict", "Relaxed"},
     pausable : BOOLEAN, audio : BOOLEAN, vad : BOOLEAN, policy : AudioOverflowPolicy,
     budget : {0, 1}, deadline : {1, 2}, range : {0, 2}, merge : {0, 2, 4}]

\* The tests of validate as one condition.
Valid(p) ==
    /\ p.budget > 0
    /\ p.audio <=> p.range > 0
    /\ MaxFrames > 0 /\ MaxBytes > 0 /\ MaxInFlight \in 1..MaxFrames /\ MaxMedia > 0
    /\ p.audio <=> p.merge > 0
    /\ p.audio => p.merge <= p.range /\ p.merge <= MaxMedia
    /\ p.deadline > 0 /\ p.deadline <= p.budget
    /\ p.policy \in DropPolicies => p.delivery # "Lossless" /\ p.ordering # "Strict"
    /\ p.policy = "DropSilenceFirst" => p.delivery = "BestEffort" /\ p.audio /\ p.vad
    /\ p.policy = "PropagateBackpressure" => p.pausable

\* The conservative default: non-audio, lossless, pausable.
DefaultProfile ==
    [delivery |-> "Lossless", ordering |-> "Strict", pausable |-> TRUE, audio |-> FALSE,
     vad |-> FALSE, policy |-> "PropagateBackpressure", budget |-> 1, deadline |-> 1,
     range |-> 0, merge |-> 0]

\* decide_overflow: what a full queue does, given the trusted VAD's decision.
DecideOverflow(p, vad) ==
    IF p.policy # "DropSilenceFirst" THEN p.policy
    ELSE IF vad = "Silence" THEN "DropTrustedSilence"
    ELSE IF p.pausable THEN "PropagateBackpressure" ELSE "AbortSession"

----------------------------------------------------------------------------
(* The controller                                                          *)

Zero == <<0, 0, 0>>
Limits == <<MaxFrames, MaxBytes, MaxMedia>>
Plus(a, b) == [d \in 1..3 |-> a[d] + b[d]]
Minus(a, b) == [d \in 1..3 |-> a[d] - b[d]]
Covers(a, b) == \A d \in 1..3 : a[d] >= b[d]

\* AdaptiveFlowController::new refuses an invalid profile.  Another port has
\* admitted a frame with the id this port gives out first.
FlowInit(candidates) ==
    /\ profile \in {p \in candidates : Valid(p)}
    /\ flow = [state |-> "Normal", queued |-> Zero, inFlight |-> Zero, dropped |-> Zero,
               next |-> 0, active |-> {}, healthy |-> 0, signals |-> <<>>]
    /\ works = {[port |-> "other", id |-> 0, of |-> CHOOSE m \in Measurements : TRUE]}
    /\ account = [input |-> Zero, completed |-> Zero, refused |-> 0,
                  healthySince |-> 0]

\* Some limit is at least n quarters full.
Quarters(f, n) == \E d \in 1..3 : 4 * f.queued[d] >= n * Limits[d]

\* The worst of predicted latency and time to saturation.
Predictions == {"healthy", "calm", "pressure", "critical"}

Desired(f, predicted) ==
    IF Quarters(f, 4) \/ predicted = "critical" THEN "Critical"
    ELSE IF Quarters(f, 3) \/ predicted = "pressure" THEN "Pressure" ELSE "Normal"

Healthy(f, predicted) == ~Quarters(f, 2) /\ predicted = "healthy"

Transition(f, predicted) ==
    LET desired == Desired(f, predicted) IN
    CASE f.state = "Normal" -> [f EXCEPT !.state = desired]
      [] f.state = "Pressure" /\ desired = "Critical" -> [f EXCEPT !.state = "Critical"]
      [] f.state # "Normal" /\ desired = "Normal" /\ Healthy(f, predicted) ->
            IF f.healthy + 1 >= RESUME_SAMPLES
            THEN [f EXCEPT !.state = "Normal", !.healthy = 0]
            ELSE [f EXCEPT !.healthy = @ + 1]
      [] OTHER -> [f EXCEPT !.healthy = 0]

\* emit_resume, emit_pressure.
Signal(f, g) ==
    CASE f.state # "Normal" /\ g.state = "Normal" -> <<"Resume">>
      [] f.state = "Normal" /\ g.state # "Normal" -> <<"Pressure">>
      [] OTHER -> <<>>

\* record_signal: the oldest observation makes room for the newest.
Recorded(signals, new) ==
    LET all == signals \o (IF profile.pausable THEN new ELSE <<>>) IN
    SubSeq(all, 1 + IF Len(all) > SIGNAL_HISTORY_LIMIT THEN 1 ELSE 0, Len(all))

\* FlowUpdate.actions, next to the signals.
Actions(g) ==
    CASE g.state = "Normal" -> {<<"KeepNormalBatch">>, <<"ResumeAdmissions">>}
      [] g.state = "Pressure" ->
            {<<"LimitAdmissions", IF MaxInFlight \div 2 > 1 THEN MaxInFlight \div 2 ELSE 1>>}
            \cup (IF profile.merge > 0 THEN {<<"SetBatchTarget", profile.merge>>} ELSE {})
      [] OTHER -> {<<"LimitAdmissions", 0>>,
                   IF profile.policy = "AbortSession" THEN <<"AbortSession">>
                   ELSE <<"ApplyOverflow", profile.policy>>}

\* Every operation that succeeds ends here: f is the controller it counted in.
Evaluate(f, counted) ==
    \E predicted \in Predictions :
        LET g == Transition(f, predicted)
            healthy == Healthy(f, predicted)
            since == IF f.state = "Normal" THEN 0
                     ELSE IF healthy THEN account.healthySince + 1 ELSE account.healthySince
        IN /\ flow' = [g EXCEPT !.signals = Recorded(@, Signal(f, g))]
           /\ account' = [counted EXCEPT
                 !.healthySince = IF since > RESUME_SAMPLES THEN RESUME_SAMPLES ELSE since]

RecordEnqueue(m) ==
    /\ account.input[1] < MaxInput
    /\ Evaluate([flow EXCEPT !.queued = Plus(@, m)], [account EXCEPT !.input = Plus(@, m)])
    /\ UNCHANGED <<profile, works>>

RecordAdmission(m) ==
    /\ Covers(flow.queued, m)
    /\ works' = works \cup {[port |-> "this", id |-> flow.next, of |-> m]}
    /\ Evaluate([flow EXCEPT !.queued = Minus(@, m), !.inFlight = Plus(@, m),
                             !.next = @ + 1, !.active = @ \cup {flow.next}], account)
    /\ UNCHANGED profile


\* A work is consumed whatever the answer is.  When the clock moved backwards
\* the admission is forgotten and its counters stay.
RecordCompletion(w) ==
    /\ works' = works \ {w}
    /\ UNCHANGED profile
    /\ \/ /\ w.port # "this" \/ w.id \notin flow.active
          /\ UNCHANGED <<flow, account>>
       \/ /\ w.port = "this" /\ w.id \in flow.active
          /\ \/ Evaluate([flow EXCEPT !.inFlight = Minus(@, w.of), !.active = @ \ {w.id}],
                         [account EXCEPT !.completed = Plus(@, w.of)])
             \/ /\ flow' = [flow EXCEPT !.active = @ \ {w.id}]
                /\ account' = [account EXCEPT !.refused = @ + 1]

RecordDrop(m) ==
    /\ profile.delivery # "Lossless" /\ Covers(flow.queued, m)
    /\ Evaluate([flow EXCEPT !.queued = Minus(@, m), !.dropped = Plus(@, m)], account)
    /\ UNCHANGED <<profile, works>>

Sample == Evaluate(flow, account) /\ UNCHANGED <<profile, works>>

FlowNext ==
    \/ \E m \in Measurements : RecordEnqueue(m) \/ RecordAdmission(m) \/ RecordDrop(m)
    \/ \E w \in works : RecordCompletion(w)
    \/ Sample

----------------------------------------------------------------------------
(* Properties                                                              *)

\* The controller's counters stay natural numbers and its history bounded.
FlowTypeOK ==
    /\ flow.state \in {"Normal", "Pressure", "Critical"}
    /\ \A v \in {flow.queued, flow.inFlight, flow.dropped} : Covers(v, Zero)
    /\ flow.healthy \in 0..(RESUME_SAMPLES - 1) /\ flow.active \subseteq 0..(flow.next - 1)
    /\ Len(flow.signals) <= SIGNAL_HISTORY_LIMIT

\* Every frame, byte and unit of media that came in is queued, in flight,
\* completed or dropped; the snapshot's counters never invent or lose one.
FlowConserved ==
    account.input =
        Plus(Plus(flow.queued, flow.inFlight), Plus(account.completed, flow.dropped))

\* A frame in flight has its admission, except where record_completion refused
\* a clock that moved backwards: a work of another port, or a second one of
\* the same admission, completes nothing.
AdmissionsAccounted == flow.inFlight[1] = Cardinality(flow.active) + account.refused

\* A pausable upstream sees Pressure and Resume in turns, and the last of them
\* says whether it is to pause.
SignalsAlternate ==
    /\ \A i \in 1..(Len(flow.signals) - 1) : flow.signals[i] # flow.signals[i + 1]
    /\ flow.signals # <<>> =>
          (flow.signals[Len(flow.signals)] = "Pressure" <=> flow.state # "Normal")

\* Nothing the controller answers is outside the contract the profile was
\* validated for: an ordered or lossless port never loses a frame, silence is
\* dropped only where it may be, only a pausable upstream is pushed back; and
\* pressure narrows the admissions without closing them.
OverflowIsDeclared ==
    /\ \A vad \in {"None", "Silence", "Speech"} :
          LET d == DecideOverflow(profile, vad) IN
          /\ d \in {"DropOldest", "DropNewest", "DropTrustedSilence"} =>
                profile.delivery = "BestEffort" /\ profile.ordering = "Relaxed"
          /\ d = "DropTrustedSilence" => profile.vad /\ vad = "Silence"
          /\ d = "PropagateBackpressure" => profile.pausable
    /\ <<"LimitAdmissions", 0>> \in Actions(flow) <=> flow.state = "Critical"

\* An overloaded port does not flap: it is Normal again only after three
\* healthy evaluations since it left Normal.
ResumeIsEarned ==
    [][flow.state # "Normal" /\ flow'.state = "Normal"
          => account'.healthySince = RESUME_SAMPLES]_flowVars

=============================================================================
