----------------------------- MODULE AudioResample -----------------------------
(***************************************************************************)
(* builtin.audio_resampler (crates/muxiva-graph-json/src/builtins.rs):     *)
(* every audio frame is interpolated to the target rate on its own.  Rates *)
(* are in units of 8 kHz; samples are of one channel, which is what the    *)
(* code does to each channel.                                              *)
(***************************************************************************)
EXTENDS Integers, Sequences

CONSTANTS
    Rates,        \* sample rates in range
    Levels,       \* sample values
    MaxSamples    \* bound: samples of a frame

VARIABLES
    resampler,    \* [input, target]: input 0 when the configuration gives none
    source,       \* the frame: [rate, samples]
    output        \* [ok, samples], ok "none" before the frame

resampleVars == <<resampler, source, output>>

\* parse_resampler_config: an input format, or the target alone.
ResampleInit(configured) ==
    /\ resampler \in [input : Rates \cup {0}, target : Rates]
    /\ source \in [rate : Rates, samples : UNION {[1..n -> Levels] : n \in 1..MaxSamples}]
    /\ output = [ok |-> "none", samples |-> <<>>]
    /\ ~configured => resampler = [input |-> 0, target |-> 1] /\ source = [rate |-> 1, samples |-> <<0>>]

TargetSamples(n, from, to) == (n * to + from \div 2) \div from

\* f64::round of v / d: halves go away from zero.
Rounded(v, d) == IF v >= 0 THEN (2 * v + d) \div (2 * d) ELSE -((2 * (-v) + d) \div (2 * d))

\* Sample k of the output, from 0: between the two input samples around it.
Interpolated(frame, to, k) ==
    LET n == Len(frame.samples)
        numerator == k * frame.rate
        left == IF numerator \div to < n - 1 THEN numerator \div to ELSE n - 1
        right == IF left + 1 < n - 1 THEN left + 1 ELSE n - 1
        fraction == numerator % to
    IN Rounded(frame.samples[left + 1] * (to - fraction) + frame.samples[right + 1] * fraction, to)

resample_pcm16(frame, to) ==
    [k \in 1..TargetSamples(Len(frame.samples), frame.rate, to) |-> Interpolated(frame, to, k - 1)]

\* on_process: a frame of another rate than the configured one, and one that
\* would come out empty, fail the Node.
Resample ==
    /\ output.ok = "none"
    /\ LET fits == resampler.input \in {0, source.rate}
           result == IF source.rate = resampler.target THEN source.samples
                     ELSE resample_pcm16(source, resampler.target)
       IN output' = IF fits /\ result # <<>> THEN [ok |-> "emitted", samples |-> result]
                    ELSE [ok |-> "failed", samples |-> <<>>]
    /\ UNCHANGED <<resampler, source>>

----------------------------------------------------------------------------
(* Properties                                                              *)

Distance(a, b) == IF a > b THEN a - b ELSE b - a

\* A frame keeps its duration to within half an output sample, so a stream of
\* frames is neither cut short nor stretched frame by frame; what is between two
\* samples of the input stays between them; and the first sample is untouched.
ResampledFrameIsFaithful ==
    output.ok = "emitted" =>
        LET n == Len(source.samples)  m == Len(output.samples) IN
        /\ 2 * Distance(m * source.rate, n * resampler.target) <= source.rate
        /\ output.samples[1] = source.samples[1]
        /\ \A k \in 1..m :
              LET at == ((k - 1) * source.rate) \div resampler.target
                  left == source.samples[IF at < n THEN at + 1 ELSE n]
                  right == source.samples[IF at + 1 < n THEN at + 2 ELSE n]
                  v == output.samples[k]
              IN (left <= v /\ v <= right) \/ (right <= v /\ v <= left)
=============================================================================
