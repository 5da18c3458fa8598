------------------------------ MODULE AudioMerge ------------------------------
(***************************************************************************)
(* merge_audio_prefix (crates/muxiva-core/src/audio_merge.rs) and the      *)
(* Frame::merge_audio it ends in (crates/muxiva-types/src/frame/mod.rs),   *)
(* applied to every short queue of frames.                                 *)
(*                                                                         *)
(* A frame is [audio, samples, timestamp, sequence, format]; format stands *)
(* for stream, trace, clock, rate, channels, sample format and layout      *)
(* together.  Its payload is not stored: sample j of channel c of frame i  *)
(* is <<i, c, j>>.  A second has TicksPerSecond ticks, so that a duration  *)
(* is rounded down as nanoseconds are.                                     *)
(***************************************************************************)
EXTENDS Integers, Sequences, FiniteSets, SequencesExt

CONSTANTS
    MaxQueue,          \* frames in a queue
    SampleRate, TicksPerSecond,
    MaxSequence,       \* the last SequenceId
    Channels,
    Durations          \* candidate targets and maxima, in ticks

VARIABLES
    queue,      \* the frames before admission
    limits,     \* [target, maximum, layout]
    merged      \* "pending", or the outcome

mergeVars == <<queue, limits, merged>>

\* duration_ns_for_samples: whole seconds, then the rest rounded down.
Duration(samples) ==
    (samples \div SampleRate) * TicksPerSecond
        + ((samples % SampleRate) * TicksPerSecond) \div SampleRate

\* A queue is a run of frames as a source cuts it, in which a frame may be of
\* another kind or format, late, or after a gap.
Flaws == {"none", "text", "format", "late", "gap"}
Total(sizes, n) == FoldLeft(LAMBDA sum, size : sum + size, 0, SubSeq(sizes, 1, n))
FrameAt(sizes, flaws, start, i) ==
    [audio |-> flaws[i] # "text", samples |-> sizes[i],
     timestamp |-> Duration(Total(sizes, i - 1)) + (IF flaws[i] = "late" THEN 1 ELSE 0),
     sequence |-> start + i - 1 + (IF flaws[i] = "gap" THEN 1 ELSE 0),
     format |-> IF flaws[i] = "format" THEN "b" ELSE "a"]

MergeInit ==
    /\ \E n \in 1..MaxQueue, start \in {0, MaxSequence - MaxQueue + 1} :
         \E sizes \in [1..n -> 1..2], flaws \in [1..n -> Flaws] :
            queue = [i \in 1..n |-> FrameAt(sizes, flaws, start, i)]
    /\ \E target, maximum \in Durations, layout \in {"Interleaved", "Planar"} :
         limits = [target |-> target, maximum |-> maximum, layout |-> layout]
    /\ \A i \in DOMAIN queue : queue[i].sequence <= MaxSequence
    /\ merged = [outcome |-> "pending"]
\* Nothing to merge.
MergeIdle ==
    /\ queue = <<>> /\ merged = [outcome |-> "none"]
    /\ limits = [target |-> 0, maximum |-> 0, layout |-> "Planar"]

----------------------------------------------------------------------------
(* merge_audio_prefix                                                      *)


CompatibleWithPrevious(previous, next, expected) ==
    /\ previous.audio /\ next.audio
    /\ previous.sequence < MaxSequence /\ next.sequence = previous.sequence + 1
    /\ next.timestamp = expected
    /\ next.format = previous.format

\* The loop takes frame i.
Takes(scan, i) ==
    LET expected == queue[1].timestamp + Duration(scan.samples) IN
    /\ ~scan.done /\ queue[i].audio
    /\ scan.count > 0 => CompatibleWithPrevious(queue[scan.count], queue[i], expected)
    /\ Duration(scan.samples + queue[i].samples) <= limits.maximum

\* The frames and the samples taken; done once a break was reached.
Scan ==
    FoldLeft(LAMBDA scan, i :
                 IF ~Takes(scan, i) THEN [scan EXCEPT !.done = TRUE]
                 ELSE LET samples == scan.samples + queue[i].samples IN
                      [count |-> scan.count + 1, samples |-> samples,
                       done |-> Duration(samples) >= limits.target],
             [count |-> 0, samples |-> 0, done |-> FALSE],
             [i \in 1..Len(queue) |-> i])

----------------------------------------------------------------------------
(* Frame::merge_audio                                                      *)

PlaneBytes(i, c) == [j \in 1..queue[i].samples |-> <<i, c, j>>]
Interleaved(i) == [k \in 1..(queue[i].samples * Channels) |->
                     <<i, ((k - 1) % Channels) + 1, ((k - 1) \div Channels) + 1>>]

MergeAudioPayload(n) ==
    IF limits.layout = "Interleaved" THEN FlattenSeq([i \in 1..n |-> Interleaved(i)])
    ELSE FlattenSeq([c \in 1..Channels |-> FlattenSeq([i \in 1..n |-> PlaneBytes(i, c)])])

\* The checks of merge_audio on its parents, the first n frames.
Parents(n) ==
    \A i \in 1..n :
        LET before == Total([k \in DOMAIN queue |-> queue[k].samples], i - 1) IN
        /\ queue[i].audio /\ queue[i].format = queue[1].format
        /\ queue[i].timestamp = queue[1].timestamp + Duration(before)
        /\ queue[i].sequence = queue[1].sequence + i - 1
        /\ queue[i].sequence < MaxSequence        \* checked_next, after the last one too

\* The merged frame: its payload, and the media time of every parent.
MergeAudio(n) ==
    LET samples == [k \in DOMAIN queue |-> queue[k].samples] IN
    IF ~Parents(n) THEN [outcome |-> "error"]
    ELSE [outcome |-> "merged", count |-> n, samples |-> Total(samples, n),
          payload |-> MergeAudioPayload(n),
          lineage |-> [i \in 1..n |->
              [from |-> queue[1].timestamp + Duration(Total(samples, i - 1)),
               to |-> queue[1].timestamp + Duration(Total(samples, i))]]]

MergeAudioPrefix ==
    /\ merged.outcome = "pending"
    /\ merged' =
         IF limits.target = 0 \/ limits.maximum = 0 \/ limits.target > limits.maximum
         THEN [outcome |-> "error"]
         ELSE IF ~queue[1].audio \/ Scan.count < 2 \/ Duration(Scan.samples) < limits.target
         THEN [outcome |-> "none"]
         ELSE MergeAudio(Scan.count)
    /\ UNCHANGED <<queue, limits>>

----------------------------------------------------------------------------
(* Properties                                                              *)

Contiguous(n) ==
    /\ \A i \in 1..n : queue[i].audio /\ queue[i].format = queue[1].format
    /\ \A i \in 2..n : /\ queue[i].sequence = queue[1].sequence + i - 1
                       /\ queue[i].timestamp = queue[1].timestamp
                             + Duration(Total([k \in DOMAIN queue |-> queue[k].samples], i - 1))
Reaches(n) == LET d == Duration(Total([k \in DOMAIN queue |-> queue[k].samples], n)) IN
              d >= limits.target /\ d <= limits.maximum
\* The prefixes that may be merged.
Candidates == {n \in 2..Len(queue) : Contiguous(n) /\ Reaches(n)}

\* merge_audio_prefix merges whenever some contiguous prefix reaches the target
\* within the maximum, and takes the shortest one, whose parents merge_audio
\* checks again and accepts: unless the first frame reaches the target alone, or
\* the last parent has the last sequence number.
MergeMatchesReference ==
    merged.outcome # "pending" /\ limits.target \in 1..limits.maximum =>
        LET alone == queue[1].audio /\ Duration(queue[1].samples) >= limits.target
            shortest == CHOOSE n \in Candidates : \A k \in Candidates : n <= k
        IN IF alone \/ Candidates = {} THEN merged.outcome = "none"
           ELSE IF queue[shortest].sequence = MaxSequence THEN merged.outcome = "error"
           ELSE merged.outcome = "merged" /\ merged.count = shortest

\* "Coalescing is not loss" (docs/design/05): each channel of the merged frame
\* is the channels of its parents, one after the other, in either layout; and
\* the media ranges in its lineage tile its time without gap or overlap.
MergeKeepsEverySample ==
    merged.outcome = "merged" =>
        /\ \A c \in 1..Channels :
             LET plane == [j \in 1..merged.samples |->
                             merged.payload[IF limits.layout = "Planar"
                                            THEN (c - 1) * merged.samples + j
                                            ELSE (j - 1) * Channels + c]]
             IN plane = FlattenSeq([i \in 1..merged.count |-> PlaneBytes(i, c)])
        /\ \A i \in 1..(merged.count - 1) : merged.lineage[i].to = queue[i + 1].timestamp

=============================================================================
