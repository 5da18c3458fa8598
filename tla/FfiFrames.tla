------------------------------- MODULE FfiFrames -------------------------------
(***************************************************************************)
(* Conversion of frames at the C ABI (crates/muxiva-ffi/src/frame.rs and   *)
(* abi.rs): a FrameView copied with copy_frame and into_rust, a FrameView  *)
(* adopted with its payload by adopt_owned_frame, and the borrowed view a  *)
(* node is given of a runtime Frame.  The constructors of muxiva-types     *)
(* (frame/audio.rs, frame/video.rs) check the shapes a second time.        *)
(* Integer types are scaled down; the payload bytes are only counted.      *)
(***************************************************************************)
EXTENDS Integers, Sequences, FiniteSets

CONSTANTS
    U32_MAX,        \* u32::MAX, scaled
    USIZE_MAX,      \* u64::MAX and usize::MAX, scaled
    MAX_COPY_BYTES, \* abi.rs; below U32_MAX as in the code
    MAX_RATE,       \* 768000 in the code
    MAX_CHANNELS,   \* 1024 in the code
    NANOS,          \* nanoseconds per second, scaled
    Dimensions,     \* widths and heights to try
    Counts          \* samples per channel to try

ASSUME FramesAssumption ==
    /\ MAX_COPY_BYTES < U32_MAX /\ U32_MAX < USIZE_MAX
    /\ Dimensions \subseteq 0..U32_MAX /\ Counts \subseteq 0..USIZE_MAX

VARIABLES
    crossing,  \* [dir, value]: a view entering the runtime or a Frame leaving it
    outcome    \* what the conversions made of it

frameVars == <<crossing, outcome>>

Err == [kind |-> "error"]
\* checked_mul, checked_add: overflow is -1, which stays -1.
CheckedMul(a, b, max) == IF a < 0 \/ b < 0 \/ a * b > max THEN -1 ELSE a * b
CheckedAdd(a, b, max) == IF a < 0 \/ b < 0 \/ a + b > max THEN -1 ELSE a + b

-----------------------------------------------------------------------------
(* The constructors of muxiva-types. *)

BytesPerSample == <<1, 2, 3, 4, 4, 8>>

DurationNs(samples, rate) ==
    CheckedAdd(CheckedMul(samples \div rate, NANOS, USIZE_MAX),
               CheckedMul(samples % rate, NANOS, USIZE_MAX) \div rate, USIZE_MAX)

AudioBytes(v) ==
    CheckedMul(CheckedMul(v.samples, v.channels, USIZE_MAX), BytesPerSample[v.format], USIZE_MAX)

AudioData(v) ==
    IF /\ v.rate \in 1..MAX_RATE /\ v.channels \in 1..MAX_CHANNELS /\ v.samples # 0
       /\ DurationNs(v.samples, v.rate) >= 0 /\ AudioBytes(v) = v.len
    THEN [kind |-> "audio", rate |-> v.rate, channels |-> v.channels, format |-> v.format,
          layout |-> v.layout, samples |-> v.samples, len |-> v.len]
    ELSE Err

Plane(offset, stride, row, rows) == [offset |-> offset, stride |-> stride, row |-> row, rows |-> rows]

rgba8(v, stride) ==
    LET row == CheckedMul(v.width, 4, USIZE_MAX)
    IN IF /\ v.width # 0 /\ v.height # 0 /\ row >= 0 /\ stride >= row
          /\ CheckedMul(stride, v.height, USIZE_MAX) = v.len
       THEN [kind |-> "video", width |-> v.width, height |-> v.height, pixels |-> "rgba8",
             len |-> v.len, planes |-> <<Plane(0, stride, row, v.height)>>]
       ELSE Err

VOffset(y, u) == CheckedAdd(y, u, USIZE_MAX)

\* The strides of the chroma planes are validated and multiplied one by one.
yuv420p(v, y_stride, u_stride, v_stride) ==
    LET y_bytes == CheckedMul(y_stride, v.height, USIZE_MAX)
        u_bytes == CheckedMul(u_stride, v.height \div 2, USIZE_MAX)
        v_bytes == CheckedMul(v_stride, v.height \div 2, USIZE_MAX)
        v_offset == VOffset(y_bytes, u_bytes)
    IN IF /\ v.width # 0 /\ v.height # 0 /\ v.width % 2 = 0 /\ v.height % 2 = 0
          /\ y_stride >= v.width /\ u_stride >= v.width \div 2 /\ v_stride >= v.width \div 2
          /\ CheckedAdd(CheckedAdd(y_bytes, u_bytes, USIZE_MAX), v_bytes, USIZE_MAX) = v.len
       THEN [kind |-> "video", width |-> v.width, height |-> v.height, pixels |-> "yuv420p",
             len |-> v.len,
             planes |-> <<Plane(0, y_stride, v.width, v.height),
                          Plane(y_bytes, u_stride, v.width \div 2, v.height \div 2),
                          Plane(v_offset, v_stride, v.width \div 2, v.height \div 2)>>]
       ELSE Err

\* MediaType::new refuses "bad"; an absent type is the empty string.
ByteData(v) == IF v.media = "bad" THEN Err ELSE [kind |-> "byte", media |-> v.media, len |-> v.len]

-----------------------------------------------------------------------------
(* The two ways in.  A view's fault is what is wrong outside its shape. *)

\* copy_bytes: the limit, then the pointer unless the view is empty.
CopyBytes(v) == v.len <= MAX_COPY_BYTES /\ ~(v.len # 0 /\ v.fault = "null")

\* copy_frame: the shape first, then the length the shape asks for.
CopiedAudio(v) ==
    /\ v.rate \in 1..MAX_RATE /\ v.channels \in 1..MAX_CHANNELS
    /\ v.format \in 1..6 /\ v.layout \in 1..2 /\ v.samples # 0
    /\ AudioBytes(v) = v.len

\* The product of the dimensions is a u32.
TightBytes(v) ==
    LET area == CheckedMul(v.width, v.height, U32_MAX)
    IN CASE v.format = 1 /\ v.planes = 1 -> CheckedMul(area, 4, USIZE_MAX)
         [] v.format = 2 /\ v.planes = 3 /\ v.width % 2 = 0 /\ v.height % 2 = 0 ->
                IF area < 0 THEN -1 ELSE CheckedAdd(area, area \div 2, USIZE_MAX)
         [] OTHER -> -1
CopiedVideo(v) == v.width # 0 /\ v.height # 0 /\ TightBytes(v) = v.len

\* The owned path: a format outside the table of widths is refused by the lookup, the layout
\* together with the length.
validate_audio_payload(v) ==
    LET widths == [i \in 0..6 |-> IF i = 0 THEN 0 ELSE BytesPerSample[i]]
    IN /\ v.rate \in 1..MAX_RATE /\ v.channels \in 1..MAX_CHANNELS /\ v.samples # 0
       /\ v.format \in DOMAIN widths /\ widths[v.format] # 0
       /\ CheckedMul(CheckedMul(v.samples, v.channels, USIZE_MAX), widths[v.format], USIZE_MAX) = v.len
       /\ v.layout \in 1..2
validate_video_payload(v) == v.width # 0 /\ v.height # 0 /\ TightBytes(v) = v.len

HeaderFaults == {"version", "reserved", "clock", "identifier"}

\* copy_frame: the OwnedFrame, or an error.
copy_frame(v) ==
    IF /\ v.type \in 1..6 /\ v.fault \notin HeaderFaults \cup {"payload_reserved"}
       /\ v.type = 1 => CopiedAudio(v)
       /\ v.type = 2 => CopiedVideo(v)
       /\ CopyBytes(v)
    THEN v ELSE Err

VideoOf(v) ==
    IF v.format = 1 THEN rgba8(v, CheckedMul(v.width, 4, USIZE_MAX))
    ELSE yuv420p(v, v.width, v.width \div 2, v.width \div 2)

PayloadOf(v) ==
    CASE v.type = 1 -> AudioData(v)
      [] v.type = 2 -> VideoOf(v)
      [] v.type = 3 -> [kind |-> "text", len |-> v.len]
      [] v.type = 4 -> ByteData(v)
      [] OTHER -> Err   \* Signals and Events cannot use a graph data port

into_rust(owned) == IF owned = Err THEN Err ELSE PayloadOf(owned)

\* ForeignPayloadOwner::from_view, past the owner and the release callback.
FromView(v) == v.len <= MAX_COPY_BYTES /\ (v.len = 0 \/ v.fault # "null")

adopt_owned_frame(v) ==
    IF /\ v.type \in {1, 2, 4} /\ FromView(v)
       /\ v.fault \notin HeaderFaults \cup {"payload_reserved"}
       /\ v.type = 1 => validate_audio_payload(v)
       /\ v.type = 2 => validate_video_payload(v)
    THEN PayloadOf(v) ELSE Err

-----------------------------------------------------------------------------
(* The way out: borrowed_frame_view and borrowed_text_view. *)

borrowed_frame_view(f) ==
    CASE f.kind = "audio" ->
            [type |-> 1, fault |-> "none", len |-> f.len, rate |-> f.rate, channels |-> f.channels,
             format |-> f.format, layout |-> f.layout, samples |-> f.samples]
      [] f.kind = "video" ->
            [type |-> 2, fault |-> "none", len |-> f.len, width |-> f.width, height |-> f.height,
             format |-> IF f.pixels = "rgba8" THEN 1 ELSE 2,
             planes |-> IF f.pixels = "rgba8" THEN 1 ELSE 3]
      [] f.kind = "text" -> [type |-> 3, fault |-> "none", len |-> f.len]
      [] f.kind = "byte" -> [type |-> 4, fault |-> "none", len |-> f.len, media |-> f.media]

-----------------------------------------------------------------------------
(* What is tried. *)

Faults == HeaderFaults \cup {"none", "null", "payload_reserved"}
Lengths(expected) == {0, expected, expected + 1} \cap 0..USIZE_MAX
AudioViews ==
    UNION {{[type |-> 1, fault |-> f, len |-> n, rate |-> r, channels |-> c, format |-> 1 + k,
             layout |-> l, samples |-> s] : f \in {"none", "null"}, n \in Lengths(s * c * BytesPerSample[1 + (k % 6)])} :
        r \in {0, 1, MAX_RATE, MAX_RATE + 1}, c \in 0..(MAX_CHANNELS + 1), k \in -1..6, l \in 0..3,
        s \in Counts}
VideoViews ==
    UNION {{[type |-> 2, fault |-> "none", len |-> n, width |-> w, height |-> h, format |-> f,
             planes |-> p] : n \in Lengths(w * h * 4) \cup Lengths((w * h * 3) \div 2)} :
        w \in Dimensions, h \in Dimensions, f \in 1..2, p \in {1, 3}}
OtherViews ==
    [type : {3, 5, 6, 7}, fault : Faults, len : {0, 1, MAX_COPY_BYTES + 1}]
    \cup [type : {4}, fault : Faults, len : {0, MAX_COPY_BYTES, MAX_COPY_BYTES + 1},
          media : {"", "plain", "bad"}]
Views == AudioViews \cup VideoViews \cup OtherViews

\* Frames the runtime can hold: what the constructors accept, padded strides included.
VideoFrames ==
    UNION {{rgba8([width |-> w, height |-> h, len |-> (4 * w + pad) * h], 4 * w + pad),
            yuv420p([width |-> w, height |-> h, len |-> (w + pad) * h + 2 * (w \div 2) * (h \div 2)],
                    w + pad, w \div 2, w \div 2)} :
        w \in Dimensions, h \in Dimensions, pad \in 0..1} \ {Err}
Frames == ({AudioData(v) : v \in {a \in AudioViews : a.format \in 1..6 /\ a.layout \in 1..2}}
            \cup VideoFrames \cup {[kind |-> "text", len |-> 1]}
            \cup [kind : {"byte"}, media : {"", "plain"}, len : {0, 1, MAX_COPY_BYTES}]) \ {Err}

FramesInit(enabled) ==
    /\ IF enabled
       THEN crossing \in [dir : {"in"}, value : Views] \cup [dir : {"out"}, value : Frames]
       ELSE crossing = [dir |-> "in", value |-> Err]
    /\ outcome = <<>>

\* One crossing, by both ways in; outwards the view comes back by both ways.
Cross ==
    /\ outcome = <<>>
    /\ LET view == IF crossing.dir = "in" THEN crossing.value ELSE borrowed_frame_view(crossing.value)
       IN outcome' = [copied |-> into_rust(copy_frame(view)), adopted |-> adopt_owned_frame(view)]
    /\ UNCHANGED crossing

-----------------------------------------------------------------------------
(* Properties *)

Done == outcome # <<>>

\* copy_frame with into_rust, and adopt_owned_frame, are written out separately: a media view
\* is accepted by both or by neither, as the same Frame.
PathsAgree ==
    (Done /\ (crossing.dir = "in" => crossing.value.type \in {1, 2, 4})
          /\ (crossing.dir = "out" => crossing.value.kind # "text"))
        => outcome.copied = outcome.adopted

Tight(f) == f.kind = "video" => \A i \in DOMAIN f.planes : f.planes[i].stride = f.planes[i].row

\* A Frame without row padding, within the copy limit, comes back from a node as it was; an
\* accepted view is what the next node is shown of its Frame.
CrossingPreserves ==
    Done =>
        IF crossing.dir = "in"
        THEN outcome.copied # Err => borrowed_frame_view(outcome.copied) = [crossing.value EXCEPT !.fault = "none"]
        ELSE (Tight(crossing.value) /\ crossing.value.len <= MAX_COPY_BYTES)
                => outcome.copied = crossing.value

\* The planes of every video Frame that came in tile its buffer: they start at 0, follow one
\* another, and the last one ends with the buffer.
PlanesTileBuffer ==
    (Done /\ outcome.copied.kind = "video") =>
        LET planes == outcome.copied.planes
            End(i) == planes[i].offset + planes[i].stride * planes[i].rows
        IN /\ planes[1].offset = 0 /\ End(Len(planes)) = outcome.copied.len
           /\ \A i \in 1..(Len(planes) - 1) : planes[i + 1].offset = End(i)

=============================================================================
