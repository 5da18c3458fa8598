------------------------------- MODULE VoiceTurn -------------------------------
(***************************************************************************)
(* Who is speaking and which turn is current: the built-in voice Nodes of  *)
(* crates/muxiva-graph-json/src/builtins.rs.  AudioVad tells speech from   *)
(* silence, VoiceTurnContext joins it with a transcript,                   *)
(* VoiceTurnController decides which utterances cancel the                 *)
(* previous turn and start a new one, and TextCancellationGate drops text  *)
(* of cancelled turns.                                                     *)
(*                                                                         *)
(* A text is its normalized form (normalize_voice_utterance), a sequence   *)
(* of letters; a frame is its sequence id and its text.                    *)
(***************************************************************************)
EXTENDS Integers, Sequences, FiniteSets, SequencesExt

CONSTANTS
    Texts,              \* normalized texts
    Allowlist, Ignored, \* short_utterance_allowlist and ignored_utterances
    MinimumCharacters,  \* minimum_utterance_characters
    PreviewHits,        \* early_cancel_preview_hits
    StartFrames, StopFrames,
    MaxTurn,            \* bound: sequence ids
    MaxGeneration,      \* bound: generations
    MaxAudio,           \* bound: audio frames
    MaxFinals           \* bound: final transcripts between two activity starts

\* What the factories of AudioVad and VoiceTurnController accept.
VadConfig == StartFrames \in 1..100 /\ StopFrames \in 1..500
ControllerConfig ==
    /\ MinimumCharacters \in 1..20 /\ PreviewHits \in 1..3
    /\ \A text \in Allowlist \cup Ignored : Len(text) \in 1..32
    /\ Cardinality(Allowlist) <= 64 /\ Cardinality(Ignored) <= 64
ASSUME VoiceConfigAssumption == VadConfig /\ ControllerConfig

VARIABLES
    controller,  \* [generation, open, candidate, hits, early]
    cancelled,   \* cancellation signals: [generation, turn]
    started,     \* admitted turns: [generation, turn], with a prompt each
    utterance,   \* since the last activity start: [cancels, finals, interrupts]
    toGate,      \* signals and prompts on their way to the gate
    gate,        \* [watermark, passed]
    vad,         \* [loud, quiet, active]
    heard,       \* loudness of the audio frames so far
    activity,    \* speech events on their way to VoiceTurnContext
    turnContext, \* [active, pending], pending the arrival number or 0
    arrivals,    \* transcripts so far; fresh: the first one after the last start
    fresh,
    contexts     \* arrival numbers of the transcripts emitted

controllerVars == <<controller, cancelled, started, utterance, toGate, gate>>
contextVars == <<vad, heard, activity, turnContext, arrivals, fresh, contexts>>
voiceVars == <<controllerVars, contextVars>>

None == 0
VoiceInit ==
    /\ controller = [generation |-> 0, open |-> FALSE, candidate |-> <<>>, hits |-> 0, early |-> None]
    /\ cancelled = <<>> /\ started = <<>>
    /\ utterance = [cancels |-> 0, finals |-> 0, interrupts |-> 0]
    /\ toGate = [signals |-> <<>>, prompts |-> <<>>] /\ gate = [watermark |-> 0, passed |-> {}]
    /\ vad = [loud |-> 0, quiet |-> 0, active |-> FALSE] /\ heard = <<>>
    /\ activity = <<>> /\ turnContext = [active |-> FALSE, pending |-> None]
    /\ arrivals = 0 /\ fresh = 1 /\ contexts = <<>>

----------------------------------------------------------------------------
(* VoiceTurnController                                                     *)

ignored_reason(text) == text = <<>> \/ text \in Ignored
preview_rejection_reason(text) ==
    ignored_reason(text) \/ (Len(text) < MinimumCharacters /\ text \notin Allowlist)
can_consume_preview(text) ==
    controller.open /\ controller.early = None /\ ~preview_rejection_reason(text)

\* commit_cancellation of the next generation, on behalf of sequence id turn.
Commit(turn) ==
    /\ controller.generation < MaxGeneration
    /\ cancelled' = Append(cancelled, [generation |-> controller.generation + 1, turn |-> turn])
    /\ toGate' = [toGate EXCEPT !.signals = Append(@, turn)]

\* activity_in: muxiva.voice.activity.started opens the preview window; every
\* event is passed on.
ActivityStarted ==
    /\ controller' = [controller EXCEPT !.candidate = <<>>, !.hits = 0, !.early = None, !.open = TRUE]
    /\ utterance' = [cancels |-> 0, finals |-> 0, interrupts |-> 0]
    /\ UNCHANGED <<cancelled, started, toGate, gate, contextVars>>

\* observe_preview: a hypothesis that extends or is extended by the last one
\* confirms it.
Hits(text) ==
    LET last == controller.candidate IN
    IF last # <<>> /\ (IsPrefix(last, text) \/ IsPrefix(text, last))
    THEN controller.hits + 1 ELSE 1
observe_preview(text) == Hits(text) >= PreviewHits \/ text \in Allowlist

PreviewIn(turn, text) ==
    /\ can_consume_preview(text)
    /\ LET seen == [controller EXCEPT !.candidate = text, !.hits = Hits(text)] IN
       \/ /\ ~observe_preview(text)
          /\ controller' = seen /\ UNCHANGED <<cancelled, toGate, utterance>>
       \/ /\ observe_preview(text) /\ Commit(turn)
          /\ controller' = [seen EXCEPT !.generation = @ + 1, !.early = controller.generation + 1]
          /\ utterance' = [utterance EXCEPT !.cancels = @ + 1]
    /\ UNCHANGED <<started, gate, contextVars>>

\* Mutant: the early cancellation is looked at, not taken.
ClosedKeepingEarly(c) == [c EXCEPT !.open = FALSE, !.candidate = <<>>, !.hits = 0]

\* After a final transcript: the window closed, clear_preview, early taken.
Closed(c) == [c EXCEPT !.open = FALSE, !.candidate = <<>>, !.hits = 0, !.early = None]

\* transcript_in.  The window closes before the text is looked at; text that
\* is not ignored is admitted with the generation of the early cancellation, or
\* with one of its own.
TranscriptIn(turn, text) ==
    /\ utterance.finals < MaxFinals
    /\ LET early == controller.early # None
           generation == IF early THEN controller.early ELSE controller.generation + 1
       IN \/ /\ ignored_reason(text)
             /\ controller' = Closed(controller)
             /\ utterance' = [utterance EXCEPT !.finals = @ + 1]
             /\ UNCHANGED <<cancelled, started, toGate>>
          \/ /\ ~ignored_reason(text) /\ early
             /\ toGate' = [toGate EXCEPT !.prompts = Append(@, turn)]
             /\ controller' = Closed(controller)
             /\ utterance' = [utterance EXCEPT !.finals = @ + 1]
             /\ started' = Append(started, [generation |-> generation, turn |-> turn])
             /\ UNCHANGED cancelled
          \/ /\ ~ignored_reason(text) /\ ~early /\ generation <= MaxGeneration
             /\ cancelled' = Append(cancelled, [generation |-> generation, turn |-> turn])
             /\ toGate' = [signals |-> Append(toGate.signals, turn),
                           prompts |-> Append(toGate.prompts, turn)]
             /\ controller' = [Closed(controller) EXCEPT !.generation = generation]
             /\ utterance' = [utterance EXCEPT !.finals = @ + 1, !.cancels = @ + 1]
             /\ started' = Append(started, [generation |-> generation, turn |-> turn])
    /\ UNCHANGED <<gate, contextVars>>

\* on_signal: an authoritative interrupt cancels without starting a turn.
Interrupt(turn) ==
    /\ Commit(turn)
    /\ controller' = [controller EXCEPT !.generation = @ + 1]
    /\ utterance' = [utterance EXCEPT !.interrupts = @ + 1, !.cancels = @ + 1]
    /\ UNCHANGED <<started, gate, contextVars>>

----------------------------------------------------------------------------
(* TextCancellationGate, fed by the controller's Signals and by prompts    *)

GateSignal ==
    /\ toGate.signals # <<>>
    /\ LET turn == Head(toGate.signals) IN
       gate' = [gate EXCEPT !.watermark = IF turn > @ THEN turn ELSE @]
    /\ toGate' = [toGate EXCEPT !.signals = Tail(@)]
    /\ UNCHANGED <<controller, cancelled, started, utterance, contextVars>>

\* Text of a turn arrives; it was cancelled if a Signal of its own turn or of a
\* later one has been here.
GateText ==
    /\ toGate.prompts # <<>>
    /\ LET turn == Head(toGate.prompts) IN
       gate' = IF turn > gate.watermark
               THEN [gate EXCEPT !.passed = @ \cup {[turn |-> turn, watermark |-> gate.watermark]}]
               ELSE gate
    /\ toGate' = [toGate EXCEPT !.prompts = Tail(@)]
    /\ UNCHANGED <<controller, cancelled, started, utterance, contextVars>>

ControllerNext ==
    \/ ActivityStarted \/ GateSignal \/ GateText
    \/ \E turn \in 1..MaxTurn :
          /\ turn \in {Len(started) + 1, Len(started)}      \* ids an ASR stream may carry
          /\ \/ Interrupt(turn)
             \/ \E text \in Texts : PreviewIn(turn, text) \/ TranscriptIn(turn, text)

----------------------------------------------------------------------------
(* AudioVad and VoiceTurnContext                                           *)

VadCounts(loud) ==
    [vad EXCEPT !.loud = IF loud THEN @ + 1 ELSE 0, !.quiet = IF loud THEN 0 ELSE @ + 1]

Audio(loud) ==
    /\ Len(heard) < MaxAudio /\ heard' = Append(heard, loud)
    /\ LET counts == VadCounts(loud)
           starts == ~vad.active /\ counts.loud >= StartFrames
           stops == vad.active /\ counts.quiet >= StopFrames
       IN /\ vad' = [counts EXCEPT !.active = (@ \/ starts) /\ ~stops]
          /\ activity' = IF starts \/ stops
                         THEN Append(activity, [speaking |-> starts, at |-> Len(heard) + 1])
                         ELSE activity
    /\ UNCHANGED <<turnContext, arrivals, fresh, contexts, controllerVars>>

\* emit_pending.
EmitPending(pending) == IF pending = None THEN contexts ELSE Append(contexts, pending)

SpeechStarted == turnContext' = [active |-> TRUE, pending |-> None]

SpeechIn ==
    /\ activity # <<>> /\ activity' = Tail(activity)
    /\ \/ Head(activity).speaking /\ SpeechStarted /\ fresh' = arrivals + 1 /\ UNCHANGED contexts
       \/ /\ ~Head(activity).speaking
          /\ turnContext' = [active |-> FALSE, pending |-> None]
          /\ contexts' = EmitPending(turnContext.pending) /\ UNCHANGED fresh
    /\ UNCHANGED <<vad, heard, arrivals, controllerVars>>

\* A transcript that is not empty.
ContextTranscript ==
    /\ arrivals < MaxTurn /\ arrivals' = arrivals + 1
    /\ turnContext' = [turnContext EXCEPT !.pending = IF turnContext.active THEN arrivals + 1 ELSE None]
    /\ contexts' = IF turnContext.active THEN contexts ELSE Append(contexts, arrivals + 1)
    /\ UNCHANGED <<vad, heard, activity, fresh, controllerVars>>

\* The Edge to the context may have a dropping policy.
ActivityDropped ==
    /\ activity # <<>> /\ activity' = Tail(activity)
    /\ UNCHANGED <<vad, heard, turnContext, arrivals, fresh, contexts, controllerVars>>

ContextNext == \/ \E loud \in BOOLEAN : Audio(loud)
               \/ SpeechIn \/ ActivityDropped \/ ContextTranscript

----------------------------------------------------------------------------
(* Properties                                                              *)

VoiceTypeOK ==
    /\ controller \in [generation : 0..MaxGeneration, open : BOOLEAN, candidate : Texts \cup {<<>>},
                       hits : Nat, early : 0..MaxGeneration]
    /\ controller.hits > 0 <=> controller.candidate # <<>>
    /\ controller.early <= controller.generation
    /\ gate.watermark \in 0..MaxTurn
    /\ vad \in [loud : 0..MaxAudio, quiet : 0..MaxAudio, active : BOOLEAN]
    /\ turnContext \in [active : BOOLEAN, pending : 0..MaxTurn]

\* One utterance cancels once: between an activity start and its only final
\* transcript, an early cancellation from previews and the final share one
\* generation, and a preview that arrives behind the final cancels nothing.
OneCancellationPerUtterance ==
    utterance.finals <= 1 => utterance.cancels <= utterance.interrupts + 1

\* Every turn that starts has a cancellation of its generation before it, and
\* no two turns start in one generation.
TurnsOwnTheirGeneration ==
    /\ \A i \in DOMAIN started :
          \E j \in DOMAIN cancelled : cancelled[j].generation = started[i].generation
    /\ \A i, j \in DOMAIN started : started[i].generation = started[j].generation => i = j

\* Text that passed the gate was of a turn later than every Signal the gate had
\* seen, and the watermark never goes back.
WatermarkNeverFalls ==
    [][gate'.watermark >= gate.watermark
       /\ \A p \in gate'.passed : p.turn > p.watermark]_voiceVars

\* The detector reports a start only after StartFrames loud frames in a row and
\* an end only after StopFrames quiet ones.
ActivityIsEarned ==
    \A i \in DOMAIN activity :
        LET e == activity[i]
            run == IF e.speaking THEN StartFrames ELSE StopFrames
        IN e.at >= run /\ \A k \in (e.at - run + 1)..e.at : heard[k] = e.speaking

\* A transcript is passed on once, and one that came before the last start of
\* speech is never passed on after it, even if the end of speech between them
\* was lost.
ContextIsFresh ==
    /\ \A i, j \in DOMAIN contexts : i < j => contexts[i] < contexts[j]
    /\ turnContext.pending # None => turnContext.pending >= fresh

\* What one turn says, hears or cancels never counts for another one.
TurnsAreKeptApart ==
    /\ [](VoiceTypeOK /\ OneCancellationPerUtterance /\ TurnsOwnTheirGeneration)
    /\ [](ActivityIsEarned /\ ContextIsFresh)
    /\ WatermarkNeverFalls
=============================================================================
