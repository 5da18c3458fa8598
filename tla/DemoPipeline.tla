----------------------------- MODULE DemoPipeline -----------------------------
(***************************************************************************)
(* The demo voice Nodes of crates/muxiva-graph-json/src/builtins.rs, wired *)
(* as examples/graphs/mock-realtime-voice.v1.json wires them: the          *)
(* microphone's turns fan out to recognition and activity detection, are   *)
(* joined again by DemoContextFusion and answered, spoken and played.  An  *)
(* Edge is a FIFO of turns; the Nodes run concurrently.                    *)
(***************************************************************************)
EXTENDS Integers, Sequences, FiniteSets, SequencesExt

CONSTANT Turns     \* the microphone's `turns`

VARIABLES
    microphone,  \* [turn, tick]
    edge,        \* the port an Edge leads to -> turns on it
    fusion,      \* DemoContextFusion: [transcripts, speech, emitted]
    played       \* turns the speaker has played

demoVars == <<microphone, edge, fusion, played>>

\* The input ports the demo Nodes declare.
Inputs == {"asr.audio_in", "vad.audio_in", "fusion.transcript_in", "fusion.speech_in",
           "llm.context_in", "tts.text_in", "speaker.audio_in"}

\* A Source's first on_process is its start; later ones are its own ticks.
DemoInit(runs) ==
    /\ microphone = [turn |-> 0, tick |-> runs]
    /\ edge = [port \in Inputs |-> <<>>]
    /\ fusion = [transcripts |-> {}, speech |-> {}, emitted |-> {}]
    /\ played = <<>>

\* A turn moves from a Node's input port to the ports behind its output.
Moved(port, outputs) ==
    [p \in Inputs |-> IF p = port THEN Tail(edge[p])
                      ELSE IF p \in outputs THEN Append(edge[p], Head(edge[port])) ELSE edge[p]]

SchedulesNext(turn) == turn < Turns

DemoMicrophone ==
    /\ microphone.tick
    /\ LET turn == microphone.turn + 1 IN
       /\ microphone' = [turn |-> turn, tick |-> SchedulesNext(turn)]
       /\ edge' = [p \in Inputs |-> IF p \in {"asr.audio_in", "vad.audio_in"}
                                    THEN Append(edge[p], turn) ELSE edge[p]]
    /\ UNCHANGED <<fusion, played>>

\* A Node with one input and one output.
Transform(port, output) ==
    /\ edge[port] # <<>>
    /\ edge' = Moved(port, {output})
    /\ UNCHANGED <<microphone, fusion, played>>
DemoAsr == Transform("asr.audio_in", "fusion.transcript_in")
\* Its notification and its Signal, which fusion only logs, go their own ways.
DemoVad == Transform("vad.audio_in", "fusion.speech_in")
DemoLlm == Transform("llm.context_in", "tts.text_in")
DemoTts == Transform("tts.text_in", "speaker.audio_in")

Joins(f, turn) == turn \in f.transcripts /\ turn \in f.speech /\ turn \notin f.emitted

DemoContextFusion(port, half) ==
    /\ edge[port] # <<>>
    /\ LET turn == Head(edge[port])
           f == [fusion EXCEPT ![half] = @ \cup {turn}]
           ready == Joins(f, turn)
       IN /\ fusion' = IF ready THEN [f EXCEPT !.emitted = @ \cup {turn}] ELSE f
          /\ edge' = Moved(port, IF ready THEN {"llm.context_in"} ELSE {})
    /\ UNCHANGED <<microphone, played>>

DemoSpeaker ==
    /\ edge["speaker.audio_in"] # <<>>
    /\ played' = Append(played, Head(edge["speaker.audio_in"]))
    /\ edge' = Moved("speaker.audio_in", {})
    /\ UNCHANGED <<microphone, fusion>>

DemoNode ==
    \/ DemoMicrophone \/ DemoAsr \/ DemoVad \/ DemoLlm \/ DemoTts \/ DemoSpeaker
    \/ DemoContextFusion("fusion.transcript_in", "transcripts")
    \/ DemoContextFusion("fusion.speech_in", "speech")
DemoNext == DemoNode

\* Every Node is called while it has input; the runtime serves due ticks.
DemoFair == WF_demoVars(DemoNode)

----------------------------------------------------------------------------
(* Properties                                                              *)

\* The two halves of a turn race through the graph, yet the turns are answered
\* in the microphone's order, once each, and only when both halves have come.
TurnsRejoin ==
    /\ \A i \in DOMAIN played : played[i] = i
    /\ fusion.emitted \subseteq fusion.transcripts \cap fusion.speech
    /\ \A p \in Inputs : \A i, j \in DOMAIN edge[p] : i < j => edge[p][i] < edge[p][j]

\* Once the microphone has started, every configured turn is heard.
EveryTurnIsPlayed == microphone.tick ~> Len(played) = Turns
=============================================================================
