------------------------------ MODULE MCVoice ------------------------------
(* One of the voice Nodes, chosen initially; the others rest. *)
EXTENDS VoiceTurn, LlmNode, SpeechFormatter, DemoPipeline, AudioResample
VARIABLE part
vars == <<part, voiceVars, llmVars, formatterVars, demoVars, resampleVars>>

MCTexts == {<<"a">>, <<"a", "b">>, <<"d", "d">>, <<"c">>, <<"u">>}
MCAllowlist == {<<"c">>}
MCIgnored == {<<"u">>}
NumberTexts == {<<"d">>, <<".">>, <<"!">>, <<"w">>, <<",">>, <<" ">>}
MarkdownTexts ==
    {<<"t", "t", "t">>, <<"t">>, <<"w", "!">>, <<"(">>, <<"s">>, <<")", "n">>, <<"u">>,
     <<"|", "w", "|", "n">>}

MCLevels == {-3, 0, 2}

Init ==
    /\ part \in {"controller", "context", "llm", "numbers", "markdown", "demo", "resample"}
    /\ VoiceInit /\ FormatterInit /\ DemoInit(part = "demo") /\ ResampleInit(part = "resample")
    /\ LlmInit(IF part = "llm" THEN BOOLEAN ELSE {TRUE})

Voice ==
    \/ part = "controller" /\ ControllerNext
    \/ part = "context" /\ ContextNext
Formatter ==
    /\ part \in {"numbers", "markdown"}
    /\ FormatterNext(IF part = "numbers" THEN NumberTexts ELSE MarkdownTexts)
Next ==
    /\ UNCHANGED part
    /\ \/ Voice /\ UNCHANGED <<llmVars, formatterVars, demoVars, resampleVars>>
       \/ Formatter /\ UNCHANGED <<voiceVars, llmVars, demoVars, resampleVars>>
       \/ /\ part = "llm" /\ LlmNext
          /\ UNCHANGED <<voiceVars, formatterVars, demoVars, resampleVars>>
       \/ /\ part = "demo" /\ DemoNext
          /\ UNCHANGED <<voiceVars, formatterVars, llmVars, resampleVars>>
       \/ /\ part = "resample" /\ Resample
          /\ UNCHANGED <<voiceVars, formatterVars, llmVars, demoVars>>

Spec == Init /\ [][Next]_vars /\ LlmFair /\ DemoFair

\* Turns are kept apart from the microphone to the speaker: in the turn
\* controller and in the fusion of a turn's two halves.
ConversationKeepsItsTurns == TurnsAreKeptApart /\ []TurnsRejoin

\* What is spoken and resampled is what was said.
SoundIsFaithful == SpeechIsFaithful /\ ResampledFrameIsFaithful

\* A prompt that nothing supersedes is answered to its end, and every turn of
\* the demo is heard.
AnswersComeThrough == PromptsAreAnswered /\ EveryTurnIsPlayed
=============================================================================
