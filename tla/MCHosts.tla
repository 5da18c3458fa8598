------------------------------- MODULE MCHosts -------------------------------
(* One of the hosts of the runtime, chosen initially; the others rest. *)
EXTENDS FfiHandles, FfiEmissions, FfiFrames, StudioRuntime, StudioHistory, SemanticTrace, DurableFiles, DevHost
CONSTANTS Parts   \* the hosts to choose from
VARIABLE part

handleParts == <<ffiVars, emissionVars, frameVars>>
studioParts == <<studioVars, historyVars, traceVars, fileVars, devVars>>
vars == <<part, handleParts, studioParts>>

Init ==
    /\ part \in Parts
    /\ HandlesInit /\ (part # "handles" => uses = {"ingress"})
    /\ EmissionsInit /\ FramesInit(part = "frames")
    /\ StudioInit /\ HistoryInit /\ TraceInit /\ FilesInit /\ DevInit

Next ==
    \/ /\ UNCHANGED <<part, studioParts>>
       /\ \/ part = "handles" /\ HandlesNext /\ UNCHANGED <<emissionVars, frameVars>>
          \/ part = "emissions" /\ EmissionsNext /\ UNCHANGED <<ffiVars, frameVars>>
          \/ part = "frames" /\ Cross /\ UNCHANGED <<ffiVars, emissionVars>>
    \/ /\ UNCHANGED <<part, handleParts>>
       /\ \/ part = "media" /\ StudioNext /\ UNCHANGED <<historyVars, traceVars, fileVars, devVars>>
          \/ part = "history" /\ HistoryNext /\ UNCHANGED <<studioVars, traceVars, fileVars, devVars>>
          \/ part = "trace" /\ TraceNext /\ UNCHANGED <<studioVars, historyVars, fileVars, devVars>>
          \/ part = "files" /\ FilesNext /\ UNCHANGED <<studioVars, historyVars, traceVars, devVars>>
          \/ part = "dev" /\ DevNext /\ UNCHANGED <<studioVars, historyVars, traceVars, fileVars>>

Spec == Init /\ [][Next]_vars



=============================================================================
