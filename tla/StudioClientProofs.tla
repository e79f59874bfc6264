------------------------- MODULE StudioClientProofs -------------------------
(***************************************************************************)
(* What holds of each component of the agent and of the browser holds of   *)
(* the behaviours that MCStudioClient checks: such a behaviour is one of   *)
(* every component, since a step of it is a step of one and leaves the     *)
(* others as they are.                                                     *)
(***************************************************************************)
EXTENDS MCStudioClient, AgentFilesProofs, DreaminaJournalProofs, ProductStoreProofs,
        GenerationEffectsProofs, DocumentSyncProofs

\* The processes of the agent, whichever of its components the behaviour runs.
LEMMA AgentComponents ==
    ClientSpec => ArbiterSpec /\ StateFileSpec /\ JournalSpec /\ ProjectionSpec /\ TaskEffectsSpec
<1>1. ClientInit => ArbiterInit /\ StateFileInit /\ JournalInit /\ ProjectionInit /\ TaskEffectsInit
  BY DEF ClientInit
<1>2. [ClientNext]_clientVars =>
        /\ [ArbiterNext]_arbiterVars /\ [StateFileNext]_fileVars /\ [JournalNext]_journalVars
        /\ [ProjectionNext]_projectionVars /\ [TaskEffectsNext]_taskEffectVars
  BY DEF ClientNext, clientVars
<1>3. QED
  BY <1>1, <1>2, PTL DEF ClientSpec, ArbiterSpec, StateFileSpec, JournalSpec, ProjectionSpec,
     TaskEffectsSpec

\* The tabs of the browser.
LEMMA WebComponents ==
    ClientSpec => CanvasSpec /\ EffectsSpec /\ SyncSpec
<1>1. ClientInit => CanvasInit /\ EffectsInit /\ SyncInit
  BY DEF ClientInit
<1>2. [ClientNext]_clientVars =>
        [CanvasNext]_canvasVars /\ [EffectsNext]_effectsVars /\ [SyncNext]_syncVars
  BY DEF ClientNext, clientVars
<1>3. QED
  BY <1>1, <1>2, PTL DEF ClientSpec, CanvasSpec, EffectsSpec, SyncSpec

\* Every reachable state of the agent's files, records and processes is well
\* formed.
THEOREM AgentTypesCorrect == ClientSpec => []AgentTypesOK
<1>1. ArbiterTypeOK /\ StateFileTypeOK /\ JournalTypeOK /\ ProjectionTypeOK /\ TaskEffectsTypeOK
        => AgentTypesOK
  BY DEF AgentTypesOK
<1>2. QED
  BY <1>1, AgentComponents, ArbiterTypeCorrect, StateFileTypes, JournalTypes,
     ProjectionTypesCorrect, StoreTypes, PTL

\* Every reachable state of the documents, the library and the session of the
\* browser is well formed.
THEOREM WebTypesCorrect == ClientSpec => []WebTypesOK
<1>1. CanvasTypeOK /\ EffectsTypeOK /\ SyncTypeOK => WebTypesOK
  BY DEF WebTypesOK
<1>2. QED
  BY <1>1, WebComponents, CanvasTypesCorrect, EffectsTypeCorrect, SyncTypesCorrect, PTL

\* The accounts of one browser stay apart: a generation is consumed for the
\* active account only (CallsWorkForScope), and no version of one is uploaded or
\* shown under another (DataStays).
THEOREM AccountsAreApart == ClientSpec => []AccountsStayApart
<1>1. WorkStaysInAccount /\ DataStaysWithMember => AccountsStayApart
  BY DEF AccountsStayApart
<1>2. QED
  BY <1>1, WebComponents, CallsWorkForScope, DataStays, PTL
=============================================================================
