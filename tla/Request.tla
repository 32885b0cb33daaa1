------------------------------ MODULE Request -------------------------------
(***************************************************************************)
(* The parts of the way of one request, and what is kept of it, side by     *)
(* side: each behaviour follows one filter, one conversation, one body, one *)
(* configuration, the starts of a gateway on one directory, one ledger, or  *)
(* the checkpoints of one user.                                             *)
(***************************************************************************)
EXTENDS RequestPath, AnswerPath, RuntimeIdentity, Usage, Checkpoints

RequestInit ==
  \/ FilterInit /\ PathIdle /\ AnswerIdle /\ ResolutionIdle /\ IdentityIdle /\ UsageIdle /\ DeskIdle
  \/ PathInit /\ FilterIdle /\ AnswerIdle /\ ResolutionIdle /\ IdentityIdle /\ UsageIdle /\ DeskIdle
  \/ AnswerInit /\ FilterIdle /\ PathIdle /\ ResolutionIdle /\ IdentityIdle /\ UsageIdle /\ DeskIdle
  \/ ResolutionInit /\ FilterIdle /\ PathIdle /\ AnswerIdle /\ IdentityIdle /\ UsageIdle /\ DeskIdle
  \/ IdentityInit /\ FilterIdle /\ PathIdle /\ AnswerIdle /\ ResolutionIdle /\ UsageIdle /\ DeskIdle
  \/ UsageInit /\ FilterIdle /\ PathIdle /\ AnswerIdle /\ ResolutionIdle /\ IdentityIdle /\ DeskIdle
  \/ DeskInit /\ FilterIdle /\ PathIdle /\ AnswerIdle /\ ResolutionIdle /\ IdentityIdle /\ UsageIdle

kept == <<ledger, calls, today, stats, desk, saving>>
besides == <<trial, loading, identity, kept>>
request == <<trial, loading, identity, pathVars, answerVars>>

RequestNext ==
  \/ RunFilter /\ UNCHANGED <<loading, identity, pathVars, answerVars, kept>>
  \/ Receive /\ UNCHANGED <<besides, answerVars>>
  \/ Reduce /\ UNCHANGED <<besides, answerVars>>
  \/ Instruct /\ UNCHANGED <<besides, answerVars>>
  \/ Mark /\ UNCHANGED <<besides, answerVars>>
  \/ Register /\ UNCHANGED <<besides, answerVars>>
  \/ Send /\ UNCHANGED <<besides, answerVars>>
  \/ CheckLength /\ UNCHANGED <<besides, pathVars>>
  \/ ReadChunk /\ UNCHANGED <<besides, pathVars>>
  \/ BreakOff /\ UNCHANGED <<besides, pathVars>>
  \/ EndOfBody /\ UNCHANGED <<besides, pathVars>>
  \/ Keep /\ UNCHANGED <<besides, pathVars>>
  \/ Observe /\ UNCHANGED <<besides, pathVars>>
  \/ SaveCheckpoint /\ UNCHANGED <<besides, pathVars>>
  \/ Migrate /\ UNCHANGED <<trial, identity, pathVars, answerVars, kept>>
  \/ Edit /\ UNCHANGED <<trial, identity, pathVars, answerVars, kept>>
  \/ Resolve /\ UNCHANGED <<trial, identity, pathVars, answerVars, kept>>
  \/ \E s \in Starts : StartRuntime(s) /\ UNCHANGED <<trial, loading, pathVars, answerVars, kept>>
  \/ \E s \in Starts : LookForIdentity(s) /\ UNCHANGED <<trial, loading, pathVars, answerVars, kept>>
  \/ \E s \in Starts : CreateIdentity(s) /\ UNCHANGED <<trial, loading, pathVars, answerVars, kept>>
  \/ \E s \in Starts : FillIdentity(s) /\ UNCHANGED <<trial, loading, pathVars, answerVars, kept>>
  \/ \E s \in Starts : KillStart(s) /\ UNCHANGED <<trial, loading, pathVars, answerVars, kept>>
  \/ \E i \in DOMAIN calls : AnswerCall(i) /\ UNCHANGED <<request, desk, saving>>
  \/ \E i \in DOMAIN calls : RecordRequest(i) /\ UNCHANGED <<request, desk, saving>>
  \/ \E i \in DOMAIN calls : RecordIsLost(i) /\ UNCHANGED <<request, desk, saving>>
  \/ NextDay /\ UNCHANGED <<request, desk, saving>>
  \/ DeleteOld /\ UNCHANGED <<request, desk, saving>>
  \/ QueryTotal /\ UNCHANGED <<request, desk, saving>>
  \/ QueryModels /\ UNCHANGED <<request, desk, saving>>
  \/ QueryModel /\ UNCHANGED <<request, desk, saving>>
  \/ QueryDays /\ UNCHANGED <<request, desk, saving>>
  \/ QueryEntries /\ UNCHANGED <<request, desk, saving>>
  \/ QueryFails /\ UNCHANGED <<request, desk, saving>>
  \/ \E s \in Savers : ReadHead(s) /\ UNCHANGED <<request, usageVars>>
  \/ \E s \in Savers : ReadWatched(s) /\ UNCHANGED <<request, usageVars>>
  \/ \E s \in Savers : InsertCheckpoint(s) /\ UNCHANGED <<request, usageVars>>
  \/ DeleteCheckpoint /\ UNCHANGED <<request, usageVars>>
  \/ EditProject /\ UNCHANGED <<request, usageVars>>

RequestSpec ==
  RequestInit /\ [][RequestNext]_<<request, kept>>
=============================================================================
