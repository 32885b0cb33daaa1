-------------------------- MODULE SafeCacheProofs ---------------------------
(***************************************************************************)
(* Proofs about the safe cache, for any number of handlers, slots and      *)
(* hashes: the types, who owns a blob, how far max_entries is overshot,    *)
(* and that every row has its blob.                                        *)
(***************************************************************************)
EXTENDS SafeCache, FiniteSetTheorems, TLAPS

\* A handler between two requests is a well-formed one that holds nothing.
LEMMA IdleIsJob ==
  /\ Idle \in Job
  /\ Idle.pc = "idle" /\ ~Idle.made /\ ~Idle.fresh
BY CacheAssumption DEF Idle, Job, Steps

\* A row has a hash, and what open() backfills are hashes.
LEMMA RowHashesAreHashes ==
  ASSUME TypeOK
  PROVE  /\ RowHashes \subseteq Answers
         /\ Backfilled \subseteq Hashes
         /\ \A s \in Occupied : rows[s] \in Row /\ rows[s].hash \in RowHashes
BY DEF TypeOK, RowHashes, Occupied, Row, Backfilled, Hashes

\* The types of all variables, with what a handler holds at each step.
TypeInv == TypeOK /\ JobInv

\* A step that leaves one handler well-formed leaves all of them so.
LEMMA JobUpdate ==
  ASSUME TypeInv, NEW w \in Workers, NEW j \in Job, JobOK(j), Become(w, j)
  PROVE  /\ job' \in [Workers -> Job]
         /\ JobInv'
         /\ job'[w] = j
         /\ \A v \in Workers \ {w} : job'[v] = job[v]
<1>1. /\ job' \in [Workers -> Job]
      /\ job'[w] = j
      /\ \A v \in Workers \ {w} : job'[v] = job[v]
  BY DEF TypeInv, TypeOK, Become
<1>2. \A v \in Workers : JobOK(job'[v])
  BY <1>1 DEF TypeInv, JobInv
<1> QED BY <1>1, <1>2 DEF JobInv, JobOK

\* The initial states are of these types, and every handler is idle.
LEMMA InitTypes == Init => TypeInv
<1> SUFFICES ASSUME Init PROVE TypeInv
  OBVIOUS
<1>0. workspace \in Workspaces
  BY CacheAssumption DEF Init
<1>1. TypeOK
  BY <1>0, IdleIsJob DEF Init, TypeOK, Hashes, RowHashes, Occupied, Row
<1>2. JobInv
  BY IdleIsJob DEF Init, JobInv, JobOK, PermitSteps, StoreSteps
<1> QED BY <1>1, <1>2 DEF TypeInv

\* What may happen is settled at the start.
LEMMA SameMay == [Next]_vars => may' = may
<1> USE DEF rest, histVars
<1>1. ASSUME NEW w \in Workers, Lookup(w) PROVE may' = may
  BY <1>1 DEF Lookup, Begin, BeginWithoutDb, Evict, EvictFails, SelectMisses, SelectFinds,
     BlobMissing, Replay, Replied
<1>2. ASSUME NEW w \in Workers, Forward(w) PROVE may' = may
  BY <1>2 DEF Forward, NothingToReduce, StoreRaw, WriteRaw, WriteRawFails, RegisterRaw,
     RegisterRawFails, AcquirePermit, NoPermit, NotStorable, Storable
<1>3. ASSUME NEW w \in Workers, Store(w) PROVE may' = may
  BY <1>3 DEF Store, EvictAgain, LimitsUnreadable, CountEntries, ReplaceExisting, OverLimit,
     CreateNew, KeepExisting, CreateFails, WriteNew, WriteNewFails, Stamp, SelectKnown,
     RegisterHash, AddRef, PutRow, InsertFails, Undo
<1>4. ASSUME Cleanup PROVE may' = may
  BY <1>4 DEF Cleanup, ScanKnown, ScanRows, ScanRefs, ListDirectory, DeleteOrphan, CleanupDone
<1>5. ASSUME OpenElsewhere \/ Clear \/ EditProject \/ Expire \/ Crash PROVE may' = may
  BY <1>5 DEF OpenElsewhere, Clear, EditProject, Expire, Crash
<1> QED BY <1>1, <1>2, <1>3, <1>4, <1>5 DEF Next, vars

\* Every step keeps the types.
LEMMA NextTypes == TypeInv /\ [Next]_vars => TypeInv'
<1> SUFFICES ASSUME TypeInv, [Next]_vars PROVE TypeInv'
  OBVIOUS
<1>0. may' = may
  BY SameMay
<1> USE <1>0, IdleIsJob, RowHashesAreHashes DEF TypeInv
<1>1. ASSUME NEW w \in Workers, Begin(w) PROVE TypeInv'
  <2>1. PICK s \in Slots, d \in Domains :
           Become(w, [Idle EXCEPT !.pc = "evict", !.slot = s, !.domain = d, !.seen = workspace])
    BY <1>1 DEF Begin
  <2> DEFINE j == [Idle EXCEPT !.pc = "evict", !.slot = s, !.domain = d, !.seen = workspace]
  <2>2. j \in Job /\ JobOK(j)
    BY <1>1 DEF Begin, Goto, TypeOK, JobInv, JobOK, Job, Steps, PermitSteps, StoreSteps, dbVars, fileVars, rest, cleanVars, histVars
  <2>3. job' \in [Workers -> Job] /\ JobInv'
    BY <1>1, <2>1, <2>2, JobUpdate DEF Begin, Goto
  <2> QED
    BY <1>1, <2>3 DEF Begin, TypeOK, Hashes, dbVars, fileVars, rest, cleanVars, histVars
<1>2. ASSUME NEW w \in Workers, BeginWithoutDb(w) PROVE TypeInv'
  <2>1. PICK s \in Slots, d \in Domains :
           Become(w, [Idle EXCEPT !.pc = "reduce", !.slot = s, !.domain = d, !.seen = workspace])
    BY <1>2 DEF BeginWithoutDb
  <2> DEFINE j == [Idle EXCEPT !.pc = "reduce", !.slot = s, !.domain = d, !.seen = workspace]
  <2>2. j \in Job /\ JobOK(j)
    BY <1>2 DEF BeginWithoutDb, Goto, TypeOK, JobInv, JobOK, Job, Steps, PermitSteps, StoreSteps, dbVars, fileVars, rest, cleanVars, histVars
  <2>3. job' \in [Workers -> Job] /\ JobInv'
    BY <1>2, <2>1, <2>2, JobUpdate DEF BeginWithoutDb, Goto
  <2> QED
    BY <1>2, <2>3 DEF BeginWithoutDb, TypeOK, Hashes, dbVars, fileVars, rest, cleanVars, histVars
<1>3. ASSUME NEW w \in Workers, Evict(w) PROVE TypeInv'
  BY <1>3 DEF Evict, Goto, Finish, Become, TypeOK, JobInv, JobOK, Job, Steps, PermitSteps, StoreSteps, dbVars, fileVars, rest, cleanVars, histVars, Unexpired, Row
<1>4. ASSUME NEW w \in Workers, EvictFails(w) PROVE TypeInv'
  BY <1>4 DEF EvictFails, Goto, Finish, Become, TypeOK, JobInv, JobOK, Job, Steps, PermitSteps, StoreSteps, dbVars, fileVars, rest, cleanVars, histVars
<1>5. ASSUME NEW w \in Workers, SelectMisses(w) PROVE TypeInv'
  BY <1>5 DEF SelectMisses, Goto, Finish, Become, TypeOK, JobInv, JobOK, Job, Steps, PermitSteps, StoreSteps, dbVars, fileVars, rest, cleanVars, histVars
<1>6. ASSUME NEW w \in Workers, SelectFinds(w) PROVE TypeInv'
  <2> DEFINE j == [job[w] EXCEPT !.pc = "read", !.hash = rows[job[w].slot].hash]
  <2>0. rows[job[w].slot] \in Row
    BY <1>6 DEF SelectFinds, Matches, TypeOK, Job
  <2>1. j \in Job /\ JobOK(j)
    BY <2>0, <1>6 DEF SelectFinds, Goto, TypeOK, JobInv, JobOK, Job, Steps, PermitSteps, StoreSteps, dbVars, fileVars, rest, cleanVars, histVars, Matches, Row, Hashes
  <2>2. job' \in [Workers -> Job] /\ JobInv'
    BY <1>6, <2>0, <2>1, JobUpdate DEF SelectFinds, Goto
  <2> QED
    BY <1>6, <2>2 DEF SelectFinds, TypeOK, Hashes, dbVars, fileVars, rest, cleanVars, histVars, Matches, Row, Hashes
<1>7. ASSUME NEW w \in Workers, BlobMissing(w) PROVE TypeInv'
  <2> DEFINE j == [job[w] EXCEPT !.pc = "reduce", !.hash = NoHash]
  <2>1. j \in Job /\ JobOK(j)
    BY <1>7 DEF BlobMissing, Goto, TypeOK, JobInv, JobOK, Job, Steps, PermitSteps, StoreSteps, dbVars, fileVars, rest, cleanVars, histVars
  <2>2. job' \in [Workers -> Job] /\ JobInv'
    BY <1>7, <2>1, JobUpdate DEF BlobMissing, Goto
  <2> QED
    BY <1>7, <2>2 DEF BlobMissing, TypeOK, Hashes, dbVars, fileVars, rest, cleanVars, histVars
<1>8. ASSUME NEW w \in Workers, Replay(w) PROVE TypeInv'
  <2> DEFINE j == [job[w] EXCEPT !.pc = "hit", !.bytes = blobs[job[w].hash]]
  <2>1. j \in Job /\ JobOK(j)
    BY <1>8 DEF Replay, Goto, TypeOK, JobInv, JobOK, Job, Steps, PermitSteps, StoreSteps, dbVars, fileVars, rest, cleanVars, histVars
  <2>2. job' \in [Workers -> Job] /\ JobInv'
    BY <1>8, <2>1, JobUpdate DEF Replay, Goto
  <2> QED
    BY <1>8, <2>2 DEF Replay, TypeOK, Hashes, dbVars, fileVars, rest, cleanVars, histVars
<1>9. ASSUME NEW w \in Workers, Replied(w) PROVE TypeInv'
  BY <1>9 DEF Replied, Goto, Finish, Become, TypeOK, JobInv, JobOK, Job, Steps, PermitSteps, StoreSteps, dbVars, fileVars, rest, cleanVars, histVars
<1>10. ASSUME NEW w \in Workers, NothingToReduce(w) PROVE TypeInv'
  BY <1>10 DEF NothingToReduce, Goto, Finish, Become, TypeOK, JobInv, JobOK, Job, Steps, PermitSteps, StoreSteps, dbVars, fileVars, rest, cleanVars, histVars
<1>11. ASSUME NEW w \in Workers, StoreRaw(w) PROVE TypeInv'
  <2>1. PICK h \in Outputs :
           Become(w, [job[w] EXCEPT !.pc = "write_raw", !.hash = h])
    BY <1>11 DEF StoreRaw
  <2> DEFINE j == [job[w] EXCEPT !.pc = "write_raw", !.hash = h]
  <2>2. j \in Job /\ JobOK(j)
    BY <1>11 DEF StoreRaw, Goto, TypeOK, JobInv, JobOK, Job, Steps, PermitSteps, StoreSteps, dbVars, fileVars, rest, cleanVars, histVars, Hashes
  <2>3. job' \in [Workers -> Job] /\ JobInv'
    BY <1>11, <2>1, <2>2, JobUpdate DEF StoreRaw, Goto
  <2> QED
    BY <1>11, <2>3 DEF StoreRaw, TypeOK, Hashes, dbVars, fileVars, rest, cleanVars, histVars, Hashes
<1>12. ASSUME NEW w \in Workers, WriteRaw(w) PROVE TypeInv'
  BY <1>12 DEF WriteRaw, Goto, Finish, Become, TypeOK, JobInv, JobOK, Job, Steps, PermitSteps, StoreSteps, dbVars, fileVars, rest, cleanVars, histVars, WriteAll
<1>13. ASSUME NEW w \in Workers, WriteRawFails(w) PROVE TypeInv'
  BY <1>13 DEF WriteRawFails, Goto, Finish, Become, TypeOK, JobInv, JobOK, Job, Steps, PermitSteps, StoreSteps, dbVars, fileVars, rest, cleanVars, histVars
<1>14. ASSUME NEW w \in Workers, RegisterRaw(w) PROVE TypeInv'
  BY <1>14 DEF RegisterRaw, Goto, Finish, Become, TypeOK, JobInv, JobOK, Job, Steps, PermitSteps, StoreSteps, dbVars, fileVars, rest, cleanVars, histVars
<1>15. ASSUME NEW w \in Workers, RegisterRawFails(w) PROVE TypeInv'
  BY <1>15 DEF RegisterRawFails, Goto, Finish, Become, TypeOK, JobInv, JobOK, Job, Steps, PermitSteps, StoreSteps, dbVars, fileVars, rest, cleanVars, histVars
<1>16. ASSUME NEW w \in Workers, AcquirePermit(w) PROVE TypeInv'
  BY <1>16 DEF AcquirePermit, Goto, Finish, Become, TypeOK, JobInv, JobOK, Job, Steps, PermitSteps, StoreSteps, dbVars, fileVars, rest, cleanVars, histVars
<1>17. ASSUME NEW w \in Workers, NoPermit(w) PROVE TypeInv'
  BY <1>17 DEF NoPermit, Goto, Finish, Become, TypeOK, JobInv, JobOK, Job, Steps, PermitSteps, StoreSteps, dbVars, fileVars, rest, cleanVars, histVars
<1>18. ASSUME NEW w \in Workers, NotStorable(w) PROVE TypeInv'
  BY <1>18 DEF NotStorable, Goto, Finish, Become, TypeOK, JobInv, JobOK, Job, Steps, PermitSteps, StoreSteps, dbVars, fileVars, rest, cleanVars, histVars
<1>19. ASSUME NEW w \in Workers, Storable(w) PROVE TypeInv'
  <2>1. PICK h \in Answers :
           Become(w, [job[w] EXCEPT !.pc = "evict_again", !.hash = h])
    BY <1>19 DEF Storable
  <2> DEFINE j == [job[w] EXCEPT !.pc = "evict_again", !.hash = h]
  <2>2. j \in Job /\ JobOK(j)
    BY <1>19 DEF Storable, Goto, TypeOK, JobInv, JobOK, Job, Steps, PermitSteps, StoreSteps, dbVars, fileVars, rest, cleanVars, histVars, Hashes
  <2>3. job' \in [Workers -> Job] /\ JobInv'
    BY <1>19, <2>1, <2>2, JobUpdate DEF Storable, Goto
  <2> QED
    BY <1>19, <2>3 DEF Storable, TypeOK, Hashes, dbVars, fileVars, rest, cleanVars, histVars, Hashes
<1>20. ASSUME NEW w \in Workers, EvictAgain(w) PROVE TypeInv'
  BY <1>20 DEF EvictAgain, Goto, Finish, Become, TypeOK, JobInv, JobOK, Job, Steps, PermitSteps, StoreSteps, dbVars, fileVars, rest, cleanVars, histVars, Unexpired, Row
<1>21. ASSUME NEW w \in Workers, LimitsUnreadable(w) PROVE TypeInv'
  <2> DEFINE j == [job[w] EXCEPT !.pc = "create"]
  <2>1. Become(w, Idle) \/ (Become(w, j) /\ TRUE)
    BY <1>21 DEF LimitsUnreadable, Goto, Finish
  <2>2. job[w].pc \in {"evict_again"}
    BY <1>21 DEF LimitsUnreadable, Goto, Finish
  <2>3. job' \in [Workers -> Job] /\ JobInv'
    <3>1. CASE Become(w, Idle)
      <4>1. JobOK(Idle)
        BY DEF JobOK, PermitSteps, StoreSteps
      <4> QED BY <3>1, <4>1, JobUpdate
    <3>2. CASE Become(w, j) /\ TRUE
      <4>1. j \in Job
        BY DEF TypeOK, Job, Steps
      <4>2. JobOK(j)
        BY <2>2, <3>2 DEF TypeOK, JobInv, JobOK, Job, PermitSteps, StoreSteps
      <4> QED BY <3>2, <4>1, <4>2, JobUpdate
    <3> QED BY <2>1, <3>1, <3>2
  <2> QED
    BY <1>21, <2>3 DEF LimitsUnreadable, TypeOK, dbVars, fileVars, rest, cleanVars, histVars
<1>22. ASSUME NEW w \in Workers, CountEntries(w) PROVE TypeInv'
  BY <1>22 DEF CountEntries, Goto, Finish, Become, TypeOK, JobInv, JobOK, Job, Steps, PermitSteps, StoreSteps, dbVars, fileVars, rest, cleanVars, histVars
<1>23. ASSUME NEW w \in Workers, ReplaceExisting(w) PROVE TypeInv'
  BY <1>23 DEF ReplaceExisting, Goto, Finish, Become, TypeOK, JobInv, JobOK, Job, Steps, PermitSteps, StoreSteps, dbVars, fileVars, rest, cleanVars, histVars
<1>24. ASSUME NEW w \in Workers, OverLimit(w) PROVE TypeInv'
  BY <1>24 DEF OverLimit, Goto, Finish, Become, TypeOK, JobInv, JobOK, Job, Steps, PermitSteps, StoreSteps, dbVars, fileVars, rest, cleanVars, histVars
<1>25. ASSUME NEW w \in Workers, CreateNew(w) PROVE TypeInv'
  <2> DEFINE j == [job[w] EXCEPT !.pc = "write_new", !.made = TRUE]
  <2>1. j \in Job /\ JobOK(j)
    BY <1>25 DEF CreateNew, Goto, TypeOK, JobInv, JobOK, Job, Steps, PermitSteps, StoreSteps, dbVars, fileVars, rest, cleanVars, histVars
  <2>2. job' \in [Workers -> Job] /\ JobInv'
    BY <1>25, <2>1, JobUpdate DEF CreateNew, Goto
  <2> QED
    BY <1>25, <2>2 DEF CreateNew, TypeOK, Hashes, dbVars, fileVars, rest, cleanVars, histVars
<1>26. ASSUME NEW w \in Workers, KeepExisting(w) PROVE TypeInv'
  BY <1>26 DEF KeepExisting, Goto, Finish, Become, TypeOK, JobInv, JobOK, Job, Steps, PermitSteps, StoreSteps, dbVars, fileVars, rest, cleanVars, histVars
<1>27. ASSUME NEW w \in Workers, CreateFails(w) PROVE TypeInv'
  BY <1>27 DEF CreateFails, Goto, Finish, Become, TypeOK, JobInv, JobOK, Job, Steps, PermitSteps, StoreSteps, dbVars, fileVars, rest, cleanVars, histVars
<1>28. ASSUME NEW w \in Workers, WriteNew(w) PROVE TypeInv'
  BY <1>28 DEF WriteNew, Goto, Finish, Become, TypeOK, JobInv, JobOK, Job, Steps, PermitSteps, StoreSteps, dbVars, fileVars, rest, cleanVars, histVars, WriteAll
<1>29. ASSUME NEW w \in Workers, WriteNewFails(w) PROVE TypeInv'
  BY <1>29 DEF WriteNewFails, Goto, Finish, Become, TypeOK, JobInv, JobOK, Job, Steps, PermitSteps, StoreSteps, dbVars, fileVars, rest, cleanVars, histVars
<1>30. ASSUME NEW w \in Workers, Stamp(w) PROVE TypeInv'
  <2> DEFINE j == [job[w] EXCEPT !.pc = "known", !.stamp = workspace]
  <2>1. j \in Job /\ JobOK(j)
    BY <1>30 DEF Stamp, Goto, TypeOK, JobInv, JobOK, Job, Steps, PermitSteps, StoreSteps, dbVars, fileVars, rest, cleanVars, histVars
  <2>2. job' \in [Workers -> Job] /\ JobInv'
    BY <1>30, <2>1, JobUpdate DEF Stamp, Goto
  <2> QED
    BY <1>30, <2>2 DEF Stamp, TypeOK, Hashes, dbVars, fileVars, rest, cleanVars, histVars
<1>31. ASSUME NEW w \in Workers, SelectKnown(w) PROVE TypeInv'
  <2> DEFINE j == [job[w] EXCEPT !.pc = "register", !.fresh = job[w].hash \notin known]
  <2>1. j \in Job /\ JobOK(j)
    BY <1>31 DEF SelectKnown, Goto, TypeOK, JobInv, JobOK, Job, Steps, PermitSteps, StoreSteps, dbVars, fileVars, rest, cleanVars, histVars
  <2>2. job' \in [Workers -> Job] /\ JobInv'
    BY <1>31, <2>1, JobUpdate DEF SelectKnown, Goto
  <2> QED
    BY <1>31, <2>2 DEF SelectKnown, TypeOK, Hashes, dbVars, fileVars, rest, cleanVars, histVars
<1>32. ASSUME NEW w \in Workers, RegisterHash(w) PROVE TypeInv'
  <2> DEFINE j == [job[w] EXCEPT !.pc = IF job[w].fresh THEN "ref" ELSE "row"]
  <2>1. j \in Job /\ JobOK(j)
    BY <1>32 DEF RegisterHash, Goto, TypeOK, JobInv, JobOK, Job, Steps, PermitSteps, StoreSteps, dbVars, fileVars, rest, cleanVars, histVars
  <2>2. job' \in [Workers -> Job] /\ JobInv'
    BY <1>32, <2>1, JobUpdate DEF RegisterHash, Goto
  <2> QED
    BY <1>32, <2>2 DEF RegisterHash, TypeOK, Hashes, dbVars, fileVars, rest, cleanVars, histVars, Goto, JobInv, JobOK, PermitSteps, StoreSteps
<1>33. ASSUME NEW w \in Workers, AddRef(w) PROVE TypeInv'
  <2> DEFINE j == [job[w] EXCEPT !.pc = "row"]
  <2>1. j \in Job /\ JobOK(j)
    BY <1>33 DEF AddRef, Goto, TypeOK, JobInv, JobOK, Job, Steps, PermitSteps, StoreSteps, dbVars, fileVars, rest, cleanVars, histVars
  <2>2. job' \in [Workers -> Job] /\ JobInv'
    BY <1>33, <2>1, JobUpdate DEF AddRef, Goto
  <2> QED
    BY <1>33, <2>2 DEF AddRef, TypeOK, Hashes, dbVars, fileVars, rest, cleanVars, histVars, Goto, JobInv, JobOK, PermitSteps, StoreSteps
<1>34. ASSUME NEW w \in Workers, PutRow(w) PROVE TypeInv'
  BY <1>34 DEF PutRow, Goto, Finish, Become, TypeOK, JobInv, JobOK, Job, Steps, PermitSteps, StoreSteps, dbVars, fileVars, rest, cleanVars, histVars, Row
<1>35. ASSUME NEW w \in Workers, InsertFails(w) PROVE TypeInv'
  <2> DEFINE j == [job[w] EXCEPT !.pc = "undo"]
  <2>1. Become(w, Idle) \/ (Become(w, j) /\ job[w].made)
    BY <1>35 DEF InsertFails, Goto, Finish
  <2>2. job[w].pc \in {"stamp", "known", "register", "ref", "row"}
    BY <1>35 DEF InsertFails, Goto, Finish
  <2>3. job' \in [Workers -> Job] /\ JobInv'
    <3>1. CASE Become(w, Idle)
      <4>1. JobOK(Idle)
        BY DEF JobOK, PermitSteps, StoreSteps
      <4> QED BY <3>1, <4>1, JobUpdate
    <3>2. CASE Become(w, j) /\ job[w].made
      <4>1. j \in Job
        BY DEF TypeOK, Job, Steps
      <4>2. JobOK(j)
        BY <2>2, <3>2 DEF TypeOK, JobInv, JobOK, Job, PermitSteps, StoreSteps
      <4> QED BY <3>2, <4>1, <4>2, JobUpdate
    <3> QED BY <2>1, <3>1, <3>2
  <2> QED
    BY <1>35, <2>3 DEF InsertFails, TypeOK, dbVars, fileVars, rest, cleanVars, histVars
<1>36. ASSUME NEW w \in Workers, Undo(w) PROVE TypeInv'
  BY <1>36 DEF Undo, Goto, Finish, Become, TypeOK, JobInv, JobOK, Job, Steps, PermitSteps, StoreSteps, dbVars, fileVars, rest, cleanVars, histVars, DeleteAt
<1>37. CASE ScanKnown
  BY <1>37 DEF ScanKnown, TypeOK, JobInv, JobOK, Job, Steps, PermitSteps, StoreSteps, dbVars, fileVars, rest, cleanVars, histVars
<1>38. CASE ScanRows
  BY <1>38 DEF ScanRows, TypeOK, JobInv, JobOK, Job, Steps, PermitSteps, StoreSteps, dbVars, fileVars, rest, cleanVars, histVars
<1>39. CASE ScanRefs
  BY <1>39 DEF ScanRefs, TypeOK, JobInv, JobOK, Job, Steps, PermitSteps, StoreSteps, dbVars, fileVars, rest, cleanVars, histVars
<1>40. CASE ListDirectory
  BY <1>40 DEF ListDirectory, TypeOK, JobInv, JobOK, Job, Steps, PermitSteps, StoreSteps, dbVars, fileVars, rest, cleanVars, histVars
<1>41. CASE DeleteOrphan
  BY <1>41 DEF DeleteOrphan, TypeOK, JobInv, JobOK, Job, Steps, PermitSteps, StoreSteps, dbVars, fileVars, rest, cleanVars, histVars, DeleteAt
<1>42. CASE CleanupDone
  BY <1>42 DEF CleanupDone, TypeOK, JobInv, JobOK, Job, Steps, PermitSteps, StoreSteps, dbVars, fileVars, rest, cleanVars, histVars
<1>43. CASE OpenElsewhere
  BY <1>43 DEF OpenElsewhere, TypeOK, JobInv, JobOK, Job, Steps, PermitSteps, StoreSteps, dbVars, fileVars, rest, cleanVars, histVars
<1>44. CASE Clear
  BY <1>44 DEF Clear, TypeOK, JobInv, JobOK, Job, Steps, PermitSteps, StoreSteps, dbVars, fileVars, rest, cleanVars, histVars, Row
<1>45. CASE EditProject
  BY <1>45 DEF EditProject, TypeOK, JobInv, JobOK, Job, Steps, PermitSteps, StoreSteps, dbVars, fileVars, rest, cleanVars, histVars
<1>46. CASE Expire
  <2>1. ASSUME NEW s \in Slots, rows[s] # NoRow
        PROVE  [rows[s] EXCEPT !.old = TRUE] \in Row
    BY <2>1 DEF TypeOK, Row
  <2>2. rows' \in [Slots -> Row \cup {NoRow}]
    BY <1>46, <2>1 DEF Expire
  <2> QED
    BY <1>46, <2>2 DEF Expire, TypeOK, JobInv, JobOK, dbVars, fileVars, rest, cleanVars, histVars
<1>47. CASE Crash
  BY <1>47 DEF Crash, TypeOK, JobInv, JobOK, Job, Steps, PermitSteps, StoreSteps, dbVars, fileVars, rest, cleanVars, histVars
<1>48. CASE UNCHANGED vars
  BY <1>48 DEF vars, TypeOK, JobInv, JobOK, Job, Steps, PermitSteps, StoreSteps, dbVars, fileVars, rest, cleanVars, histVars
<1> QED
  BY <1>1, <1>2, <1>3, <1>4, <1>5, <1>6, <1>7, <1>8, <1>9, <1>10, <1>11,
     <1>12, <1>13, <1>14, <1>15, <1>16, <1>17, <1>18, <1>19, <1>20, <1>21,
     <1>22, <1>23, <1>24, <1>25, <1>26, <1>27, <1>28, <1>29, <1>30, <1>31,
     <1>32, <1>33, <1>34, <1>35, <1>36, <1>37, <1>38, <1>39, <1>40, <1>41,
     <1>42, <1>43, <1>44, <1>45, <1>46, <1>47, <1>48 DEF Next, Lookup,
     Forward, Store, Cleanup

\* TypeOK and JobInv together are inductive.
THEOREM CacheTypes == Spec => []TypeOK
<1>1. Spec => []TypeInv
  BY InitTypes, NextTypes, PTL DEF Spec
<1> QED BY <1>1, PTL DEF TypeInv

-----------------------------------------------------------------------------
(* Who owns a blob. *)

\* What a cleanup has left after its scans are hashes the cache introduced.
OwnInv == TypeInv /\ CleanerInv

\* No cleanup runs at the start.
LEMMA InitOwn == Init => OwnInv
BY InitTypes DEF Init, OwnInv, CleanerInv

\* The reference set only grows and the candidates only shrink.
LEMMA NextOwn == OwnInv /\ [Next]_vars => OwnInv'
<1> SUFFICES ASSUME OwnInv, [Next]_vars PROVE CleanerInv'
  BY NextTypes DEF OwnInv
<1>1. ASSUME NEW w \in Workers, Lookup(w) PROVE CleanerInv'
  BY <1>1 DEF Lookup, Begin, BeginWithoutDb, Evict, EvictFails, SelectMisses,
     SelectFinds, BlobMissing, Replay, Replied, dbVars, fileVars, rest,
     cleanVars, histVars, CleanerInv, OwnInv
<1>2. ASSUME NEW w \in Workers, Forward(w) PROVE CleanerInv'
  BY <1>2 DEF Forward, NothingToReduce, StoreRaw, WriteRaw, WriteRawFails,
     RegisterRaw, RegisterRawFails, AcquirePermit, NoPermit, NotStorable,
     Storable, dbVars, fileVars, rest, cleanVars, histVars, CleanerInv, OwnInv
<1>3. ASSUME NEW w \in Workers, Store(w) PROVE CleanerInv'
  BY <1>3 DEF Store, EvictAgain, LimitsUnreadable, CountEntries,
     ReplaceExisting, OverLimit, CreateNew, KeepExisting, CreateFails,
     WriteNew, WriteNewFails, Stamp, SelectKnown, RegisterHash, AddRef,
     PutRow, InsertFails, Undo, dbVars, fileVars, rest, cleanVars, histVars,
     CleanerInv, OwnInv
<1>4. CASE Cleanup
  BY <1>4 DEF Cleanup, ScanKnown, ScanRows, ScanRefs, ListDirectory,
     DeleteOrphan, CleanupDone, dbVars, fileVars, rest, cleanVars, histVars,
     CleanerInv, OwnInv
<1>5. CASE OpenElsewhere \/ Clear \/ EditProject \/ Expire \/ Crash \/ UNCHANGED vars
  BY <1>5 DEF OpenElsewhere, Clear, EditProject, Expire, Crash, vars, dbVars,
     fileVars, rest, cleanVars, histVars, CleanerInv, OwnInv
<1> QED
  BY <1>1, <1>2, <1>3, <1>4, <1>5 DEF Next

\* One step, one hash: it stays with the reducer, and its blob stays.
LEMMA OwnedStays ==
  ASSUME OwnInv, [Next]_vars, NEW h \in Hashes, ReductionOwned(h), blobs[h] # "none"
  PROVE  ReductionOwned(h)' /\ blobs'[h] # "none"
<1> DEFINE Stays == ReductionOwned(h)' /\ blobs'[h] # "none"
<1> SUFFICES Stays
  OBVIOUS
<1> USE IdleIsJob DEF OwnInv, TypeInv
<1>1. ASSUME NEW w \in Workers, Begin(w) PROVE Stays
  BY <1>1 DEF Begin, Goto, Finish, Become, ReductionOwned, Storing,
     Backfilled, TypeOK, JobInv, JobOK, Job, Steps, PermitSteps, StoreSteps,
     dbVars, fileVars, rest, cleanVars, histVars
<1>2. ASSUME NEW w \in Workers, BeginWithoutDb(w) PROVE Stays
  BY <1>2 DEF BeginWithoutDb, Goto, Finish, Become, ReductionOwned, Storing,
     Backfilled, TypeOK, JobInv, JobOK, Job, Steps, PermitSteps, StoreSteps,
     dbVars, fileVars, rest, cleanVars, histVars
<1>3. ASSUME NEW w \in Workers, Evict(w) PROVE Stays
  BY <1>3 DEF Evict, Goto, Finish, Become, ReductionOwned, Storing,
     Backfilled, TypeOK, JobInv, JobOK, Job, Steps, PermitSteps, StoreSteps,
     dbVars, fileVars, rest, cleanVars, histVars
<1>4. ASSUME NEW w \in Workers, EvictFails(w) PROVE Stays
  BY <1>4 DEF EvictFails, Goto, Finish, Become, ReductionOwned, Storing,
     Backfilled, TypeOK, JobInv, JobOK, Job, Steps, PermitSteps, StoreSteps,
     dbVars, fileVars, rest, cleanVars, histVars
<1>5. ASSUME NEW w \in Workers, SelectMisses(w) PROVE Stays
  BY <1>5 DEF SelectMisses, Goto, Finish, Become, ReductionOwned, Storing,
     Backfilled, TypeOK, JobInv, JobOK, Job, Steps, PermitSteps, StoreSteps,
     dbVars, fileVars, rest, cleanVars, histVars
<1>6. ASSUME NEW w \in Workers, SelectFinds(w) PROVE Stays
  BY <1>6 DEF SelectFinds, Goto, Finish, Become, ReductionOwned, Storing,
     Backfilled, TypeOK, JobInv, JobOK, Job, Steps, PermitSteps, StoreSteps,
     dbVars, fileVars, rest, cleanVars, histVars
<1>7. ASSUME NEW w \in Workers, BlobMissing(w) PROVE Stays
  BY <1>7 DEF BlobMissing, Goto, Finish, Become, ReductionOwned, Storing,
     Backfilled, TypeOK, JobInv, JobOK, Job, Steps, PermitSteps, StoreSteps,
     dbVars, fileVars, rest, cleanVars, histVars
<1>8. ASSUME NEW w \in Workers, Replay(w) PROVE Stays
  BY <1>8 DEF Replay, Goto, Finish, Become, ReductionOwned, Storing,
     Backfilled, TypeOK, JobInv, JobOK, Job, Steps, PermitSteps, StoreSteps,
     dbVars, fileVars, rest, cleanVars, histVars
<1>9. ASSUME NEW w \in Workers, Replied(w) PROVE Stays
  BY <1>9 DEF Replied, Goto, Finish, Become, ReductionOwned, Storing,
     Backfilled, TypeOK, JobInv, JobOK, Job, Steps, PermitSteps, StoreSteps,
     dbVars, fileVars, rest, cleanVars, histVars
<1>10. ASSUME NEW w \in Workers, NothingToReduce(w) PROVE Stays
  BY <1>10 DEF NothingToReduce, Goto, Finish, Become, ReductionOwned, Storing,
     Backfilled, TypeOK, JobInv, JobOK, Job, Steps, PermitSteps, StoreSteps,
     dbVars, fileVars, rest, cleanVars, histVars
<1>11. ASSUME NEW w \in Workers, StoreRaw(w) PROVE Stays
  BY <1>11 DEF StoreRaw, Goto, Finish, Become, ReductionOwned, Storing,
     Backfilled, TypeOK, JobInv, JobOK, Job, Steps, PermitSteps, StoreSteps,
     dbVars, fileVars, rest, cleanVars, histVars
<1>12. ASSUME NEW w \in Workers, WriteRaw(w) PROVE Stays
  BY <1>12 DEF WriteRaw, Goto, Finish, Become, ReductionOwned, Storing,
     Backfilled, TypeOK, JobInv, JobOK, Job, Steps, PermitSteps, StoreSteps,
     dbVars, fileVars, rest, cleanVars, histVars, WriteAll
<1>13. ASSUME NEW w \in Workers, WriteRawFails(w) PROVE Stays
  BY <1>13 DEF WriteRawFails, Goto, Finish, Become, ReductionOwned, Storing,
     Backfilled, TypeOK, JobInv, JobOK, Job, Steps, PermitSteps, StoreSteps,
     dbVars, fileVars, rest, cleanVars, histVars
<1>14. ASSUME NEW w \in Workers, RegisterRaw(w) PROVE Stays
  BY <1>14 DEF RegisterRaw, Goto, Finish, Become, ReductionOwned, Storing,
     Backfilled, TypeOK, JobInv, JobOK, Job, Steps, PermitSteps, StoreSteps,
     dbVars, fileVars, rest, cleanVars, histVars
<1>15. ASSUME NEW w \in Workers, RegisterRawFails(w) PROVE Stays
  BY <1>15 DEF RegisterRawFails, Goto, Finish, Become, ReductionOwned,
     Storing, Backfilled, TypeOK, JobInv, JobOK, Job, Steps, PermitSteps,
     StoreSteps, dbVars, fileVars, rest, cleanVars, histVars
<1>16. ASSUME NEW w \in Workers, AcquirePermit(w) PROVE Stays
  BY <1>16 DEF AcquirePermit, Goto, Finish, Become, ReductionOwned, Storing,
     Backfilled, TypeOK, JobInv, JobOK, Job, Steps, PermitSteps, StoreSteps,
     dbVars, fileVars, rest, cleanVars, histVars
<1>17. ASSUME NEW w \in Workers, NoPermit(w) PROVE Stays
  BY <1>17 DEF NoPermit, Goto, Finish, Become, ReductionOwned, Storing,
     Backfilled, TypeOK, JobInv, JobOK, Job, Steps, PermitSteps, StoreSteps,
     dbVars, fileVars, rest, cleanVars, histVars
<1>18. ASSUME NEW w \in Workers, NotStorable(w) PROVE Stays
  BY <1>18 DEF NotStorable, Goto, Finish, Become, ReductionOwned, Storing,
     Backfilled, TypeOK, JobInv, JobOK, Job, Steps, PermitSteps, StoreSteps,
     dbVars, fileVars, rest, cleanVars, histVars
<1>19. ASSUME NEW w \in Workers, Storable(w) PROVE Stays
  BY <1>19 DEF Storable, Goto, Finish, Become, ReductionOwned, Storing,
     Backfilled, TypeOK, JobInv, JobOK, Job, Steps, PermitSteps, StoreSteps,
     dbVars, fileVars, rest, cleanVars, histVars
<1>20. ASSUME NEW w \in Workers, EvictAgain(w) PROVE Stays
  BY <1>20 DEF EvictAgain, Goto, Finish, Become, ReductionOwned, Storing,
     Backfilled, TypeOK, JobInv, JobOK, Job, Steps, PermitSteps, StoreSteps,
     dbVars, fileVars, rest, cleanVars, histVars
<1>21. ASSUME NEW w \in Workers, LimitsUnreadable(w) PROVE Stays
  BY <1>21 DEF LimitsUnreadable, Goto, Finish, Become, ReductionOwned,
     Storing, Backfilled, TypeOK, JobInv, JobOK, Job, Steps, PermitSteps,
     StoreSteps, dbVars, fileVars, rest, cleanVars, histVars
<1>22. ASSUME NEW w \in Workers, CountEntries(w) PROVE Stays
  BY <1>22 DEF CountEntries, Goto, Finish, Become, ReductionOwned, Storing,
     Backfilled, TypeOK, JobInv, JobOK, Job, Steps, PermitSteps, StoreSteps,
     dbVars, fileVars, rest, cleanVars, histVars
<1>23. ASSUME NEW w \in Workers, ReplaceExisting(w) PROVE Stays
  BY <1>23 DEF ReplaceExisting, Goto, Finish, Become, ReductionOwned, Storing,
     Backfilled, TypeOK, JobInv, JobOK, Job, Steps, PermitSteps, StoreSteps,
     dbVars, fileVars, rest, cleanVars, histVars
<1>24. ASSUME NEW w \in Workers, OverLimit(w) PROVE Stays
  BY <1>24 DEF OverLimit, Goto, Finish, Become, ReductionOwned, Storing,
     Backfilled, TypeOK, JobInv, JobOK, Job, Steps, PermitSteps, StoreSteps,
     dbVars, fileVars, rest, cleanVars, histVars
<1>25. ASSUME NEW w \in Workers, CreateNew(w) PROVE Stays
  BY <1>25 DEF CreateNew, Goto, Finish, Become, ReductionOwned, Storing,
     Backfilled, TypeOK, JobInv, JobOK, Job, Steps, PermitSteps, StoreSteps,
     dbVars, fileVars, rest, cleanVars, histVars
<1>26. ASSUME NEW w \in Workers, KeepExisting(w) PROVE Stays
  BY <1>26 DEF KeepExisting, Goto, Finish, Become, ReductionOwned, Storing,
     Backfilled, TypeOK, JobInv, JobOK, Job, Steps, PermitSteps, StoreSteps,
     dbVars, fileVars, rest, cleanVars, histVars
<1>27. ASSUME NEW w \in Workers, CreateFails(w) PROVE Stays
  BY <1>27 DEF CreateFails, Goto, Finish, Become, ReductionOwned, Storing,
     Backfilled, TypeOK, JobInv, JobOK, Job, Steps, PermitSteps, StoreSteps,
     dbVars, fileVars, rest, cleanVars, histVars
<1>28. ASSUME NEW w \in Workers, WriteNew(w) PROVE Stays
  BY <1>28 DEF WriteNew, Goto, Finish, Become, ReductionOwned, Storing,
     Backfilled, TypeOK, JobInv, JobOK, Job, Steps, PermitSteps, StoreSteps,
     dbVars, fileVars, rest, cleanVars, histVars, WriteAll
<1>29. ASSUME NEW w \in Workers, WriteNewFails(w) PROVE Stays
  BY <1>29 DEF WriteNewFails, Goto, Finish, Become, ReductionOwned, Storing,
     Backfilled, TypeOK, JobInv, JobOK, Job, Steps, PermitSteps, StoreSteps,
     dbVars, fileVars, rest, cleanVars, histVars
<1>30. ASSUME NEW w \in Workers, Stamp(w) PROVE Stays
  BY <1>30 DEF Stamp, Goto, Finish, Become, ReductionOwned, Storing,
     Backfilled, TypeOK, JobInv, JobOK, Job, Steps, PermitSteps, StoreSteps,
     dbVars, fileVars, rest, cleanVars, histVars
<1>31. ASSUME NEW w \in Workers, SelectKnown(w) PROVE Stays
  BY <1>31 DEF SelectKnown, Goto, Finish, Become, ReductionOwned, Storing,
     Backfilled, TypeOK, JobInv, JobOK, Job, Steps, PermitSteps, StoreSteps,
     dbVars, fileVars, rest, cleanVars, histVars
<1>32. ASSUME NEW w \in Workers, RegisterHash(w) PROVE Stays
  BY <1>32 DEF RegisterHash, Goto, Finish, Become, ReductionOwned, Storing,
     Backfilled, TypeOK, JobInv, JobOK, Job, Steps, PermitSteps, StoreSteps,
     dbVars, fileVars, rest, cleanVars, histVars
<1>33. ASSUME NEW w \in Workers, AddRef(w) PROVE Stays
  BY <1>33 DEF AddRef, Goto, Finish, Become, ReductionOwned, Storing,
     Backfilled, TypeOK, JobInv, JobOK, Job, Steps, PermitSteps, StoreSteps,
     dbVars, fileVars, rest, cleanVars, histVars
<1>34. ASSUME NEW w \in Workers, PutRow(w) PROVE Stays
  BY <1>34 DEF PutRow, Goto, Finish, Become, ReductionOwned, Storing,
     Backfilled, TypeOK, JobInv, JobOK, Job, Steps, PermitSteps, StoreSteps,
     dbVars, fileVars, rest, cleanVars, histVars
<1>35. ASSUME NEW w \in Workers, InsertFails(w) PROVE Stays
  BY <1>35 DEF InsertFails, Goto, Finish, Become, ReductionOwned, Storing,
     Backfilled, TypeOK, JobInv, JobOK, Job, Steps, PermitSteps, StoreSteps,
     dbVars, fileVars, rest, cleanVars, histVars
<1>36. ASSUME NEW w \in Workers, Undo(w) PROVE Stays
  BY <1>36 DEF Undo, Goto, Finish, Become, ReductionOwned, Storing,
     Backfilled, TypeOK, JobInv, JobOK, Job, Steps, PermitSteps, StoreSteps,
     dbVars, fileVars, rest, cleanVars, histVars, DeleteAt
<1>37. CASE ScanKnown
  BY <1>37 DEF ScanKnown, Goto, Finish, Become, ReductionOwned, Storing,
     Backfilled, TypeOK, JobInv, JobOK, Job, Steps, PermitSteps, StoreSteps,
     dbVars, fileVars, rest, cleanVars, histVars
<1>38. CASE ScanRows
  BY <1>38 DEF ScanRows, Goto, Finish, Become, ReductionOwned, Storing,
     Backfilled, TypeOK, JobInv, JobOK, Job, Steps, PermitSteps, StoreSteps,
     dbVars, fileVars, rest, cleanVars, histVars
<1>39. CASE ScanRefs
  BY <1>39 DEF ScanRefs, Goto, Finish, Become, ReductionOwned, Storing,
     Backfilled, TypeOK, JobInv, JobOK, Job, Steps, PermitSteps, StoreSteps,
     dbVars, fileVars, rest, cleanVars, histVars
<1>40. CASE ListDirectory
  BY <1>40 DEF ListDirectory, Goto, Finish, Become, ReductionOwned, Storing,
     Backfilled, TypeOK, JobInv, JobOK, Job, Steps, PermitSteps, StoreSteps,
     dbVars, fileVars, rest, cleanVars, histVars
<1>41. CASE DeleteOrphan
  BY <1>41 DEF DeleteOrphan, Goto, Finish, Become, ReductionOwned, Storing,
     Backfilled, TypeOK, JobInv, JobOK, Job, Steps, PermitSteps, StoreSteps,
     dbVars, fileVars, rest, cleanVars, histVars, DeleteAt, CleanerInv
<1>42. CASE CleanupDone
  BY <1>42 DEF CleanupDone, Goto, Finish, Become, ReductionOwned, Storing,
     Backfilled, TypeOK, JobInv, JobOK, Job, Steps, PermitSteps, StoreSteps,
     dbVars, fileVars, rest, cleanVars, histVars
<1>43. CASE OpenElsewhere
  BY <1>43 DEF OpenElsewhere, Goto, Finish, Become, ReductionOwned, Storing,
     Backfilled, TypeOK, JobInv, JobOK, Job, Steps, PermitSteps, StoreSteps,
     dbVars, fileVars, rest, cleanVars, histVars
<1>44. CASE Clear
  BY <1>44 DEF Clear, Goto, Finish, Become, ReductionOwned, Storing,
     Backfilled, TypeOK, JobInv, JobOK, Job, Steps, PermitSteps, StoreSteps,
     dbVars, fileVars, rest, cleanVars, histVars
<1>45. CASE EditProject
  BY <1>45 DEF EditProject, Goto, Finish, Become, ReductionOwned, Storing,
     Backfilled, TypeOK, JobInv, JobOK, Job, Steps, PermitSteps, StoreSteps,
     dbVars, fileVars, rest, cleanVars, histVars
<1>46. CASE Expire
  BY <1>46 DEF Expire, Goto, Finish, Become, ReductionOwned, Storing,
     Backfilled, TypeOK, JobInv, JobOK, Job, Steps, PermitSteps, StoreSteps,
     dbVars, fileVars, rest, cleanVars, histVars
<1>47. CASE Crash
  BY <1>47 DEF Crash, Goto, Finish, Become, ReductionOwned, Storing,
     Backfilled, TypeOK, JobInv, JobOK, Job, Steps, PermitSteps, StoreSteps,
     dbVars, fileVars, rest, cleanVars, histVars
<1>48. CASE UNCHANGED vars
  BY <1>48 DEF vars, ReductionOwned, Storing
<1> QED
  BY <1>1, <1>2, <1>3, <1>4, <1>5, <1>6, <1>7, <1>8, <1>9, <1>10, <1>11,
     <1>12, <1>13, <1>14, <1>15, <1>16, <1>17, <1>18, <1>19, <1>20, <1>21,
     <1>22, <1>23, <1>24, <1>25, <1>26, <1>27, <1>28, <1>29, <1>30, <1>31,
     <1>32, <1>33, <1>34, <1>35, <1>36, <1>37, <1>38, <1>39, <1>40, <1>41,
     <1>42, <1>43, <1>44, <1>45, <1>46, <1>47, <1>48 DEF Next, Lookup,
     Forward, Store, Cleanup

\* A blob that belongs to the reducer is neither deleted nor taken over.
THEOREM CacheReductionKept == Spec => ReductionKept
<1>1. Spec => []OwnInv
  BY InitOwn, NextOwn, PTL DEF Spec
<1>2. OwnInv /\ [Next]_vars =>
        [\A h \in Hashes : ReductionOwned(h) /\ blobs[h] # "none" =>
           ReductionOwned(h)' /\ blobs'[h] # "none"]_vars
  BY OwnedStays
<1> QED BY <1>1, <1>2, PTL DEF Spec, ReductionKept

-----------------------------------------------------------------------------
(* Every row has its blob, when a cleanup never overlaps a store and no     *)
(* statement fails.                                                         *)

\* Types, and blobs of rows and of handlers that store.
RowInv == TypeInv /\ BackedInv

\* At the start every row has its blob, and nobody stores or cleans up.
LEMMA InitRows == Init => RowInv
<1> SUFFICES ASSUME Init PROVE RowInv
  OBVIOUS
<1>1. Storing = {}
  BY IdleIsJob DEF Init, Storing, StoreSteps
<1>2. Backed
  BY DEF Init, Backed, RowHashes, Occupied, Row, Hashes
<1> QED BY <1>1, <1>2, InitTypes DEF Init, RowInv, BackedInv

\* A blob goes only in a cleanup, which has checked it against the rows and
\* has the directory for itself: the undo of a failed insert does not occur.
LEMMA NextRows ==
  ASSUME Offline, RowInv, [Next]_vars
  PROVE  RowInv'
<1> SUFFICES BackedInv'
  BY NextTypes DEF RowInv
<1> USE IdleIsJob DEF Offline, RowInv, TypeInv
<1>1. ASSUME NEW w \in Workers, Begin(w) PROVE BackedInv'
  BY <1>1 DEF Begin, Goto, Finish, Become, BackedInv, Backed, RowHashes,
     Occupied, Storing, MayStore, Row, TypeOK, JobInv, JobOK, Job, Steps,
     PermitSteps, StoreSteps, dbVars, fileVars, rest, cleanVars, histVars
<1>2. ASSUME NEW w \in Workers, BeginWithoutDb(w) PROVE BackedInv'
  BY <1>2 DEF BeginWithoutDb, Goto, Finish, Become, BackedInv, Backed,
     RowHashes, Occupied, Storing, MayStore, Row, TypeOK, JobInv, JobOK, Job,
     Steps, PermitSteps, StoreSteps, dbVars, fileVars, rest, cleanVars,
     histVars
<1>3. ASSUME NEW w \in Workers, Evict(w) PROVE BackedInv'
  BY <1>3 DEF Evict, Goto, Finish, Become, BackedInv, Backed, RowHashes,
     Occupied, Storing, MayStore, Row, TypeOK, JobInv, JobOK, Job, Steps,
     PermitSteps, StoreSteps, dbVars, fileVars, rest, cleanVars, histVars,
     Unexpired
<1>4. ASSUME NEW w \in Workers, EvictFails(w) PROVE BackedInv'
  BY <1>4 DEF EvictFails, Goto, Finish, Become, BackedInv, Backed,
     RowHashes, Occupied, Storing, MayStore, Row, TypeOK, JobInv, JobOK, Job,
     Steps, PermitSteps, StoreSteps, dbVars, fileVars, rest, cleanVars,
     histVars
<1>5. ASSUME NEW w \in Workers, SelectMisses(w) PROVE BackedInv'
  BY <1>5 DEF SelectMisses, Goto, Finish, Become, BackedInv, Backed,
     RowHashes, Occupied, Storing, MayStore, Row, TypeOK, JobInv, JobOK, Job,
     Steps, PermitSteps, StoreSteps, dbVars, fileVars, rest, cleanVars,
     histVars
<1>6. ASSUME NEW w \in Workers, SelectFinds(w) PROVE BackedInv'
  BY <1>6 DEF SelectFinds, Goto, Finish, Become, BackedInv, Backed,
     RowHashes, Occupied, Storing, MayStore, Row, TypeOK, JobInv, JobOK, Job,
     Steps, PermitSteps, StoreSteps, dbVars, fileVars, rest, cleanVars,
     histVars, Matches
<1>7. ASSUME NEW w \in Workers, BlobMissing(w) PROVE BackedInv'
  BY <1>7 DEF BlobMissing, Goto, Finish, Become, BackedInv, Backed,
     RowHashes, Occupied, Storing, MayStore, Row, TypeOK, JobInv, JobOK, Job,
     Steps, PermitSteps, StoreSteps, dbVars, fileVars, rest, cleanVars,
     histVars
<1>8. ASSUME NEW w \in Workers, Replay(w) PROVE BackedInv'
  BY <1>8 DEF Replay, Goto, Finish, Become, BackedInv, Backed, RowHashes,
     Occupied, Storing, MayStore, Row, TypeOK, JobInv, JobOK, Job, Steps,
     PermitSteps, StoreSteps, dbVars, fileVars, rest, cleanVars, histVars
<1>9. ASSUME NEW w \in Workers, Replied(w) PROVE BackedInv'
  BY <1>9 DEF Replied, Goto, Finish, Become, BackedInv, Backed, RowHashes,
     Occupied, Storing, MayStore, Row, TypeOK, JobInv, JobOK, Job, Steps,
     PermitSteps, StoreSteps, dbVars, fileVars, rest, cleanVars, histVars
<1>10. ASSUME NEW w \in Workers, NothingToReduce(w) PROVE BackedInv'
  BY <1>10 DEF NothingToReduce, Goto, Finish, Become, BackedInv, Backed,
     RowHashes, Occupied, Storing, MayStore, Row, TypeOK, JobInv, JobOK, Job,
     Steps, PermitSteps, StoreSteps, dbVars, fileVars, rest, cleanVars,
     histVars
<1>11. ASSUME NEW w \in Workers, StoreRaw(w) PROVE BackedInv'
  BY <1>11 DEF StoreRaw, Goto, Finish, Become, BackedInv, Backed,
     RowHashes, Occupied, Storing, MayStore, Row, TypeOK, JobInv, JobOK, Job,
     Steps, PermitSteps, StoreSteps, dbVars, fileVars, rest, cleanVars,
     histVars
<1>12. ASSUME NEW w \in Workers, WriteRaw(w) PROVE BackedInv'
  <2>1. job[w].hash \in Hashes /\ job'[w].hash = job[w].hash
    BY <1>12 DEF WriteRaw, Goto, Become, TypeOK, JobInv, JobOK, Job, PermitSteps,
       StoreSteps, Hashes
  <2>2. \A h \in Hashes : blobs[h] # "none" => blobs'[h] # "none"
    BY <2>1, <1>12 DEF WriteRaw, WriteAll, TypeOK
  <2>3. Storing' = Storing /\ \A v \in Storing : job'[v].hash = job[v].hash /\ job'[v].pc # "undo"
    BY <1>12 DEF WriteRaw, Goto, Become, TypeOK, Job, Storing, StoreSteps, BackedInv
  <2>4. \A v \in Storing : job[v].hash \in Hashes
    BY DEF Storing, TypeOK, JobInv, JobOK, Job, PermitSteps, StoreSteps, Hashes
  <2>5. RowHashes \subseteq Hashes
    BY RowHashesAreHashes DEF Hashes
  <2>6. RowHashes' = RowHashes /\ cleaner' = cleaner /\ candidates' = candidates
    BY <1>12 DEF WriteRaw, RowHashes, Occupied, dbVars, rest, cleanVars
  <2> QED
    BY <2>2, <2>3, <2>4, <2>5, <2>6 DEF BackedInv, Backed
<1>13. ASSUME NEW w \in Workers, WriteRawFails(w) PROVE BackedInv'
  BY <1>13 DEF WriteRawFails, Goto, Finish, Become, BackedInv, Backed,
     RowHashes, Occupied, Storing, MayStore, Row, TypeOK, JobInv, JobOK, Job,
     Steps, PermitSteps, StoreSteps, dbVars, fileVars, rest, cleanVars,
     histVars
<1>14. ASSUME NEW w \in Workers, RegisterRaw(w) PROVE BackedInv'
  BY <1>14 DEF RegisterRaw, Goto, Finish, Become, BackedInv, Backed,
     RowHashes, Occupied, Storing, MayStore, Row, TypeOK, JobInv, JobOK, Job,
     Steps, PermitSteps, StoreSteps, dbVars, fileVars, rest, cleanVars,
     histVars
<1>15. ASSUME NEW w \in Workers, RegisterRawFails(w) PROVE BackedInv'
  BY <1>15 DEF RegisterRawFails, Goto, Finish, Become, BackedInv, Backed,
     RowHashes, Occupied, Storing, MayStore, Row, TypeOK, JobInv, JobOK, Job,
     Steps, PermitSteps, StoreSteps, dbVars, fileVars, rest, cleanVars,
     histVars
<1>16. ASSUME NEW w \in Workers, AcquirePermit(w) PROVE BackedInv'
  BY <1>16 DEF AcquirePermit, Goto, Finish, Become, BackedInv, Backed,
     RowHashes, Occupied, Storing, MayStore, Row, TypeOK, JobInv, JobOK, Job,
     Steps, PermitSteps, StoreSteps, dbVars, fileVars, rest, cleanVars,
     histVars
<1>17. ASSUME NEW w \in Workers, NoPermit(w) PROVE BackedInv'
  BY <1>17 DEF NoPermit, Goto, Finish, Become, BackedInv, Backed,
     RowHashes, Occupied, Storing, MayStore, Row, TypeOK, JobInv, JobOK, Job,
     Steps, PermitSteps, StoreSteps, dbVars, fileVars, rest, cleanVars,
     histVars
<1>18. ASSUME NEW w \in Workers, NotStorable(w) PROVE BackedInv'
  BY <1>18 DEF NotStorable, Goto, Finish, Become, BackedInv, Backed,
     RowHashes, Occupied, Storing, MayStore, Row, TypeOK, JobInv, JobOK, Job,
     Steps, PermitSteps, StoreSteps, dbVars, fileVars, rest, cleanVars,
     histVars
<1>19. ASSUME NEW w \in Workers, Storable(w) PROVE BackedInv'
  BY <1>19 DEF Storable, Goto, Finish, Become, BackedInv, Backed,
     RowHashes, Occupied, Storing, MayStore, Row, TypeOK, JobInv, JobOK, Job,
     Steps, PermitSteps, StoreSteps, dbVars, fileVars, rest, cleanVars,
     histVars
<1>20. ASSUME NEW w \in Workers, EvictAgain(w) PROVE BackedInv'
  BY <1>20 DEF EvictAgain, Goto, Finish, Become, BackedInv, Backed,
     RowHashes, Occupied, Storing, MayStore, Row, TypeOK, JobInv, JobOK, Job,
     Steps, PermitSteps, StoreSteps, dbVars, fileVars, rest, cleanVars,
     histVars, Unexpired
<1>21. ASSUME NEW w \in Workers, LimitsUnreadable(w) PROVE BackedInv'
  BY <1>21 DEF LimitsUnreadable, Goto, Finish, Become, BackedInv, Backed,
     RowHashes, Occupied, Storing, MayStore, Row, TypeOK, JobInv, JobOK, Job,
     Steps, PermitSteps, StoreSteps, dbVars, fileVars, rest, cleanVars,
     histVars
<1>22. ASSUME NEW w \in Workers, CountEntries(w) PROVE BackedInv'
  BY <1>22 DEF CountEntries, Goto, Finish, Become, BackedInv, Backed,
     RowHashes, Occupied, Storing, MayStore, Row, TypeOK, JobInv, JobOK, Job,
     Steps, PermitSteps, StoreSteps, dbVars, fileVars, rest, cleanVars,
     histVars
<1>23. ASSUME NEW w \in Workers, ReplaceExisting(w) PROVE BackedInv'
  BY <1>23 DEF ReplaceExisting, Goto, Finish, Become, BackedInv, Backed,
     RowHashes, Occupied, Storing, MayStore, Row, TypeOK, JobInv, JobOK, Job,
     Steps, PermitSteps, StoreSteps, dbVars, fileVars, rest, cleanVars,
     histVars
<1>24. ASSUME NEW w \in Workers, OverLimit(w) PROVE BackedInv'
  BY <1>24 DEF OverLimit, Goto, Finish, Become, BackedInv, Backed,
     RowHashes, Occupied, Storing, MayStore, Row, TypeOK, JobInv, JobOK, Job,
     Steps, PermitSteps, StoreSteps, dbVars, fileVars, rest, cleanVars,
     histVars
<1>25. ASSUME NEW w \in Workers, CreateNew(w) PROVE BackedInv'
  <2>1. job[w].hash \in Hashes
    BY <1>25 DEF CreateNew, JobInv, JobOK, PermitSteps, StoreSteps, Hashes
  <2>2. blobs' = [blobs EXCEPT ![job[w].hash] = "torn"] /\ blobs \in [Hashes -> {"none", "torn", "whole"}]
    BY <1>25 DEF CreateNew, TypeOK
  <2>3. /\ Storing' = Storing \cup {w}
        /\ \A v \in Storing \ {w} : job'[v] = job[v]
        /\ job'[w].hash = job[w].hash /\ job'[w].pc = "write_new"
    BY <1>25 DEF CreateNew, Become, TypeOK, Job, Storing, StoreSteps
  <2>4. \A v \in Storing : job[v].hash \in Hashes
    BY DEF Storing, TypeOK, JobInv, JobOK, Job, PermitSteps, StoreSteps, Hashes
  <2>5. cleaner = "idle" /\ rows' = rows /\ cleaner' = cleaner
    BY <1>25 DEF CreateNew, MayStore, dbVars, rest, cleanVars
  <2> QED
    BY <2>1, <2>2, <2>3, <2>4, <2>5 DEF BackedInv, Backed, RowHashes,
       Occupied, Hashes
<1>26. ASSUME NEW w \in Workers, KeepExisting(w) PROVE BackedInv'
  BY <1>26 DEF KeepExisting, Goto, Finish, Become, BackedInv, Backed,
     RowHashes, Occupied, Storing, MayStore, Row, TypeOK, JobInv, JobOK, Job,
     Steps, PermitSteps, StoreSteps, dbVars, fileVars, rest, cleanVars,
     histVars
<1>27. ASSUME NEW w \in Workers, CreateFails(w) PROVE BackedInv'
  BY <1>27 DEF CreateFails, Goto, Finish, Become, BackedInv, Backed,
     RowHashes, Occupied, Storing, MayStore, Row, TypeOK, JobInv, JobOK, Job,
     Steps, PermitSteps, StoreSteps, dbVars, fileVars, rest, cleanVars,
     histVars
<1>28. ASSUME NEW w \in Workers, WriteNew(w) PROVE BackedInv'
  <2>1. job[w].hash \in Hashes /\ job'[w].hash = job[w].hash
    BY <1>28 DEF WriteNew, Goto, Become, TypeOK, JobInv, JobOK, Job, PermitSteps,
       StoreSteps, Hashes
  <2>2. \A h \in Hashes : blobs[h] # "none" => blobs'[h] # "none"
    BY <2>1, <1>28 DEF WriteNew, WriteAll, TypeOK
  <2>3. Storing' = Storing /\ \A v \in Storing : job'[v].hash = job[v].hash /\ job'[v].pc # "undo"
    BY <1>28 DEF WriteNew, Goto, Become, TypeOK, Job, Storing, StoreSteps, BackedInv
  <2>4. \A v \in Storing : job[v].hash \in Hashes
    BY DEF Storing, TypeOK, JobInv, JobOK, Job, PermitSteps, StoreSteps, Hashes
  <2>5. RowHashes \subseteq Hashes
    BY RowHashesAreHashes DEF Hashes
  <2>6. RowHashes' = RowHashes /\ cleaner' = cleaner /\ candidates' = candidates
    BY <1>28 DEF WriteNew, RowHashes, Occupied, dbVars, rest, cleanVars
  <2> QED
    BY <2>2, <2>3, <2>4, <2>5, <2>6 DEF BackedInv, Backed
<1>29. ASSUME NEW w \in Workers, WriteNewFails(w) PROVE BackedInv'
  BY <1>29 DEF WriteNewFails, Goto, Finish, Become, BackedInv, Backed,
     RowHashes, Occupied, Storing, MayStore, Row, TypeOK, JobInv, JobOK, Job,
     Steps, PermitSteps, StoreSteps, dbVars, fileVars, rest, cleanVars,
     histVars
<1>30. ASSUME NEW w \in Workers, Stamp(w) PROVE BackedInv'
  BY <1>30 DEF Stamp, Goto, Finish, Become, BackedInv, Backed, RowHashes,
     Occupied, Storing, MayStore, Row, TypeOK, JobInv, JobOK, Job, Steps,
     PermitSteps, StoreSteps, dbVars, fileVars, rest, cleanVars, histVars
<1>31. ASSUME NEW w \in Workers, SelectKnown(w) PROVE BackedInv'
  BY <1>31 DEF SelectKnown, Goto, Finish, Become, BackedInv, Backed,
     RowHashes, Occupied, Storing, MayStore, Row, TypeOK, JobInv, JobOK, Job,
     Steps, PermitSteps, StoreSteps, dbVars, fileVars, rest, cleanVars,
     histVars
<1>32. ASSUME NEW w \in Workers, RegisterHash(w) PROVE BackedInv'
  BY <1>32 DEF RegisterHash, Goto, Finish, Become, BackedInv, Backed,
     RowHashes, Occupied, Storing, MayStore, Row, TypeOK, JobInv, JobOK, Job,
     Steps, PermitSteps, StoreSteps, dbVars, fileVars, rest, cleanVars,
     histVars
<1>33. ASSUME NEW w \in Workers, AddRef(w) PROVE BackedInv'
  BY <1>33 DEF AddRef, Goto, Finish, Become, BackedInv, Backed, RowHashes,
     Occupied, Storing, MayStore, Row, TypeOK, JobInv, JobOK, Job, Steps,
     PermitSteps, StoreSteps, dbVars, fileVars, rest, cleanVars, histVars
<1>34. ASSUME NEW w \in Workers, PutRow(w) PROVE BackedInv'
  BY <1>34 DEF PutRow, Goto, Finish, Become, BackedInv, Backed, RowHashes,
     Occupied, Storing, MayStore, Row, TypeOK, JobInv, JobOK, Job, Steps,
     PermitSteps, StoreSteps, dbVars, fileVars, rest, cleanVars, histVars
<1>35. ASSUME NEW w \in Workers, InsertFails(w) PROVE BackedInv'
  BY <1>35 DEF InsertFails, Goto, Finish, Become, BackedInv, Backed,
     RowHashes, Occupied, Storing, MayStore, Row, TypeOK, JobInv, JobOK, Job,
     Steps, PermitSteps, StoreSteps, dbVars, fileVars, rest, cleanVars,
     histVars
<1>36. ASSUME NEW w \in Workers, Undo(w) PROVE BackedInv'
  BY <1>36 DEF Undo, Goto, Finish, Become, BackedInv, Backed, RowHashes,
     Occupied, Storing, MayStore, Row, TypeOK, JobInv, JobOK, Job, Steps,
     PermitSteps, StoreSteps, dbVars, fileVars, rest, cleanVars, histVars,
     DeleteAt
<1>37. CASE ScanKnown
  BY <1>37 DEF ScanKnown, Goto, Finish, Become, BackedInv, Backed,
     RowHashes, Occupied, Storing, MayStore, Row, TypeOK, JobInv, JobOK, Job,
     Steps, PermitSteps, StoreSteps, dbVars, fileVars, rest, cleanVars,
     histVars
<1>38. CASE ScanRows
  BY <1>38 DEF ScanRows, Goto, Finish, Become, BackedInv, Backed,
     RowHashes, Occupied, Storing, MayStore, Row, TypeOK, JobInv, JobOK, Job,
     Steps, PermitSteps, StoreSteps, dbVars, fileVars, rest, cleanVars,
     histVars
<1>39. CASE ScanRefs
  BY <1>39 DEF ScanRefs, Goto, Finish, Become, BackedInv, Backed,
     RowHashes, Occupied, Storing, MayStore, Row, TypeOK, JobInv, JobOK, Job,
     Steps, PermitSteps, StoreSteps, dbVars, fileVars, rest, cleanVars,
     histVars
<1>40. CASE ListDirectory
  BY <1>40 DEF ListDirectory, Goto, Finish, Become, BackedInv, Backed,
     RowHashes, Occupied, Storing, MayStore, Row, TypeOK, JobInv, JobOK, Job,
     Steps, PermitSteps, StoreSteps, dbVars, fileVars, rest, cleanVars,
     histVars
<1>41. CASE DeleteOrphan
  BY <1>41 DEF DeleteOrphan, Goto, Finish, Become, BackedInv, Backed,
     RowHashes, Occupied, Storing, MayStore, Row, TypeOK, JobInv, JobOK, Job,
     Steps, PermitSteps, StoreSteps, dbVars, fileVars, rest, cleanVars,
     histVars, DeleteAt
<1>42. CASE CleanupDone
  BY <1>42 DEF CleanupDone, Goto, Finish, Become, BackedInv, Backed,
     RowHashes, Occupied, Storing, MayStore, Row, TypeOK, JobInv, JobOK, Job,
     Steps, PermitSteps, StoreSteps, dbVars, fileVars, rest, cleanVars,
     histVars
<1>43. CASE OpenElsewhere
  BY <1>43 DEF OpenElsewhere, Goto, Finish, Become, BackedInv, Backed,
     RowHashes, Occupied, Storing, MayStore, Row, TypeOK, JobInv, JobOK, Job,
     Steps, PermitSteps, StoreSteps, dbVars, fileVars, rest, cleanVars,
     histVars
<1>44. CASE Clear
  BY <1>44 DEF Clear, Goto, Finish, Become, BackedInv, Backed, RowHashes,
     Occupied, Storing, MayStore, Row, TypeOK, JobInv, JobOK, Job, Steps,
     PermitSteps, StoreSteps, dbVars, fileVars, rest, cleanVars, histVars
<1>45. CASE EditProject
  BY <1>45 DEF EditProject, Goto, Finish, Become, BackedInv, Backed,
     RowHashes, Occupied, Storing, MayStore, Row, TypeOK, JobInv, JobOK, Job,
     Steps, PermitSteps, StoreSteps, dbVars, fileVars, rest, cleanVars,
     histVars
<1>46. CASE Expire
  BY <1>46 DEF Expire, Goto, Finish, Become, BackedInv, Backed, RowHashes,
     Occupied, Storing, MayStore, Row, TypeOK, JobInv, JobOK, Job, Steps,
     PermitSteps, StoreSteps, dbVars, fileVars, rest, cleanVars, histVars
<1>47. CASE Crash
  BY <1>47 DEF Crash, Goto, Finish, Become, BackedInv, Backed, RowHashes,
     Occupied, Storing, MayStore, Row, TypeOK, JobInv, JobOK, Job, Steps,
     PermitSteps, StoreSteps, dbVars, fileVars, rest, cleanVars, histVars
<1>48. CASE UNCHANGED vars
  BY <1>48 DEF vars, BackedInv, Backed, RowHashes, Occupied, Storing
<1> QED
  BY <1>1, <1>2, <1>3, <1>4, <1>5, <1>6, <1>7, <1>8, <1>9, <1>10, <1>11,
     <1>12, <1>13, <1>14, <1>15, <1>16, <1>17, <1>18, <1>19, <1>20, <1>21,
     <1>22, <1>23, <1>24, <1>25, <1>26, <1>27, <1>28, <1>29, <1>30, <1>31,
     <1>32, <1>33, <1>34, <1>35, <1>36, <1>37, <1>38, <1>39, <1>40, <1>41,
     <1>42, <1>43, <1>44, <1>45, <1>46, <1>47, <1>48 DEF Next, Lookup,
     Forward, Store, Cleanup

\* Blobs are there before their row and after it, whatever crashes between.
THEOREM CacheRowsBacked == Spec => []RowsBacked
<1> DEFINE Inv == TypeInv /\ (Offline => RowInv)
<1>1. Init => Inv
  BY InitTypes, InitRows
<1>2. Inv /\ [Next]_vars => Inv'
  <2> QED BY SameMay, NextTypes, NextRows DEF Offline
<1>3. Inv => RowsBacked
  BY DEF RowsBacked, RowInv, BackedInv
<1> QED BY <1>1, <1>2, <1>3, PTL DEF Spec

-----------------------------------------------------------------------------
(* How far max_entries is overshot.                                         *)

\* Types, permits, and slots with a row or about to get one.
PermitInv == TypeInv /\ LimitInv

\* The slots that handlers past the check are about to fill.
Entering == {w \in Workers : job[w].pc \in {"create"} \cup StoreSteps}

\* Permits and slots are finite, and who has passed the check has a permit.
LEMMA LimitSets ==
  ASSUME TypeInv
  PROVE  /\ IsFiniteSet(UnderPermit) /\ Cardinality(UnderPermit) \in Nat
         /\ IsFiniteSet(Claimed) /\ Cardinality(Claimed) \in Nat
         /\ IsFiniteSet(Occupied) /\ Cardinality(Occupied) \in Nat
         /\ Entering \subseteq UnderPermit
         /\ Claimed = Occupied \cup {job[w].slot : w \in Entering}
<1>1. UnderPermit \subseteq Workers /\ Occupied \subseteq Slots
  BY DEF UnderPermit, Occupied
<1>2. Claimed \subseteq Slots
  BY DEF Claimed, Occupied, TypeInv, TypeOK, Job
<1>3. Entering \subseteq UnderPermit
  BY DEF Entering, UnderPermit, PermitSteps
<1>4. Claimed = Occupied \cup {job[w].slot : w \in Entering}
  BY DEF Claimed, Entering
<1> QED
  BY <1>1, <1>2, <1>3, <1>4, FS_Subset, FS_CardinalityType, CacheAssumption

\* Handlers with a permit claim one slot each.
LEMMA OneSlotEach ==
  ASSUME TypeInv, NEW E \in SUBSET UnderPermit
  PROVE  /\ IsFiniteSet({job[w].slot : w \in E})
         /\ Cardinality({job[w].slot : w \in E}) <= Cardinality(UnderPermit)
         /\ Cardinality({job[w].slot : w \in E}) \in Nat
<1>1. /\ IsFiniteSet(E) /\ Cardinality(E) <= Cardinality(UnderPermit)
      /\ Cardinality(E) \in Nat
  BY LimitSets, FS_Subset, FS_CardinalityType
<1> DEFINE T == {job[w].slot : w \in E}
           f == [w \in E |-> job[w].slot]
<1>2. f \in Surjection(E, T)
  BY DEF Surjection
<1> HIDE DEF T, f
<1>3. IsFiniteSet(E)
  BY <1>1
<1>4. IsFiniteSet(T) /\ Cardinality(T) <= Cardinality(E)
  BY <1>2, <1>3, FS_Surjection
<1>5. Cardinality(T) \in Nat
  BY <1>4, FS_CardinalityType
<1> QED BY <1>1, <1>4, <1>5, LimitSets DEF T

\* At the start nobody has a permit, and the rows respect the limit.
LEMMA InitLimits == Init => PermitInv
<1> SUFFICES ASSUME Init PROVE PermitInv
  OBVIOUS
<1>1. TypeInv
  BY InitTypes
<1>2. UnderPermit = {} /\ Entering = {}
  BY IdleIsJob DEF Init, UnderPermit, Entering, PermitSteps, StoreSteps
<1>3. Claimed = Occupied
  BY <1>1, <1>2, LimitSets
<1>4. Cardinality(UnderPermit) = 0
  BY <1>2, FS_EmptySet
<1> QED
  BY <1>1, <1>3, <1>4, LimitSets, CacheAssumption DEF Init, PermitInv, LimitInv

\* Except for the three steps below, no step gives a permit or claims a slot.
LEMMA OthersClaimNothing ==
  ASSUME TypeInv, [Next]_vars,
         \A w \in Workers : ~ AcquirePermit(w) /\ ~ CountEntries(w)
  PROVE  /\ UnderPermit' \subseteq UnderPermit
         /\ MaxEntries # NoLimit => Claimed' \subseteq Claimed
<1> DEFINE Shrink == /\ UnderPermit' \subseteq UnderPermit
                     /\ MaxEntries # NoLimit => Claimed' \subseteq Claimed
<1> SUFFICES Shrink
  OBVIOUS
<1> USE IdleIsJob DEF TypeInv
<1>1. ASSUME NEW w \in Workers, Begin(w) PROVE Shrink
  BY <1>1 DEF Begin, Goto, Finish, Become, UnderPermit, Claimed, Occupied,
     TypeOK, Job, PermitSteps, StoreSteps, dbVars, fileVars, rest, cleanVars,
     histVars
<1>2. ASSUME NEW w \in Workers, BeginWithoutDb(w) PROVE Shrink
  BY <1>2 DEF BeginWithoutDb, Goto, Finish, Become, UnderPermit, Claimed,
     Occupied, TypeOK, Job, PermitSteps, StoreSteps, dbVars, fileVars, rest,
     cleanVars, histVars
<1>3. ASSUME NEW w \in Workers, Evict(w) PROVE Shrink
  BY <1>3 DEF Evict, Goto, Finish, Become, UnderPermit, Claimed, Occupied,
     TypeOK, Job, PermitSteps, StoreSteps, dbVars, fileVars, rest, cleanVars,
     histVars, Unexpired
<1>4. ASSUME NEW w \in Workers, EvictFails(w) PROVE Shrink
  BY <1>4 DEF EvictFails, Goto, Finish, Become, UnderPermit, Claimed,
     Occupied, TypeOK, Job, PermitSteps, StoreSteps, dbVars, fileVars, rest,
     cleanVars, histVars
<1>5. ASSUME NEW w \in Workers, SelectMisses(w) PROVE Shrink
  BY <1>5 DEF SelectMisses, Goto, Finish, Become, UnderPermit, Claimed,
     Occupied, TypeOK, Job, PermitSteps, StoreSteps, dbVars, fileVars, rest,
     cleanVars, histVars
<1>6. ASSUME NEW w \in Workers, SelectFinds(w) PROVE Shrink
  BY <1>6 DEF SelectFinds, Goto, Finish, Become, UnderPermit, Claimed,
     Occupied, TypeOK, Job, PermitSteps, StoreSteps, dbVars, fileVars, rest,
     cleanVars, histVars
<1>7. ASSUME NEW w \in Workers, BlobMissing(w) PROVE Shrink
  BY <1>7 DEF BlobMissing, Goto, Finish, Become, UnderPermit, Claimed,
     Occupied, TypeOK, Job, PermitSteps, StoreSteps, dbVars, fileVars, rest,
     cleanVars, histVars
<1>8. ASSUME NEW w \in Workers, Replay(w) PROVE Shrink
  BY <1>8 DEF Replay, Goto, Finish, Become, UnderPermit, Claimed, Occupied,
     TypeOK, Job, PermitSteps, StoreSteps, dbVars, fileVars, rest, cleanVars,
     histVars
<1>9. ASSUME NEW w \in Workers, Replied(w) PROVE Shrink
  BY <1>9 DEF Replied, Goto, Finish, Become, UnderPermit, Claimed, Occupied,
     TypeOK, Job, PermitSteps, StoreSteps, dbVars, fileVars, rest, cleanVars,
     histVars
<1>10. ASSUME NEW w \in Workers, NothingToReduce(w) PROVE Shrink
  BY <1>10 DEF NothingToReduce, Goto, Finish, Become, UnderPermit, Claimed,
     Occupied, TypeOK, Job, PermitSteps, StoreSteps, dbVars, fileVars, rest,
     cleanVars, histVars
<1>11. ASSUME NEW w \in Workers, StoreRaw(w) PROVE Shrink
  BY <1>11 DEF StoreRaw, Goto, Finish, Become, UnderPermit, Claimed, Occupied,
     TypeOK, Job, PermitSteps, StoreSteps, dbVars, fileVars, rest, cleanVars,
     histVars
<1>12. ASSUME NEW w \in Workers, WriteRaw(w) PROVE Shrink
  BY <1>12 DEF WriteRaw, Goto, Finish, Become, UnderPermit, Claimed, Occupied,
     TypeOK, Job, PermitSteps, StoreSteps, dbVars, fileVars, rest, cleanVars,
     histVars
<1>13. ASSUME NEW w \in Workers, WriteRawFails(w) PROVE Shrink
  BY <1>13 DEF WriteRawFails, Goto, Finish, Become, UnderPermit, Claimed,
     Occupied, TypeOK, Job, PermitSteps, StoreSteps, dbVars, fileVars, rest,
     cleanVars, histVars
<1>14. ASSUME NEW w \in Workers, RegisterRaw(w) PROVE Shrink
  BY <1>14 DEF RegisterRaw, Goto, Finish, Become, UnderPermit, Claimed,
     Occupied, TypeOK, Job, PermitSteps, StoreSteps, dbVars, fileVars, rest,
     cleanVars, histVars
<1>15. ASSUME NEW w \in Workers, RegisterRawFails(w) PROVE Shrink
  BY <1>15 DEF RegisterRawFails, Goto, Finish, Become, UnderPermit, Claimed,
     Occupied, TypeOK, Job, PermitSteps, StoreSteps, dbVars, fileVars, rest,
     cleanVars, histVars
<1>16. ASSUME NEW w \in Workers, AcquirePermit(w) PROVE Shrink
  BY <1>16
<1>17. ASSUME NEW w \in Workers, NoPermit(w) PROVE Shrink
  BY <1>17 DEF NoPermit, Goto, Finish, Become, UnderPermit, Claimed, Occupied,
     TypeOK, Job, PermitSteps, StoreSteps, dbVars, fileVars, rest, cleanVars,
     histVars
<1>18. ASSUME NEW w \in Workers, NotStorable(w) PROVE Shrink
  BY <1>18 DEF NotStorable, Goto, Finish, Become, UnderPermit, Claimed,
     Occupied, TypeOK, Job, PermitSteps, StoreSteps, dbVars, fileVars, rest,
     cleanVars, histVars
<1>19. ASSUME NEW w \in Workers, Storable(w) PROVE Shrink
  BY <1>19 DEF Storable, Goto, Finish, Become, UnderPermit, Claimed, Occupied,
     TypeOK, Job, PermitSteps, StoreSteps, dbVars, fileVars, rest, cleanVars,
     histVars
<1>20. ASSUME NEW w \in Workers, EvictAgain(w) PROVE Shrink
  BY <1>20 DEF EvictAgain, Goto, Finish, Become, UnderPermit, Claimed,
     Occupied, TypeOK, Job, PermitSteps, StoreSteps, dbVars, fileVars, rest,
     cleanVars, histVars, Unexpired
<1>21. ASSUME NEW w \in Workers, LimitsUnreadable(w) PROVE Shrink
  <2>1. CASE MaxEntries = NoLimit
    BY <1>21, <2>1 DEF LimitsUnreadable, Goto, Become, UnderPermit, TypeOK,
       Job, PermitSteps, StoreSteps
  <2>2. CASE MaxEntries # NoLimit
    <3>1. Become(w, Idle) /\ rows' = rows
      BY <1>21, <2>2 DEF LimitsUnreadable, Finish, dbVars
    <3>2. \A v \in Workers : job'[v] = job[v] \/ job'[v] = Idle
      BY <3>1 DEF Become, TypeOK
    <3> QED
      BY <3>1, <3>2 DEF UnderPermit, Claimed, Occupied, PermitSteps, StoreSteps
  <2> QED BY <2>1, <2>2
<1>22. ASSUME NEW w \in Workers, CountEntries(w) PROVE Shrink
  BY <1>22
<1>23. ASSUME NEW w \in Workers, ReplaceExisting(w) PROVE Shrink
  BY <1>23 DEF ReplaceExisting, Goto, Finish, Become, UnderPermit, Claimed,
     Occupied, TypeOK, Job, PermitSteps, StoreSteps, dbVars, fileVars, rest,
     cleanVars, histVars
<1>24. ASSUME NEW w \in Workers, OverLimit(w) PROVE Shrink
  BY <1>24 DEF OverLimit, Goto, Finish, Become, UnderPermit, Claimed,
     Occupied, TypeOK, Job, PermitSteps, StoreSteps, dbVars, fileVars, rest,
     cleanVars, histVars
<1>25. ASSUME NEW w \in Workers, CreateNew(w) PROVE Shrink
  BY <1>25 DEF CreateNew, Goto, Finish, Become, UnderPermit, Claimed,
     Occupied, TypeOK, Job, PermitSteps, StoreSteps, dbVars, fileVars, rest,
     cleanVars, histVars
<1>26. ASSUME NEW w \in Workers, KeepExisting(w) PROVE Shrink
  BY <1>26 DEF KeepExisting, Goto, Finish, Become, UnderPermit, Claimed,
     Occupied, TypeOK, Job, PermitSteps, StoreSteps, dbVars, fileVars, rest,
     cleanVars, histVars
<1>27. ASSUME NEW w \in Workers, CreateFails(w) PROVE Shrink
  BY <1>27 DEF CreateFails, Goto, Finish, Become, UnderPermit, Claimed,
     Occupied, TypeOK, Job, PermitSteps, StoreSteps, dbVars, fileVars, rest,
     cleanVars, histVars
<1>28. ASSUME NEW w \in Workers, WriteNew(w) PROVE Shrink
  BY <1>28 DEF WriteNew, Goto, Finish, Become, UnderPermit, Claimed, Occupied,
     TypeOK, Job, PermitSteps, StoreSteps, dbVars, fileVars, rest, cleanVars,
     histVars
<1>29. ASSUME NEW w \in Workers, WriteNewFails(w) PROVE Shrink
  BY <1>29 DEF WriteNewFails, Goto, Finish, Become, UnderPermit, Claimed,
     Occupied, TypeOK, Job, PermitSteps, StoreSteps, dbVars, fileVars, rest,
     cleanVars, histVars
<1>30. ASSUME NEW w \in Workers, Stamp(w) PROVE Shrink
  BY <1>30 DEF Stamp, Goto, Finish, Become, UnderPermit, Claimed, Occupied,
     TypeOK, Job, PermitSteps, StoreSteps, dbVars, fileVars, rest, cleanVars,
     histVars
<1>31. ASSUME NEW w \in Workers, SelectKnown(w) PROVE Shrink
  BY <1>31 DEF SelectKnown, Goto, Finish, Become, UnderPermit, Claimed,
     Occupied, TypeOK, Job, PermitSteps, StoreSteps, dbVars, fileVars, rest,
     cleanVars, histVars
<1>32. ASSUME NEW w \in Workers, RegisterHash(w) PROVE Shrink
  BY <1>32 DEF RegisterHash, Goto, Finish, Become, UnderPermit, Claimed,
     Occupied, TypeOK, Job, PermitSteps, StoreSteps, dbVars, fileVars, rest,
     cleanVars, histVars
<1>33. ASSUME NEW w \in Workers, AddRef(w) PROVE Shrink
  BY <1>33 DEF AddRef, Goto, Finish, Become, UnderPermit, Claimed, Occupied,
     TypeOK, Job, PermitSteps, StoreSteps, dbVars, fileVars, rest, cleanVars,
     histVars
<1>34. ASSUME NEW w \in Workers, PutRow(w) PROVE Shrink
  <2>1. /\ job[w].slot \in Slots /\ job[w].slot \in Claimed
        /\ \A v \in Workers : job'[v] = job[v] \/ job'[v] = Idle
    BY <1>34 DEF PutRow, Finish, Become, TypeOK, Job, Claimed, StoreSteps
  <2>2. \A s \in Slots : s # job[w].slot => rows'[s] = rows[s]
    BY <1>34 DEF PutRow, TypeOK
  <2>3. Occupied' \subseteq Occupied \cup {job[w].slot}
    BY <2>2 DEF Occupied
  <2>4. /\ {v \in Workers : job'[v].pc \in PermitSteps} \subseteq UnderPermit
        /\ \A v \in Workers : job'[v].pc \in {"create"} \cup StoreSteps => job'[v] = job[v]
    BY <2>1 DEF UnderPermit, PermitSteps, StoreSteps
  <2>5. {job'[u].slot : u \in {v \in Workers : job'[v].pc \in {"create"} \cup StoreSteps}} \subseteq Claimed
    BY <2>4 DEF Claimed
  <2>6. Occupied' \subseteq Claimed
    BY <2>1, <2>3 DEF Claimed
  <2>7. Claimed' \subseteq Claimed
    BY <2>5, <2>6 DEF Claimed
  <2>8. UnderPermit' \subseteq UnderPermit
    BY <2>4 DEF UnderPermit
  <2> QED
    BY <2>7, <2>8
<1>35. ASSUME NEW w \in Workers, InsertFails(w) PROVE Shrink
  <2>1. /\ job[w].pc \in StoreSteps /\ rows' = rows
        /\ Become(w, Idle) \/ Become(w, [job[w] EXCEPT !.pc = "undo"])
    BY <1>35 DEF InsertFails, Goto, Finish, StoreSteps, dbVars
  <2>2. \A v \in Workers :
           \/ job'[v] = job[v] \/ job'[v] = Idle
           \/ job[v].pc \in StoreSteps /\ job'[v] = [job[v] EXCEPT !.pc = "undo"]
    BY <2>1 DEF Become, TypeOK
  <2>3. \A v \in Workers :
           /\ job'[v].pc \in PermitSteps => job[v].pc \in PermitSteps
           /\ job'[v].pc \in {"create"} \cup StoreSteps =>
                /\ job[v].pc \in {"create"} \cup StoreSteps
                /\ job'[v].slot = job[v].slot
    <3> TAKE v \in Workers
    <3> DEFINE j == [job[v] EXCEPT !.pc = "undo"]
    <3>1. j.pc = "undo" /\ j.slot = job[v].slot
      BY DEF TypeOK, Job
    <3> QED BY <2>2, <3>1 DEF PermitSteps, StoreSteps
  <2>4. Occupied' = Occupied
    BY <2>1 DEF Occupied
  <2> QED
    BY <2>3, <2>4 DEF UnderPermit, Claimed
<1>36. ASSUME NEW w \in Workers, Undo(w) PROVE Shrink
  BY <1>36 DEF Undo, Goto, Finish, Become, UnderPermit, Claimed, Occupied,
     TypeOK, Job, PermitSteps, StoreSteps, dbVars, fileVars, rest, cleanVars,
     histVars
<1>37. CASE ScanKnown
  BY <1>37 DEF ScanKnown, Goto, Finish, Become, UnderPermit, Claimed,
     Occupied, TypeOK, Job, PermitSteps, StoreSteps, dbVars, fileVars, rest,
     cleanVars, histVars
<1>38. CASE ScanRows
  BY <1>38 DEF ScanRows, Goto, Finish, Become, UnderPermit, Claimed, Occupied,
     TypeOK, Job, PermitSteps, StoreSteps, dbVars, fileVars, rest, cleanVars,
     histVars
<1>39. CASE ScanRefs
  BY <1>39 DEF ScanRefs, Goto, Finish, Become, UnderPermit, Claimed, Occupied,
     TypeOK, Job, PermitSteps, StoreSteps, dbVars, fileVars, rest, cleanVars,
     histVars
<1>40. CASE ListDirectory
  BY <1>40 DEF ListDirectory, Goto, Finish, Become, UnderPermit, Claimed,
     Occupied, TypeOK, Job, PermitSteps, StoreSteps, dbVars, fileVars, rest,
     cleanVars, histVars
<1>41. CASE DeleteOrphan
  BY <1>41 DEF DeleteOrphan, Goto, Finish, Become, UnderPermit, Claimed,
     Occupied, TypeOK, Job, PermitSteps, StoreSteps, dbVars, fileVars, rest,
     cleanVars, histVars
<1>42. CASE CleanupDone
  BY <1>42 DEF CleanupDone, Goto, Finish, Become, UnderPermit, Claimed,
     Occupied, TypeOK, Job, PermitSteps, StoreSteps, dbVars, fileVars, rest,
     cleanVars, histVars
<1>43. CASE OpenElsewhere
  BY <1>43 DEF OpenElsewhere, Goto, Finish, Become, UnderPermit, Claimed,
     Occupied, TypeOK, Job, PermitSteps, StoreSteps, dbVars, fileVars, rest,
     cleanVars, histVars
<1>44. CASE Clear
  BY <1>44 DEF Clear, Goto, Finish, Become, UnderPermit, Claimed, Occupied,
     TypeOK, Job, PermitSteps, StoreSteps, dbVars, fileVars, rest, cleanVars,
     histVars
<1>45. CASE EditProject
  BY <1>45 DEF EditProject, Goto, Finish, Become, UnderPermit, Claimed,
     Occupied, TypeOK, Job, PermitSteps, StoreSteps, dbVars, fileVars, rest,
     cleanVars, histVars
<1>46. CASE Expire
  BY <1>46 DEF Expire, Goto, Finish, Become, UnderPermit, Claimed, Occupied,
     TypeOK, Job, PermitSteps, StoreSteps, dbVars, fileVars, rest, cleanVars,
     histVars
<1>47. CASE Crash
  BY <1>47 DEF Crash, Goto, Finish, Become, UnderPermit, Claimed, Occupied,
     TypeOK, Job, PermitSteps, StoreSteps, dbVars, fileVars, rest, cleanVars,
     histVars
<1>48. CASE UNCHANGED vars
  BY <1>48 DEF vars, UnderPermit, Claimed, Occupied
<1> QED
  BY <1>1, <1>2, <1>3, <1>4, <1>5, <1>6, <1>7, <1>8, <1>9, <1>10, <1>11,
     <1>12, <1>13, <1>14, <1>15, <1>16, <1>17, <1>18, <1>19, <1>20, <1>21,
     <1>22, <1>23, <1>24, <1>25, <1>26, <1>27, <1>28, <1>29, <1>30, <1>31,
     <1>32, <1>33, <1>34, <1>35, <1>36, <1>37, <1>38, <1>39, <1>40, <1>41,
     <1>42, <1>43, <1>44, <1>45, <1>46, <1>47, <1>48 DEF Next, Lookup,
     Forward, Store, Cleanup

\* The permits bound how many handlers are past the check, and a handler
\* passes it only while there is a free place.
LEMMA NextLimits == PermitInv /\ [Next]_vars => PermitInv'
<1> SUFFICES ASSUME PermitInv, [Next]_vars PROVE LimitInv'
  BY NextTypes DEF PermitInv
<1>1. TypeInv
  BY DEF PermitInv
<1>2. /\ IsFiniteSet(UnderPermit) /\ Cardinality(UnderPermit) \in Nat
      /\ IsFiniteSet(Claimed) /\ Cardinality(Claimed) \in Nat
      /\ MaxPermits \in Nat \ {0}
      /\ MaxEntries # NoLimit => MaxEntries \in Nat \ {0}
  BY <1>1, LimitSets, CacheAssumption
<1>3. ASSUME NEW w \in Workers, AcquirePermit(w) PROVE LimitInv'
  <2>1. UnderPermit' = UnderPermit \cup {w} /\ Claimed' = Claimed
    BY <1>1, <1>3 DEF AcquirePermit, Goto, Become, TypeInv, TypeOK, Job,
       UnderPermit, PermitSteps, StoreSteps, Claimed, Occupied, dbVars
  <2>2. Cardinality(UnderPermit \cup {w}) =
          IF w \in UnderPermit THEN Cardinality(UnderPermit)
                              ELSE Cardinality(UnderPermit) + 1
    BY <1>2, FS_AddElement
  <2>3. /\ Cardinality(UnderPermit') <= Cardinality(UnderPermit) + 1
        /\ Cardinality(UnderPermit') \in Nat
    BY <1>2, <2>1, <2>2
  <2> QED
    BY <1>2, <1>3, <2>1, <2>3 DEF AcquirePermit, PermitInv, LimitInv
<1>4. ASSUME NEW w \in Workers, CountEntries(w) PROVE LimitInv'
  <2>1. UnderPermit' = UnderPermit /\ Occupied' = Occupied
    BY <1>1, <1>4 DEF CountEntries, Goto, Become, TypeInv, TypeOK, Job,
       UnderPermit, PermitSteps, StoreSteps, Occupied, dbVars
  <2>2. CASE MaxEntries # NoLimit /\ ~Full
    <3> DEFINE E == {v \in Workers : job'[v].pc \in {"create"} \cup StoreSteps}
               T == {job[v].slot : v \in E}
    <3>1. E \subseteq UnderPermit
      BY <2>1 DEF UnderPermit, PermitSteps
    <3>2. Claimed' = Occupied \cup T
      BY <1>1, <1>4 DEF CountEntries, Goto, Become, TypeInv, TypeOK, Job,
         Claimed, Occupied, dbVars
    <3> HIDE DEF E
    <3>3. /\ IsFiniteSet(T) /\ Cardinality(T) \in Nat
          /\ Cardinality(T) <= Cardinality(UnderPermit)
      BY <1>1, <3>1, OneSlotEach
    <3> HIDE DEF T
    <3>4. /\ IsFiniteSet(Occupied) /\ Cardinality(Occupied) \in Nat
          /\ Cardinality(Occupied) < MaxEntries
      BY <1>1, <1>2, <2>2, LimitSets DEF Full
    <3>5. Occupied \cap T \subseteq Occupied
      OBVIOUS
    <3>6. Cardinality(Occupied \cap T) \in Nat
      BY <3>4, <3>5, FS_Subset, FS_CardinalityType
    <3>7. /\ Cardinality(Claimed') = Cardinality(Occupied) + Cardinality(T) - Cardinality(Occupied \cap T)
      BY <3>2, <3>3, <3>4, FS_Union
    <3> QED
      BY <1>2, <2>1, <3>3, <3>4, <3>6, <3>7 DEF PermitInv, LimitInv
  <2>3. CASE MaxEntries # NoLimit /\ Full
    <3>1. Claimed' = Claimed
      BY <1>1, <1>4, <2>3 DEF CountEntries, Goto, Become, TypeInv, TypeOK, Job,
         Claimed, Occupied, StoreSteps, dbVars
    <3> QED BY <2>1, <3>1 DEF PermitInv, LimitInv
  <2>4. CASE MaxEntries = NoLimit
    BY <2>1, <2>4 DEF PermitInv, LimitInv
  <2> QED BY <2>2, <2>3, <2>4
<1>5. CASE \A w \in Workers : ~ AcquirePermit(w) /\ ~ CountEntries(w)
  <2>1. UnderPermit' \subseteq UnderPermit /\ (MaxEntries # NoLimit => Claimed' \subseteq Claimed)
    BY <1>1, <1>5, OthersClaimNothing
  <2>2. Cardinality(UnderPermit') <= Cardinality(UnderPermit) /\ Cardinality(UnderPermit') \in Nat
    BY <1>2, <2>1, FS_Subset, FS_CardinalityType
  <2>3. MaxEntries # NoLimit => Cardinality(Claimed') <= Cardinality(Claimed) /\ Cardinality(Claimed') \in Nat
    BY <1>2, <2>1, FS_Subset, FS_CardinalityType
  <2> QED
    BY <1>2, <2>2, <2>3 DEF PermitInv, LimitInv
<1> QED BY <1>3, <1>4, <1>5

\* Concurrent inserts overshoot max_entries by less than the permits.
THEOREM CacheEntriesBounded == Spec => []EntriesBounded
<1>1. PermitInv => EntriesBounded
  <2> SUFFICES ASSUME PermitInv, MaxEntries # NoLimit
               PROVE  Cardinality(Occupied) <= MaxEntries - 1 + MaxPermits
    BY DEF EntriesBounded
  <2>1. Occupied \subseteq Claimed
    BY DEF Claimed
  <2>2. /\ Cardinality(Occupied) <= Cardinality(Claimed)
        /\ Cardinality(Occupied) \in Nat /\ Cardinality(Claimed) \in Nat
    BY <2>1, LimitSets, FS_Subset DEF PermitInv
  <2> QED BY <2>2, CacheAssumption DEF PermitInv, LimitInv
<1> QED BY InitLimits, NextLimits, <1>1, PTL DEF Spec

-----------------------------------------------------------------------------
(* Incomplete files. *)

\* Whose open file is in the directory is about to complete it, and without
\* deaths and failing writes nobody else leaves an incomplete one.
WritersInv ==
  /\ \A w \in attached : job[w].pc \in {"write_raw", "write_new"}
  /\ TornIsBeingWritten

FilesInv == TypeInv /\ WritersInv

\* One handler at a time.
LEMMA OthersStay ==
  ASSUME TypeInv, NEW w \in Workers, NEW j, Become(w, j)
  PROVE  \A v \in Workers \ {w} : job'[v] = job[v]
BY DEF TypeInv, TypeOK, Become

\* A handler that is at no file steps, and no file changes.
LEMMA AwayFromFiles ==
  ASSUME FilesInv, may' = may, NEW w \in Workers,
         job[w].pc \notin {"write_raw", "write_new"},
         \A v \in Workers \ {w} : job'[v] = job[v], UNCHANGED fileVars
  PROVE  WritersInv'
<1>1. \A v \in Workers \ {w} : job'[v] = job[v]
  BY DEF FilesInv, TypeInv, TypeOK, Become
<1>2. w \notin attached /\ attached \subseteq Workers
  BY DEF FilesInv, WritersInv, TypeInv, TypeOK
<1> QED BY <1>1, <1>2 DEF FilesInv, WritersInv, TornIsBeingWritten, fileVars

\* A handler opens a file, which is incomplete from then on.
LEMMA OpensFile ==
  ASSUME FilesInv, may' = may, NEW w \in Workers, NEW h \in Hashes, NEW j \in Job,
         job[w].pc \notin {"write_raw", "write_new"},
         Become(w, j), j.pc \in {"write_raw", "write_new"}, j.hash = h,
         blobs' = [blobs EXCEPT ![h] = "torn"], attached' = attached \cup {w}
  PROVE  WritersInv'
<1>1. job'[w] = j /\ \A v \in Workers \ {w} : job'[v] = job[v]
  BY DEF FilesInv, TypeInv, TypeOK, Become
<1>2. w \notin attached /\ attached \subseteq Workers
  BY DEF FilesInv, WritersInv, TypeInv, TypeOK
<1>3. \A g \in Hashes \ {h} : blobs'[g] = blobs[g]
  BY DEF FilesInv, TypeInv, TypeOK
<1> QED BY <1>1, <1>2, <1>3 DEF FilesInv, WritersInv, TornIsBeingWritten

\* A handler has written its content: where another one is at the same file,
\* that one still has it open.
LEMMA CompletesFile ==
  ASSUME FilesInv, may' = may, NEW w \in Workers, \A v \in Workers \ {w} : job'[v] = job[v], WriteAll(w)
  PROVE  WritersInv'
<1>1. \A v \in Workers \ {w} : job'[v] = job[v]
  BY DEF FilesInv, TypeInv, TypeOK, Become
<1>2. attached' = attached \ {w} /\ attached \subseteq Workers
  BY DEF WriteAll, FilesInv, TypeInv, TypeOK
<1> DEFINE h == job[w].hash
           others == {v \in attached \ {w} : job[v].hash = h}
<1>3. CASE w \notin attached
  BY <1>1, <1>2, <1>3 DEF FilesInv, WritersInv, TornIsBeingWritten, WriteAll
<1>4. CASE w \in attached
  <2>1. PICK b \in IF others = {} THEN {"whole"} ELSE {"torn", "whole"} :
          blobs' = [blobs EXCEPT ![h] = b]
    BY <1>4 DEF WriteAll
  <2>2. \A g \in Hashes \ {h} : blobs'[g] = blobs[g]
    BY <2>1 DEF FilesInv, TypeInv, TypeOK
  <2>3. h \in Hashes => blobs'[h] = b
    BY <2>1 DEF FilesInv, TypeInv, TypeOK
  <2>4. ASSUME may' \cap {"crash", "write_error"} = {}, NEW g \in Hashes, blobs'[g] = "torn"
        PROVE  \E v \in attached' : job'[v].hash = g /\ job'[v].pc \in {"write_raw", "write_new"}
    <3>1. CASE g = h
      <4>1. others # {}
        BY <2>1, <2>3, <2>4, <3>1
      <4>2. PICK v \in others : TRUE
        BY <4>1
      <4> QED BY <1>1, <1>2, <3>1, <4>2 DEF FilesInv, WritersInv
    <3>2. CASE g # h
      <4>1. PICK v \in attached : job[v].hash = g /\ job[v].pc \in {"write_raw", "write_new"}
        BY <2>2, <2>4, <3>2 DEF FilesInv, WritersInv, TornIsBeingWritten
      <4> QED BY <1>1, <1>2, <3>2, <4>1
    <3> QED BY <3>1, <3>2
  <2>5. \A v \in attached' : job'[v].pc \in {"write_raw", "write_new"}
    BY <1>1, <1>2 DEF FilesInv, WritersInv
  <2> QED BY <2>4, <2>5 DEF WritersInv, TornIsBeingWritten
<1> QED BY <1>3, <1>4

\* A file is deleted, and with its name those that are at it.
LEMMA DeletesFile ==
  ASSUME FilesInv, may' = may, NEW h \in Hashes, DeleteAt(h),
         \A v \in attached : job'[v] = job[v]
  PROVE  WritersInv'
<1>1. attached' = {v \in attached : job[v].hash # h}
  BY DEF DeleteAt
<1>2. blobs'[h] = "none" /\ \A g \in Hashes \ {h} : blobs'[g] = blobs[g]
  BY DEF DeleteAt, FilesInv, TypeInv, TypeOK
<1>3. ASSUME may' \cap {"crash", "write_error"} = {}, NEW g \in Hashes, blobs'[g] = "torn"
      PROVE  \E v \in attached' : job'[v].hash = g /\ job'[v].pc \in {"write_raw", "write_new"}
  <2>1. PICK v \in attached : job[v].hash = g /\ job[v].pc \in {"write_raw", "write_new"}
    BY <1>2, <1>3 DEF FilesInv, WritersInv, TornIsBeingWritten
  <2> QED BY <1>1, <1>2, <1>3, <2>1
<1> QED BY <1>1, <1>3 DEF FilesInv, WritersInv, TornIsBeingWritten

\* A handler gives up its write: where writes fail nothing is said of its file.
LEMMA LeavesFile ==
  ASSUME FilesInv, may' = may, NEW w \in Workers, \A v \in Workers \ {w} : job'[v] = job[v],
         "write_error" \in may, attached' = attached \ {w}
  PROVE  WritersInv'
<1>1. \A v \in Workers \ {w} : job'[v] = job[v]
  BY DEF FilesInv, TypeInv, TypeOK, Become
<1> QED BY <1>1 DEF FilesInv, WritersInv, TornIsBeingWritten, TypeInv, TypeOK

LEMMA InitFiles == Init => FilesInv
BY InitTypes DEF Init, FilesInv, WritersInv, TornIsBeingWritten, Hashes

LEMMA NextFiles == FilesInv /\ [Next]_vars => FilesInv'
<1> SUFFICES ASSUME FilesInv, [Next]_vars PROVE WritersInv'
  BY NextTypes DEF FilesInv
<1>0. may' = may
  BY SameMay
<1>a. TypeInv
  BY DEF FilesInv
<1> USE <1>0, <1>a
<1>1. ASSUME NEW w \in Workers, Lookup(w) PROVE WritersInv'
  <2>1. job[w].pc \notin {"write_raw", "write_new"}
    BY ZenonT(60), <1>1 DEF Lookup, Begin, BeginWithoutDb, Evict, EvictFails, SelectMisses, SelectFinds,
       BlobMissing, Replay, Replied, Goto, Finish
  <2>2. UNCHANGED fileVars
    <3>1. CASE Begin(w)
      BY <3>1 DEF Begin, fileVars
    <3>4. CASE BeginWithoutDb(w)
      BY <3>4 DEF BeginWithoutDb, fileVars
    <3>2. CASE Evict(w) \/ EvictFails(w) \/ SelectMisses(w) \/ SelectFinds(w) \/ BlobMissing(w)
      BY <3>2 DEF Evict, EvictFails, SelectMisses, SelectFinds, BlobMissing
    <3>3. CASE Replay(w) \/ Replied(w)
      BY <3>3 DEF Replay, Replied
    <3> QED BY <1>1, <3>1, <3>2, <3>3, <3>4 DEF Lookup
  <2>3. \E j : Become(w, j)
    BY ZenonT(60), <1>1 DEF Lookup, Begin, BeginWithoutDb, Evict, EvictFails, SelectMisses, SelectFinds,
       BlobMissing, Replay, Replied, Goto, Finish
  <2> QED BY <2>1, <2>2, <2>3, OthersStay, AwayFromFiles
<1>2. ASSUME NEW w \in Workers, Forward(w) PROVE WritersInv'
  <2>1. CASE StoreRaw(w)
    <3>1. PICK h \in Outputs :
            /\ Become(w, [job[w] EXCEPT !.pc = "write_raw", !.hash = h])
            /\ blobs' = [blobs EXCEPT ![h] = "torn"]
      BY Zenon, <2>1 DEF StoreRaw
    <3> DEFINE j == [job[w] EXCEPT !.pc = "write_raw", !.hash = h]
    <3>2. j \in Job /\ j.pc = "write_raw" /\ j.hash = h /\ h \in Hashes
      <4>1. job[w] \in Job
        BY DEF TypeInv, TypeOK
      <4> QED BY <4>1 DEF Job, Steps, Hashes
    <3>3. job[w].pc \notin {"write_raw", "write_new"} /\ attached' = attached \cup {w}
      BY <2>1 DEF StoreRaw
    <3> HIDE DEF j
    <3> QED BY <3>1, <3>2, <3>3, OpensFile DEF j
  <2>2. CASE WriteRaw(w)
    BY <2>2, OthersStay, CompletesFile DEF WriteRaw, Goto
  <2>3. CASE WriteRawFails(w)
    BY <2>3, OthersStay, LeavesFile DEF WriteRawFails, Goto
  <2>4. CASE ~(StoreRaw(w) \/ WriteRaw(w) \/ WriteRawFails(w))
    <3>1. job[w].pc \notin {"write_raw", "write_new"}
      BY ZenonT(60), <1>2, <2>4 DEF Forward, NothingToReduce, RegisterRaw, RegisterRawFails, AcquirePermit,
         NoPermit, NotStorable, Storable, Goto, Finish
    <3>2. UNCHANGED fileVars
      <4>1. CASE Storable(w)
        BY <4>1 DEF Storable, Become
      <4>2. CASE ~Storable(w)
        BY <1>2, <2>4, <4>2 DEF Forward, NothingToReduce, RegisterRaw, RegisterRawFails,
           AcquirePermit, NoPermit, NotStorable
      <4> QED BY <4>1, <4>2
    <3>3. \E j : Become(w, j)
      BY ZenonT(60), <1>2, <2>4 DEF Forward, NothingToReduce, RegisterRaw, RegisterRawFails, AcquirePermit,
         NoPermit, NotStorable, Storable, Goto, Finish
    <3> QED BY <3>1, <3>2, <3>3, OthersStay, AwayFromFiles
  <2> QED BY <2>1, <2>2, <2>3, <2>4
<1>3. ASSUME NEW w \in Workers, Store(w) PROVE WritersInv'
  <2>1. CASE CreateNew(w)
    <3> DEFINE j == [job[w] EXCEPT !.pc = "write_new", !.made = TRUE]
    <3>1. Become(w, j) /\ job[w].pc = "create" /\ blobs' = [blobs EXCEPT ![job[w].hash] = "torn"]
          /\ attached' = attached \cup {w}
      BY <2>1 DEF CreateNew
    <3>2. j \in Job /\ j.pc = "write_new" /\ j.hash = job[w].hash
      <4>1. job[w] \in Job
        BY DEF TypeInv, TypeOK
      <4> QED BY <4>1 DEF Job, Steps
    <3>3. job[w].hash \in Hashes
      BY <3>1 DEF FilesInv, TypeInv, JobInv, JobOK, PermitSteps, Hashes
    <3> HIDE DEF j
    <3> QED BY <3>1, <3>2, <3>3, OpensFile
  <2>2. CASE WriteNew(w)
    BY <2>2, OthersStay, CompletesFile DEF WriteNew, Goto
  <2>3. CASE WriteNewFails(w)
    BY <2>3, OthersStay, LeavesFile DEF WriteNewFails, Finish
  <2>4. CASE Undo(w)
    <3>1. job[w].pc = "undo" /\ Become(w, Idle) /\ DeleteAt(job[w].hash)
      BY <2>4 DEF Undo, Finish
    <3>2. job[w].hash \in Hashes
      BY <3>1 DEF FilesInv, TypeInv, JobInv, JobOK, PermitSteps, StoreSteps, Hashes
    <3>3. \A v \in attached : job'[v] = job[v]
      BY <3>1 DEF FilesInv, WritersInv, TypeInv, TypeOK, Become
    <3> QED BY <3>1, <3>2, <3>3, DeletesFile
  <2>5. CASE ~(CreateNew(w) \/ WriteNew(w) \/ WriteNewFails(w) \/ Undo(w))
    <3>1. job[w].pc \notin {"write_raw", "write_new"}
      BY ZenonT(60), <1>3, <2>5 DEF Store, EvictAgain, LimitsUnreadable, CountEntries, ReplaceExisting,
         OverLimit, KeepExisting, CreateFails, Stamp, SelectKnown, RegisterHash, AddRef, PutRow,
         InsertFails, Goto, Finish
    <3>2. UNCHANGED fileVars
      BY <1>3, <2>5 DEF Become, Store, EvictAgain, LimitsUnreadable, CountEntries, ReplaceExisting,
         OverLimit, KeepExisting, CreateFails, Stamp, SelectKnown, RegisterHash, AddRef, PutRow,
         InsertFails, Goto, Finish
    <3>3. \E j : Become(w, j)
      BY ZenonT(60), <1>3, <2>5 DEF Store, EvictAgain, LimitsUnreadable, CountEntries, ReplaceExisting,
         OverLimit, KeepExisting, CreateFails, Stamp, SelectKnown, RegisterHash, AddRef, PutRow,
         InsertFails, Goto, Finish
    <3> QED BY <3>1, <3>2, <3>3, OthersStay, AwayFromFiles
  <2> QED BY <2>1, <2>2, <2>3, <2>4, <2>5
<1>4. ASSUME Cleanup PROVE WritersInv'
  <2>1. CASE DeleteOrphan
    BY <2>1, DeletesFile DEF DeleteOrphan, FilesInv, TypeInv, TypeOK
  <2>2. CASE ~DeleteOrphan
    BY <1>4, <2>2 DEF Cleanup, ScanKnown, ScanRows, ScanRefs, ListDirectory, CleanupDone,
       FilesInv, WritersInv, TornIsBeingWritten, fileVars
  <2> QED BY <2>1, <2>2
<1>5. CASE OpenElsewhere \/ Clear \/ EditProject \/ Expire
  BY <1>5 DEF OpenElsewhere, Clear, EditProject, Expire, FilesInv, WritersInv,
     TornIsBeingWritten, fileVars
<1>6. CASE Crash
  BY <1>6 DEF Crash, WritersInv, TornIsBeingWritten
<1>7. CASE UNCHANGED vars
  BY <1>7 DEF vars, FilesInv, WritersInv, TornIsBeingWritten
<1> QED BY <1>1, <1>2, <1>3, <1>4, <1>5, <1>6, <1>7 DEF Next

\* However failed inserts, cleanups and writers of one content overlap, an
\* incomplete file is one that somebody is about to complete.
THEOREM CacheTornIsBeingWritten == Spec => []TornIsBeingWritten
<1>1. FilesInv => TornIsBeingWritten
  BY DEF FilesInv, WritersInv
<1> QED BY InitFiles, NextFiles, <1>1, PTL DEF Spec

-----------------------------------------------------------------------------
(* Who created a file. *)

\* Where no cleanup overlaps, an insert that created its file finds it there.
MakersInv ==
  /\ "online_cleanup" \notin may /\ cleaner # "idle" => Storing = {}
  /\ MadeByOne

MadeInv == TypeInv /\ MakersInv

\* Only an insert can have created a file.
LEMMA MakersStore ==
  ASSUME TypeInv, NEW w \in Workers, job[w].made
  PROVE  w \in Storing /\ job[w].hash \in Hashes
BY DEF TypeInv, JobInv, JobOK, Storing, StoreSteps, PermitSteps, Hashes

\* A handler that creates no file steps, and no file is deleted.
LEMMA MakesNothing ==
  ASSUME MadeInv, may' = may, NEW w \in Workers, cleaner' = cleaner,
         \A v \in Workers \ {w} : job'[v] = job[v],
         job'[w].pc \in StoreSteps => job[w].pc \in StoreSteps \/ MayStore,
         job'[w].made => job[w].made /\ job'[w].hash = job[w].hash,
         \A h \in Hashes : blobs'[h] = "none" => blobs[h] = "none"
  PROVE  MakersInv'
<1>1. ASSUME "online_cleanup" \notin may', cleaner' # "idle" PROVE Storing' = {}
  <2>1. Storing = {}
    BY <1>1 DEF MadeInv, MakersInv
  <2>2. \A v \in Workers : job[v].pc \notin StoreSteps
    BY <2>1 DEF Storing
  <2>3. ~MayStore
    BY <1>1 DEF MayStore
  <2>4. \A v \in Workers : job'[v].pc \notin StoreSteps
    BY <2>2, <2>3
  <2> QED BY <2>4 DEF Storing
<1>2. ASSUME "online_cleanup" \notin may', NEW u \in Workers, job'[u].made
      PROVE  /\ blobs'[job'[u].hash] # "none"
             /\ \A v \in Workers \ {u} : job'[v].made => job'[v].hash # job'[u].hash
  <2>1. \A v \in Workers : job'[v].made => job[v].made /\ job'[v].hash = job[v].hash
    OBVIOUS
  <2>2. job[u].made /\ job'[u].hash = job[u].hash
    BY <1>2, <2>1
  <2>3. job[u].hash \in Hashes
    BY <2>2, MakersStore DEF MadeInv
  <2>4. /\ blobs[job[u].hash] # "none"
        /\ \A v \in Workers \ {u} : job[v].made => job[v].hash # job[u].hash
    BY <1>2, <2>2 DEF MadeInv, MakersInv, MadeByOne
  <2> QED BY <2>1, <2>2, <2>3, <2>4
<1> QED BY <1>1, <1>2 DEF MakersInv, MadeByOne

\* An insert creates a file that was not there, so nobody else has created it.
LEMMA MakesFile ==
  ASSUME MadeInv, may' = may, NEW w \in Workers, CreateNew(w)
  PROVE  MakersInv'
<1>1. /\ job'[w] = [job[w] EXCEPT !.pc = "write_new", !.made = TRUE]
      /\ \A v \in Workers \ {w} : job'[v] = job[v]
      /\ cleaner' = cleaner
  BY DEF CreateNew, Become, MadeInv, TypeInv, TypeOK, rest, cleanVars
<1>2. job[w].pc = "create" /\ blobs[job[w].hash] = "none" /\ MayStore
  BY DEF CreateNew
<1>3. job'[w].hash = job[w].hash /\ job[w].hash \in Hashes
  <2>1. job[w] \in Job
    BY DEF MadeInv, TypeInv, TypeOK
  <2>2. job[w].hash \in Hashes
    BY <1>2 DEF MadeInv, TypeInv, JobInv, JobOK, PermitSteps, Hashes
  <2> QED BY <1>1, <2>1, <2>2 DEF Job
<1>4. /\ blobs'[job[w].hash] # "none"
      /\ \A h \in Hashes : blobs'[h] = "none" => blobs[h] = "none"
  BY <1>3 DEF CreateNew, MadeInv, TypeInv, TypeOK
<1>5. ASSUME "online_cleanup" \notin may PROVE \A v \in Workers \ {w} : job[v].made => job[v].hash # job[w].hash
  BY <1>2, <1>5 DEF MadeInv, MakersInv, MadeByOne
<1>6. ASSUME "online_cleanup" \notin may, cleaner' # "idle" PROVE FALSE
  BY <1>1, <1>2, <1>6 DEF MayStore
<1>7. ASSUME "online_cleanup" \notin may, NEW u \in Workers, job'[u].made
      PROVE  /\ blobs'[job'[u].hash] # "none"
             /\ \A v \in Workers \ {u} : job'[v].made => job'[v].hash # job'[u].hash
  <2>1. CASE u = w
    <3>1. \A v \in Workers \ {w} : job'[v].made => job'[v].hash # job[w].hash
      BY <1>1, <1>5, <1>7
    <3>2. job'[u].hash = job[w].hash
      BY <1>3, <2>1
    <3> QED BY <1>4, <2>1, <3>1, <3>2
  <2>2. CASE u # w
    <3>1. job[u].made /\ job'[u] = job[u] /\ job[u].hash \in Hashes
      BY <1>1, <1>7, <2>2, MakersStore DEF MadeInv
    <3>2. /\ blobs[job[u].hash] # "none"
          /\ \A v \in Workers \ {u} : job[v].made => job[v].hash # job[u].hash
      BY <1>7, <3>1 DEF MadeInv, MakersInv, MadeByOne
    <3>3. job[u].hash # job[w].hash
      BY <1>2, <3>2
    <3> QED BY <1>1, <1>3, <1>4, <3>1, <3>2, <3>3
  <2> QED BY <2>1, <2>2
<1> QED BY <1>6, <1>7 DEF MakersInv, MadeByOne

\* A failed insert deletes the file it created, which is that of no other insert.
LEMMA UnmakesFile ==
  ASSUME MadeInv, may' = may, NEW w \in Workers, Undo(w)
  PROVE  MakersInv'
<1>1. /\ job'[w] = Idle
      /\ \A v \in Workers \ {w} : job'[v] = job[v]
      /\ cleaner' = cleaner /\ job[w].pc = "undo"
  BY DEF Undo, Finish, Become, MadeInv, TypeInv, TypeOK, rest, cleanVars
<1>2. job[w].made
  BY <1>1 DEF MadeInv, TypeInv, JobInv, JobOK
<1>3. \A h \in Hashes \ {job[w].hash} : blobs'[h] = blobs[h]
  BY DEF Undo, DeleteAt, MadeInv, TypeInv, TypeOK
<1>4. ~job'[w].made /\ job'[w].pc \notin StoreSteps
  BY <1>1, IdleIsJob DEF StoreSteps
<1>5. ASSUME "online_cleanup" \notin may, cleaner' # "idle" PROVE FALSE
  <2>1. Storing = {}
    BY <1>1, <1>5 DEF MadeInv, MakersInv
  <2> QED BY <1>1, <2>1 DEF Storing, StoreSteps
<1>6. ASSUME "online_cleanup" \notin may, NEW u \in Workers, job'[u].made
      PROVE  /\ blobs'[job'[u].hash] # "none"
             /\ \A v \in Workers \ {u} : job'[v].made => job'[v].hash # job'[u].hash
  <2>1. u # w /\ job'[u] = job[u] /\ job[u].made /\ job[u].hash \in Hashes
    BY <1>1, <1>4, <1>6, MakersStore DEF MadeInv
  <2>2. /\ blobs[job[u].hash] # "none"
        /\ \A v \in Workers \ {u} : job[v].made => job[v].hash # job[u].hash
    BY <1>6, <2>1 DEF MadeInv, MakersInv, MadeByOne
  <2> QED BY <1>1, <1>2, <1>3, <1>4, <2>1, <2>2
<1> QED BY <1>5, <1>6 DEF MakersInv, MadeByOne

\* Writing completes a file or leaves it as it is.
LEMMA WriteKeepsFiles ==
  ASSUME TypeInv, NEW w \in Workers, WriteAll(w)
  PROVE  \A h \in Hashes : blobs'[h] = "none" => blobs[h] = "none"
<1>1. CASE w \notin attached
  BY <1>1 DEF WriteAll
<1>2. CASE w \in attached
  <2>1. PICK b \in {"torn", "whole"} : blobs' = [blobs EXCEPT ![job[w].hash] = b]
    BY <1>2 DEF WriteAll
  <2> QED BY <2>1 DEF TypeInv, TypeOK
<1> QED BY <1>1, <1>2

\* A handler that is well-formed keeps its fields but those that are set.
LEMMA SetsFields ==
  ASSUME NEW j \in Job, NEW pc, NEW x
  PROVE  /\ [j EXCEPT !.pc = pc, !.hash = x].pc = pc
         /\ [j EXCEPT !.pc = pc, !.bytes = x].pc = pc
         /\ \A y, z : [j EXCEPT !.pc = pc, !.slot = x, !.domain = y, !.seen = z].pc = pc
         /\ LET k == [j EXCEPT !.pc = pc, !.stamp = x]
            IN k.pc = pc /\ k.made = j.made /\ k.hash = j.hash
         /\ LET k == [j EXCEPT !.pc = pc, !.fresh = x]
            IN k.pc = pc /\ k.made = j.made /\ k.hash = j.hash
BY DEF Job

LEMMA Becomes ==
  ASSUME TypeInv, NEW w \in Workers, NEW j, Become(w, j)
  PROVE  job'[w] = j /\ \A v \in Workers \ {w} : job'[v] = job[v]
BY DEF Become, TypeInv, TypeOK

\* What a handler keeps when it goes on to its next step.
LEMMA GoesTo ==
  ASSUME TypeInv, NEW w \in Workers, NEW from, NEW to, Goto(w, from, to)
  PROVE  /\ job'[w].pc = to /\ job'[w].made = job[w].made /\ job'[w].hash = job[w].hash
         /\ \A v \in Workers \ {w} : job'[v] = job[v]
         /\ job[w].pc = from
<1>1. job[w] \in Job
  BY DEF TypeInv, TypeOK
<1> QED BY <1>1 DEF Goto, Become, Job, TypeInv, TypeOK

LEMMA Finishes ==
  ASSUME TypeInv, NEW w \in Workers, NEW from, Finish(w, from)
  PROVE  /\ job'[w].pc = "idle"
         /\ \A v \in Workers \ {w} : job'[v] = job[v]
BY IdleIsJob DEF Finish, Become, TypeInv, TypeOK

LEMMA InitMakers == Init => MadeInv
BY InitTypes, IdleIsJob DEF Init, MadeInv, MakersInv, MadeByOne

LEMMA NextMakers == MadeInv /\ [Next]_vars => MadeInv'
<1> SUFFICES ASSUME MadeInv, [Next]_vars PROVE MakersInv'
  BY NextTypes DEF MadeInv
<1>0. may' = may
  BY SameMay
<1>a. TypeInv
  BY DEF MadeInv
<1>b. \A w \in Workers : job'[w].pc \notin StoreSteps => ~job'[w].made
  BY <1>a, NextTypes DEF TypeInv, JobInv, JobOK
<1> USE <1>0, <1>a
<1>1. ASSUME NEW w \in Workers, Lookup(w) PROVE MakersInv'
  <2>1. job'[w].pc \notin StoreSteps /\ \A v \in Workers \ {w} : job'[v] = job[v]
    <3>1. job[w] \in Job
      BY DEF TypeInv, TypeOK
    <3>2. CASE Begin(w) \/ BeginWithoutDb(w)
      <4>1. PICK s \in Slots, d \in Domains, pc \in {"evict", "reduce"} :
               Become(w, [Idle EXCEPT !.pc = pc, !.slot = s, !.domain = d, !.seen = workspace])
        BY <3>2 DEF Begin, BeginWithoutDb
      <4> DEFINE j == [Idle EXCEPT !.pc = pc, !.slot = s, !.domain = d, !.seen = workspace]
      <4>2. Become(w, j) /\ j.pc = pc
        BY <4>1, IdleIsJob, SetsFields
      <4> HIDE DEF j
      <4> QED BY <4>2, Becomes DEF StoreSteps
    <3>3. CASE Evict(w) \/ EvictFails(w) \/ SelectMisses(w)
      BY <3>3, GoesTo DEF Evict, EvictFails, SelectMisses, StoreSteps
    <3>4. CASE SelectFinds(w) \/ BlobMissing(w) \/ Replay(w)
      <4>1. PICK j : Become(w, j) /\ j.pc \in {"read", "reduce", "hit"}
        <5>1. CASE SelectFinds(w)
          <6> DEFINE j == [job[w] EXCEPT !.pc = "read", !.hash = rows[job[w].slot].hash]
          <6>1. Become(w, j)
            BY <5>1 DEF SelectFinds
          <6>2. j.pc = "read"
            BY <3>1, SetsFields
          <6> HIDE DEF j
          <6> QED BY <6>1, <6>2
        <5>2. CASE BlobMissing(w)
          <6> DEFINE j == [job[w] EXCEPT !.pc = "reduce", !.hash = NoHash]
          <6>1. Become(w, j)
            BY <5>2 DEF BlobMissing
          <6>2. j.pc = "reduce"
            BY <3>1, SetsFields
          <6> HIDE DEF j
          <6> QED BY <6>1, <6>2
        <5>3. CASE Replay(w)
          <6> DEFINE j == [job[w] EXCEPT !.pc = "hit", !.bytes = blobs[job[w].hash]]
          <6>1. Become(w, j)
            BY <5>3 DEF Replay
          <6>2. j.pc = "hit"
            BY <3>1, SetsFields
          <6> HIDE DEF j
          <6> QED BY <6>1, <6>2
        <5> QED BY <3>4, <5>1, <5>2, <5>3
      <4> QED BY <4>1, Becomes DEF StoreSteps
    <3>5. CASE Replied(w)
      BY <3>5, Finishes DEF Replied, StoreSteps
    <3> QED BY <1>1, <3>2, <3>3, <3>4, <3>5 DEF Lookup
  <2>2. UNCHANGED blobs /\ cleaner' = cleaner
    BY <1>1 DEF Lookup, Begin, BeginWithoutDb, Evict, EvictFails, SelectMisses, SelectFinds,
       BlobMissing, Replay, Replied, fileVars, rest, cleanVars
  <2> QED BY <1>b, <2>1, <2>2, MakesNothing
<1>2. ASSUME NEW w \in Workers, Forward(w) PROVE MakersInv'
  <2>1. job'[w].pc \notin StoreSteps /\ \A v \in Workers \ {w} : job'[v] = job[v]
    <3>1. job[w] \in Job
      BY DEF TypeInv, TypeOK
    <3>2. CASE StoreRaw(w) \/ Storable(w)
      <4>1. PICK j : Become(w, j) /\ j.pc \in {"write_raw", "evict_again"}
        <5>1. CASE StoreRaw(w)
          <6>1. PICK h \in Outputs : Become(w, [job[w] EXCEPT !.pc = "write_raw", !.hash = h])
            BY Zenon, <5>1 DEF StoreRaw
          <6> DEFINE j == [job[w] EXCEPT !.pc = "write_raw", !.hash = h]
          <6>2. Become(w, j) /\ j.pc = "write_raw"
            BY <3>1, <6>1, SetsFields
          <6> HIDE DEF j
          <6> QED BY <6>2
        <5>2. CASE Storable(w)
          <6>1. PICK h \in Answers : Become(w, [job[w] EXCEPT !.pc = "evict_again", !.hash = h])
            BY Zenon, <5>2 DEF Storable
          <6> DEFINE j == [job[w] EXCEPT !.pc = "evict_again", !.hash = h]
          <6>2. Become(w, j) /\ j.pc = "evict_again"
            BY <3>1, <6>1, SetsFields
          <6> HIDE DEF j
          <6> QED BY <6>2
        <5> QED BY <3>2, <5>1, <5>2
      <4> QED BY <4>1, Becomes DEF StoreSteps
    <3>3. CASE NothingToReduce(w) \/ WriteRaw(w) \/ WriteRawFails(w) \/ RegisterRaw(w)
               \/ RegisterRawFails(w) \/ AcquirePermit(w)
      BY <3>3, GoesTo DEF NothingToReduce, WriteRaw, WriteRawFails, RegisterRaw, RegisterRawFails,
         AcquirePermit, StoreSteps
    <3>4. CASE NoPermit(w) \/ NotStorable(w)
      BY <3>4, Finishes DEF NoPermit, NotStorable, StoreSteps
    <3> QED BY <1>2, <3>2, <3>3, <3>4 DEF Forward
  <2>2. cleaner' = cleaner
    BY <1>2 DEF Forward, NothingToReduce, StoreRaw, WriteRaw, WriteRawFails, RegisterRaw,
       RegisterRawFails, AcquirePermit, NoPermit, NotStorable, Storable, rest, cleanVars
  <2>3. \A h \in Hashes : blobs'[h] = "none" => blobs[h] = "none"
    <3>1. CASE StoreRaw(w)
      BY <3>1 DEF StoreRaw, TypeInv, TypeOK
    <3>2. CASE WriteRaw(w)
      BY <3>2, WriteKeepsFiles DEF WriteRaw
    <3>3. CASE ~(StoreRaw(w) \/ WriteRaw(w))
      BY <1>2, <3>3 DEF Forward, NothingToReduce, WriteRawFails, RegisterRaw, RegisterRawFails,
         AcquirePermit, NoPermit, NotStorable, Storable, fileVars
    <3> QED BY <3>1, <3>2, <3>3
  <2> QED BY <1>b, <2>1, <2>2, <2>3, MakesNothing
<1>3. ASSUME NEW w \in Workers, Store(w) PROVE MakersInv'
  <2>1. CASE CreateNew(w)
    BY <2>1, MakesFile
  <2>2. CASE Undo(w)
    BY <2>2, UnmakesFile
  <2>3. CASE EvictAgain(w) \/ LimitsUnreadable(w) \/ CountEntries(w) \/ ReplaceExisting(w)
             \/ OverLimit(w) \/ CreateFails(w) \/ WriteNewFails(w) \/ PutRow(w)
    <3>1. PICK j : Become(w, j) /\ j.pc \in {"count", "create", "idle", "exists"}
      <4>1. job[w] \in Job
        BY DEF TypeInv, TypeOK
      <4> QED BY <2>3, <4>1, IdleIsJob DEF EvictAgain, LimitsUnreadable, CountEntries, ReplaceExisting,
           OverLimit, CreateFails, WriteNewFails, PutRow, Goto, Finish, Job
    <3>2. UNCHANGED blobs /\ cleaner' = cleaner
      BY <2>3 DEF EvictAgain, LimitsUnreadable, CountEntries, ReplaceExisting, OverLimit, CreateFails,
         WriteNewFails, PutRow, fileVars, rest, cleanVars
    <3>3. job'[w].pc \notin StoreSteps /\ \A v \in Workers \ {w} : job'[v] = job[v]
      BY <3>1 DEF Become, StoreSteps, TypeInv, TypeOK
    <3> QED BY <1>b, <3>2, <3>3, MakesNothing
  <2>4. CASE KeepExisting(w) \/ WriteNew(w) \/ Stamp(w) \/ SelectKnown(w) \/ RegisterHash(w)
             \/ AddRef(w) \/ (InsertFails(w) /\ job'[w].pc = "undo")
    <3>1. /\ job'[w].made = job[w].made /\ job'[w].hash = job[w].hash
          /\ \A v \in Workers \ {w} : job'[v] = job[v]
          /\ job[w].pc \in StoreSteps \/ MayStore
      <4>1. CASE KeepExisting(w) \/ WriteNew(w)
        BY <4>1, GoesTo DEF KeepExisting, WriteNew, StoreSteps
      <4>2. CASE RegisterHash(w) \/ AddRef(w)
        BY <4>2, GoesTo DEF RegisterHash, AddRef, StoreSteps
      <4>3. CASE Stamp(w) \/ SelectKnown(w)
        <5>1. job[w] \in Job
          BY DEF TypeInv, TypeOK
        <5>2. PICK j : Become(w, j) /\ j.made = job[w].made /\ j.hash = job[w].hash
          <6>1. CASE Stamp(w)
            <7> DEFINE j == [job[w] EXCEPT !.pc = "known", !.stamp = workspace]
            <7>1. Become(w, j)
              BY <6>1 DEF Stamp
            <7>2. j.made = job[w].made /\ j.hash = job[w].hash
              BY <5>1, SetsFields
            <7> HIDE DEF j
            <7> QED BY <7>1, <7>2
          <6>2. CASE SelectKnown(w)
            <7> DEFINE j == [job[w] EXCEPT !.pc = "register", !.fresh = job[w].hash \notin known]
            <7>1. Become(w, j)
              BY <6>2 DEF SelectKnown
            <7>2. j.made = job[w].made /\ j.hash = job[w].hash
              BY <5>1, SetsFields
            <7> HIDE DEF j
            <7> QED BY <7>1, <7>2
          <6> QED BY <4>3, <6>1, <6>2
        <5>3. job[w].pc \in StoreSteps
          BY <4>3 DEF Stamp, SelectKnown, StoreSteps
        <5> QED BY <5>2, <5>3, Becomes
      <4>4. CASE InsertFails(w) /\ job'[w].pc = "undo"
        <5>1. PICK from \in {"stamp", "known", "register", "ref", "row"} :
                 Goto(w, from, "undo") \/ Finish(w, from)
          BY <4>4 DEF InsertFails
        <5> QED BY <4>4, <5>1, GoesTo, Finishes DEF StoreSteps
      <4> QED BY <2>4, <4>1, <4>2, <4>3, <4>4
    <3>2. cleaner' = cleaner
      BY <2>4 DEF KeepExisting, WriteNew, Stamp, SelectKnown, RegisterHash, AddRef, InsertFails,
         rest, cleanVars
    <3>3. \A h \in Hashes : blobs'[h] = "none" => blobs[h] = "none"
      BY <2>4, WriteKeepsFiles DEF KeepExisting, WriteNew, Stamp, SelectKnown, RegisterHash, AddRef,
         InsertFails, fileVars
    <3> QED BY <3>1, <3>2, <3>3, MakesNothing
  <2>5. CASE InsertFails(w) /\ job'[w].pc # "undo"
    <3>1. Become(w, Idle) /\ UNCHANGED blobs /\ cleaner' = cleaner
      BY <2>5 DEF InsertFails, Goto, Finish, Become, TypeInv, TypeOK, fileVars, rest, cleanVars, Job
    <3>2. job'[w].pc \notin StoreSteps /\ \A v \in Workers \ {w} : job'[v] = job[v]
      BY <3>1, IdleIsJob DEF Become, StoreSteps, TypeInv, TypeOK
    <3> QED BY <1>b, <3>1, <3>2, MakesNothing
  <2> QED BY <1>3, <2>1, <2>2, <2>3, <2>4, <2>5 DEF Store
<1>4. ASSUME Cleanup PROVE MakersInv'
  <2>1. UNCHANGED job
    BY <1>4 DEF Cleanup, ScanKnown, ScanRows, ScanRefs, ListDirectory, DeleteOrphan, CleanupDone
  <2>2. "online_cleanup" \notin may => Storing = {}
    BY <1>4 DEF Cleanup, ScanKnown, ScanRows, ScanRefs, ListDirectory, DeleteOrphan, CleanupDone,
       MadeInv, MakersInv
  <2>3. "online_cleanup" \notin may => \A w \in Workers : ~job[w].made
    BY <2>2, MakersStore
  <2> QED BY <2>1, <2>2, <2>3 DEF MakersInv, MadeByOne, Storing
<1>5. CASE OpenElsewhere \/ Clear \/ EditProject \/ Expire
  BY <1>5 DEF OpenElsewhere, Clear, EditProject, Expire, MadeInv, MakersInv, MadeByOne, Storing,
     fileVars, rest, cleanVars
<1>6. CASE Crash
  <2>1. \A w \in Workers : job'[w] = Idle
    BY <1>6 DEF Crash
  <2> QED BY <2>1, IdleIsJob DEF MakersInv, MadeByOne, Storing, StoreSteps
<1>7. CASE UNCHANGED vars
  BY <1>7 DEF vars, MadeInv, MakersInv, MadeByOne, Storing
<1> QED BY <1>1, <1>2, <1>3, <1>4, <1>5, <1>6, <1>7 DEF Next

\* However inserts, deletions and kills follow one another, a failed insert deletes
\* the file it created, not one another insert created anew (routes.rs:735).
THEOREM CacheMadeByOne == Spec => []MadeByOne
<1>1. MadeInv => MadeByOne
  BY DEF MadeInv, MakersInv
<1> QED BY InitMakers, NextMakers, <1>1, PTL DEF Spec

=============================================================================
