------------------------ MODULE ExternalLibraryProofs ------------------------
(***************************************************************************)
(* Proofs about an external library.  About one of its files               *)
(* (ExternalTrack), for every kind of provider and any number of edits and *)
(* faults: an edit is not lost but through the gaps the history names, and *)
(* the library shows what the item's state says.  About its syncs          *)
(* (ExternalSync), for any changes on disk and any number of tasks: until  *)
(* a sync outlives the hour of its lock, no two of them run at one time,   *)
(* and no change that was made under the eyes of the watchdog is lost but  *)
(* through one of the named gaps.                                          *)
(***************************************************************************)
EXTENDS ExternalTrack, ExternalSync, FiniteSetTheorems, WellFoundedInduction, TLAPS

-----------------------------------------------------------------------------
(***************************************************************************)
(* One file and its track.                                                 *)
(***************************************************************************)

(* A sync that has not been crossed by its owner finds the state it read.  *)
LibraryInv ==
  ~crossed =>
    /\ state = "active" /\ track # 0 => inLibrary
    /\ state = "tombstoned" => ~inLibrary
    /\ Syncing => run.state = state

(* An edit that has not reached the provider is marked as one, or about to *)
(* be: a sync that reads it unmarked and flagged does not overwrite it,    *)
(* because it has reached the provider.                                    *)
EditInv ==
  /\ TypeOK
  /\ track <= edits /\ source <= edits /\ writing <= edits
  /\ Syncing => run.track <= edits /\ run.value <= edits
  /\ local # 0 /\ ~slipped /\ local \notin provided =>
       track = local /\ (edited \/ flagging)
  /\ run.decision = "updated" /\ local # 0 /\ ~slipped /\ run.flagged /\ track = run.track =>
       local \in provided

-----------------------------------------------------------------------------
(* What the sync reads of the item.                                        *)
LEMMA ReadType ==
  ASSUME NEW d \in Decision, NEW v \in Value, NEW s \in State, NEW p \in BOOLEAN,
         NEW t \in 0..MaxEdits, NEW f \in BOOLEAN, NEW seen \in BOOLEAN
  PROVE  [decision |-> d, value |-> v, state |-> s, pending |-> p, track |-> t,
          flagged |-> f, seen |-> seen] \in Read
BY DEF Read

(* An item nobody has synced yet.                                          *)
LEMMA InitTypes == Init => TypeOK
<1> SUFFICES ASSUME Init PROVE TypeOK
  OBVIOUS
<1>1. /\ source \in Value /\ edits \in Value /\ provided \subseteq Value
      /\ track \in 0..MaxEdits /\ fingerprint \in 0..MaxEdits /\ etag \in 0..MaxEdits
      /\ writing \in 0..MaxEdits /\ local \in 0..MaxEdits /\ faults \in 0..MaxFaults
  BY ExternalTrackAssumption DEF Init, Value
<1>2. /\ adapter \in Providers /\ state \in State /\ run \in Read \cup {Idle}
  BY DEF Init, State
<1>3. /\ present \in BOOLEAN /\ inLibrary \in BOOLEAN /\ edited \in BOOLEAN
      /\ pending \in BOOLEAN /\ stored \in BOOLEAN /\ flagging \in BOOLEAN
      /\ queued \in BOOLEAN /\ slipped \in BOOLEAN /\ crossed \in BOOLEAN
  BY Zenon DEF Init
<1> QED
  BY <1>1, <1>2, <1>3, Zenon DEF TypeOK

(* The numbers, sets and names of a step; its flags follow below.          *)
Plain ==
  /\ adapter \in Providers /\ source \in Value /\ state \in State
  /\ track \in 0..MaxEdits /\ fingerprint \in 0..MaxEdits /\ etag \in 0..MaxEdits
  /\ writing \in 0..MaxEdits /\ faults \in 0..MaxFaults /\ edits \in Value
  /\ local \in 0..MaxEdits /\ provided \subseteq Value /\ run \in Read \cup {Idle}

Flags ==
  /\ present \in BOOLEAN /\ inLibrary \in BOOLEAN /\ edited \in BOOLEAN
  /\ pending \in BOOLEAN /\ stored \in BOOLEAN /\ flagging \in BOOLEAN
  /\ queued \in BOOLEAN /\ slipped \in BOOLEAN /\ crossed \in BOOLEAN

(* Edits and faults are counted up to their bounds.                        *)
LEMMA Counted ==
  ASSUME Plain
  PROVE  /\ NewValue => edits' \in Value /\ edits' \in 0..MaxEdits /\ edits' > edits
         /\ Fault => faults' \in 0..MaxFaults
         /\ \A v \in Value : v \in 0..MaxEdits
         /\ 0 \in 0..MaxEdits
BY ExternalTrackAssumption DEF Plain, NewValue, Fault, Value

(* The sync keeps the types.                                               *)
LEMMA SyncTypes == TypeOK /\ Sync => TypeOK'
<1> SUFFICES ASSUME TypeOK, Sync PROVE TypeOK'
  OBVIOUS
<1>0. Plain /\ Flags
  BY Zenon DEF TypeOK, Plain, Flags
<1>1. ASSUME NEW include \in BOOLEAN, NEW fails \in BOOLEAN, SyncRead(include, fails)
      PROVE TypeOK'
  <2>1. faults' \in 0..MaxFaults
    <3>1. Fault \/ UNCHANGED faults
      BY <1>1, Zenon DEF SyncRead
    <3> QED
      BY <1>0, <3>1, Counted DEF Plain
  <2>2. run' \in Read
    <3> DEFINE d == IF fails THEN "error" ELSE Decide(include)
    <3>1. d \in Decision
      BY <1>1 DEF SyncRead, Decision
    <3>2. (~flagging) \in BOOLEAN
      OBVIOUS
    <3>3. run' = [decision |-> d, value |-> source, state |-> state, pending |-> pending,
                  track |-> track, flagged |-> ~flagging, seen |-> FALSE]
      BY <1>1, Zenon DEF SyncRead
    <3> HIDE DEF d
    <3> QED
      BY <1>0, <3>1, <3>2, <3>3, ReadType, Zenon DEF Plain, Flags
  <2>3. UNCHANGED <<adapter, provider, item, stored, flagging, queued, writing, history>>
    BY <1>1 DEF SyncRead
  <2> QED
    BY <1>0, <2>1, <2>2, <2>3, Zenon DEF Plain, Flags, TypeOK, provider, item, history
<1>2. CASE SyncCommit
  <2>1. run \in Read /\ run' = Idle
    BY <1>0, <1>2 DEF SyncCommit, Syncing, Plain
  <2>2. run.value \in Value /\ run.value \in 0..MaxEdits
    BY <1>0, <2>1, Counted DEF Read
  <2>3. /\ state' \in {state, "missing", "shadowed", "error", "active"}
        /\ track' \in {track, 0, run.value} /\ fingerprint' \in {fingerprint, run.value}
        /\ etag' \in {etag, run.value} /\ local' \in {local, 0}
    BY <1>2, Zenon
       DEF SyncCommit, Unlisted, Shadowed, Failed, Taken, Conflict, SyncState
  <2>4. /\ inLibrary' \in {inLibrary, TRUE, FALSE}
        /\ edited' = edited \/ edited' = (edited /\ EditedSince)
        /\ pending' = pending \/ pending' = FALSE \/ pending' = writable
    BY <1>2, Zenon
       DEF SyncCommit, Unlisted, Shadowed, Failed, Taken, Conflict, SyncPending
  <2>5. /\ slipped' = ((slipped \/ Slips(run.decision)) /\ local' # 0)
        /\ crossed' = (crossed \/ (run.decision = "conflict" /\ ~inLibrary))
        /\ UNCHANGED <<adapter, provider, stored, flagging, queued, writing, faults>>
        /\ UNCHANGED <<edits, provided>>
    BY <1>2 DEF SyncCommit
  <2>6. writable \in BOOLEAN
    BY <1>0, ExternalTrackAssumption DEF writable, Plain
  <2>7. Flags'
    BY <1>0, <2>4, <2>5, <2>6, Zenon DEF Flags, provider
  <2>8. Plain'
    BY <1>0, <2>1, <2>2, <2>3, <2>5, Counted DEF Plain, provider, State
  <2> QED
    BY <2>7, <2>8, Zenon DEF Plain, Flags, TypeOK
<1>3. CASE SyncFails
  <2>1. faults' \in 0..MaxFaults
    <3>1. Fault \/ UNCHANGED faults
      BY <1>3, Zenon DEF SyncFails
    <3> QED
      BY <1>0, <3>1, Counted DEF Plain
  <2> QED
    BY <1>0, <1>3, <2>1, Zenon DEF SyncFails, Plain, Flags, TypeOK, provider, item, history
<1> QED
  BY <1>1, <1>2, <1>3 DEF Sync

(* So do the edits and the owner's requests.                               *)
LEMMA UserTypes == TypeOK /\ User => TypeOK'
<1> SUFFICES ASSUME TypeOK, User PROVE TypeOK'
  OBVIOUS
<1>0. Plain /\ Flags
  BY Zenon DEF TypeOK, Plain, Flags
<1>1. writable \in BOOLEAN
  BY <1>0, ExternalTrackAssumption DEF writable, Plain
<1>2. ASSUME NEW artists \in BOOLEAN, Edit(artists) PROVE TypeOK'
  <2>1. Plain'
    BY <1>0, <1>2, Counted DEF Edit, Plain, provider
  <2>2. Flags'
    BY <1>0, <1>1, <1>2, Zenon DEF Edit, Flags, provider
  <2> QED
    BY <2>1, <2>2, Zenon DEF Plain, Flags, TypeOK
<1>3. ASSUME NEW lost \in BOOLEAN, Flag(lost) PROVE TypeOK'
  <2>1. Fault \/ UNCHANGED faults
    BY <1>3, Zenon DEF Flag
  <2>2. /\ UNCHANGED <<adapter, provider, stored, writing, run, history>>
        /\ UNCHANGED <<state, track, inLibrary, fingerprint, etag>>
    BY <1>3 DEF Flag
  <2>3. Plain'
    BY <1>0, <2>1, <2>2, Counted DEF Plain, provider, history
  <2>4. Flags'
    BY <1>0, <1>3, <2>2, Zenon DEF Flag, Flags, provider, history
  <2> QED
    BY <2>3, <2>4, Zenon DEF Plain, Flags, TypeOK
<1>5. Syncing \in BOOLEAN
  BY DEF Syncing
<1>6. ASSUME Tombstone \/ Restore \/ DeleteTrack \/ \E remove \in BOOLEAN : DeleteSource(remove)
      PROVE TypeOK'
  <2>1. /\ UNCHANGED <<adapter, source, stored, flagging, queued, writing, faults>>
        /\ UNCHANGED <<edits, provided>> /\ crossed' = Syncing
    BY <1>6 DEF Tombstone, Restore, DeleteTrack, DeleteSource, OwnerActs, provider
  <2>2. run' \in Read \cup {Idle}
    <3>1. CASE run = Idle /\ UNCHANGED run
      BY <3>1
    <3>2. CASE run' \in {run, [run EXCEPT !.seen = TRUE], Idle} /\ run \in Read
      BY <3>2 DEF Read
    <3>3. \/ UNCHANGED run \/ run' = Idle
          \/ Syncing /\ run' = [run EXCEPT !.seen = TRUE]
      BY <1>6, Zenon DEF Tombstone, Restore, DeleteTrack, DeleteSource
    <3> QED
      BY <1>0, <3>1, <3>2, <3>3 DEF Syncing, Plain
  <2>3. /\ state' \in {state, "tombstoned", "active", "absent", "missing"}
        /\ track' \in {track, 0} /\ fingerprint' \in {fingerprint, 0}
        /\ etag' \in {etag, 0} /\ local' \in {local, 0}
    BY <1>6, Zenon DEF Tombstone, Restore, DeleteTrack, DeleteSource
  <2>4. /\ present' \in {present, FALSE}
        /\ inLibrary' = inLibrary \/ inLibrary' = FALSE \/ inLibrary' = (track # 0)
        /\ edited' \in {edited, FALSE} /\ pending' \in {pending, FALSE}
        /\ slipped' \in {slipped, FALSE}
    BY <1>6, Zenon DEF Tombstone, Restore, DeleteTrack, DeleteSource, provider
  <2>5. Plain'
    BY <1>0, <2>1, <2>2, <2>3, Counted DEF Plain, State
  <2>6. Flags'
    BY <1>0, <1>5, <2>1, <2>4, Zenon DEF Flags
  <2> QED
    BY <2>5, <2>6, Zenon DEF Plain, Flags, TypeOK
<1> QED
  BY <1>2, <1>3, <1>6 DEF User

(* And the write-back, the provider and the uploads.                       *)
LEMMA OtherTypes ==
  TypeOK /\ (WriteBack \/ ProviderEdits \/ ProviderMoves \/ Upload \/ UNCHANGED vars) => TypeOK'
<1> SUFFICES ASSUME TypeOK,
                    WriteBack \/ ProviderEdits \/ ProviderMoves \/ Upload \/ UNCHANGED vars
             PROVE TypeOK'
  OBVIOUS
<1>0. Plain /\ Flags
  BY Zenon DEF TypeOK, Plain, Flags
<1>1. CASE WriteBackStarts
  <2>1. Plain'
    BY <1>0, <1>1, Counted DEF WriteBackStarts, Plain, provider, item, history
  <2>2. Flags'
    BY <1>0, <1>1, Zenon DEF WriteBackStarts, Flags, provider, item, history
  <2> QED
    BY <2>1, <2>2, Zenon DEF Plain, Flags, TypeOK
<1>2. writing # 0 => writing \in Value
  BY <1>0 DEF Plain, Value
<1>3. CASE WriteBackEnds
  <2>1. Plain'
    BY <1>0, <1>2, <1>3, Counted DEF WriteBackEnds, Plain
  <2>2. Flags'
    BY <1>0, <1>3, Zenon DEF WriteBackEnds, Flags
  <2> QED
    BY <2>1, <2>2, Zenon DEF Plain, Flags, TypeOK
<1>4. ASSUME NEW taken \in BOOLEAN, WriteBackFails(taken) PROVE TypeOK'
  <2>1. Fault \/ UNCHANGED faults
    BY <1>4, Zenon DEF WriteBackFails
  <2>2. Plain'
    BY <1>0, <1>2, <1>4, <2>1, Counted DEF WriteBackFails, Plain, item
  <2>3. Flags'
    BY <1>0, <1>4, Zenon DEF WriteBackFails, Flags, item
  <2> QED
    BY <2>2, <2>3, Zenon DEF Plain, Flags, TypeOK
<1>5. CASE ProviderEdits
  <2>1. Plain'
    BY <1>0, <1>5, Counted DEF ProviderEdits, Plain, item, work
  <2>2. Flags'
    BY <1>0, <1>5, Zenon DEF ProviderEdits, Flags, item, work
  <2> QED
    BY <2>1, <2>2, Zenon DEF Plain, Flags, TypeOK
<1>6. CASE ProviderMoves \/ Upload
  BY <1>0, <1>6, Zenon
     DEF ProviderMoves, Upload, Plain, Flags, TypeOK, provider, item, work, history
<1>7. CASE UNCHANGED vars
  BY <1>7, Zenon DEF vars, TypeOK, provider, item, work, history
<1> QED
  BY <1>1, <1>3, <1>4, <1>5, <1>6, <1>7 DEF WriteBack

(* Every step of the module.                                               *)
LEMMA TypeStep == TypeOK /\ [Next]_vars => TypeOK'
BY SyncTypes, UserTypes, OtherTypes DEF Next

(* The row of an external track, the track it links and what the sync has  *)
(* read keep their types, for every provider and any number of edits.      *)
THEOREM TypeCorrect == Spec => []TypeOK
BY InitTypes, TypeStep, PTL DEF Spec

-----------------------------------------------------------------------------
(* The owner's acts say what the library shows, and an uncrossed sync      *)
(* writes it with the state.                                               *)
LEMMA LibraryStep == TypeOK /\ LibraryInv /\ [Next]_vars => LibraryInv'
<1> SUFFICES ASSUME TypeOK, LibraryInv, [Next]_vars PROVE LibraryInv'
  OBVIOUS
<1> USE DEF LibraryInv, Syncing
<1>1. ASSUME UNCHANGED <<state, run, inLibrary, crossed>>, track' # 0 => track # 0
      PROVE LibraryInv'
  BY <1>1
<1>2. CASE ProviderEdits \/ ProviderMoves \/ Upload \/ WriteBack \/ UNCHANGED vars
  BY <1>1, <1>2
     DEF ProviderEdits, ProviderMoves, Upload, WriteBack, WriteBackStarts, WriteBackEnds,
         WriteBackFails, vars, item, work, history
<1>3. ASSUME NEW include \in BOOLEAN, NEW fails \in BOOLEAN, SyncRead(include, fails)
      PROVE LibraryInv'
  <2>1. run'.state = state
    BY <1>3, Zenon DEF SyncRead
  <2> QED
    BY <1>3, <2>1 DEF SyncRead, item, history
<1>4. CASE SyncCommit
  <2>1. crossed' = (crossed \/ (run.decision = "conflict" /\ ~inLibrary)) /\ run' = Idle
    BY <1>4 DEF SyncCommit
  <2>2. run # Idle
    BY <1>4 DEF SyncCommit
  <2>3. CASE crossed'
    BY <2>3
  <2>4. CASE ~crossed'
    <3>1. run.state = state /\ ~crossed
      BY <2>1, <2>2, <2>4
    <3>2. CASE Unlisted \/ Failed
      BY <2>1, <3>1, <3>2 DEF Unlisted, Failed, SyncState
    <3>3. CASE Shadowed
      BY <2>1, <3>1, <3>3 DEF Shadowed, SyncState
    <3>4. CASE Taken
      BY <2>1, <3>1, <3>4 DEF Taken, SyncState
    <3>5. CASE Conflict
      BY <2>1, <2>4, <3>1, <3>5 DEF Conflict, SyncState
    <3> QED
      BY <1>4, <3>2, <3>3, <3>4, <3>5 DEF SyncCommit
  <2> QED
    BY <2>3, <2>4
<1>5. CASE SyncFails
  BY <1>5 DEF SyncFails, item, history
<1>6. ASSUME NEW artists \in BOOLEAN, Edit(artists) PROVE LibraryInv'
  BY <1>1, <1>6 DEF Edit
<1>7. ASSUME NEW lost \in BOOLEAN, Flag(lost) PROVE LibraryInv'
  BY <1>1, <1>7 DEF Flag, history
<1>8. CASE Tombstone \/ DeleteTrack
  BY <1>8 DEF Tombstone, DeleteTrack, OwnerActs
<1>9. CASE Restore
  BY <1>9 DEF Restore, OwnerActs
<1>10. ASSUME NEW remove \in BOOLEAN, DeleteSource(remove) PROVE LibraryInv'
  BY <1>10 DEF DeleteSource, OwnerActs
<1> QED
  BY <1>2, <1>3, <1>4, <1>5, <1>6, <1>7, <1>8, <1>9, <1>10 DEF Next, Sync, User

(* Whatever the provider, the sync, the write-back and its owner do, an    *)
(* active track is in the library and a tombstoned one is not, but for the *)
(* acts that fall into the sync of the item.                               *)
THEOREM LibraryShows == Spec => []LibraryMatches
<1>1. Init => LibraryInv
  BY DEF Init, LibraryInv, Syncing
<1>2. LibraryInv => LibraryMatches
  BY DEF LibraryInv, LibraryMatches
<1> QED
  BY <1>1, <1>2, InitTypes, TypeStep, LibraryStep, PTL DEF Spec

-----------------------------------------------------------------------------
(* An act of the owner marks what the sync has read, and changes no more.  *)
LEMMA SeenKeeps ==
  ASSUME TypeOK, run # Idle, run' = [run EXCEPT !.seen = TRUE]
  PROVE  /\ run'.decision = run.decision /\ run'.track = run.track
         /\ run'.value = run.value /\ (run'.flagged <=> run.flagged)
BY DEF TypeOK, Read

(* A sync overwrites no edit it has not seen, but those that slip.         *)
LEMMA EditStep == EditInv /\ [Next]_vars => EditInv'
<1> SUFFICES ASSUME EditInv, [Next]_vars PROVE EditInv'
  OBVIOUS
<1>0. TypeOK'
  BY TypeStep DEF EditInv
<1>1. /\ edits \in Nat /\ track \in Nat /\ writing \in Nat /\ source \in Nat
      /\ \A v \in Value : v \in Nat
  BY DEF EditInv, TypeOK, Value
<1>2. run \in Read => run.track \in Nat /\ run.value \in Value
  BY DEF Read
<1> USE DEF EditInv, Syncing
<1>3. ASSUME UNCHANGED <<run, edited, flagging, local, slipped, track>>,
             edits' >= edits, edits' \in Nat, source' <= edits', writing' <= edits',
             provided \subseteq provided'
      PROVE EditInv'
  <2>1. track <= edits' /\ (run # Idle => run.track <= edits' /\ run.value <= edits')
    <3>1. run # Idle => run.track \in Nat /\ run.value \in Nat
      BY <1>1, <1>2 DEF TypeOK
    <3> QED
      BY <1>1, <1>3, <3>1
  <2> QED
    BY <1>0, <1>3, <2>1
<1>4. CASE ProviderEdits \/ ProviderMoves \/ Upload \/ UNCHANGED vars
  BY <1>0, <1>1, <1>3, <1>4
     DEF TypeOK, Value, ProviderEdits, ProviderMoves, Upload, NewValue, vars,
          provider, item, work, history
<1>5. CASE WriteBackStarts \/ \E taken \in BOOLEAN : WriteBackFails(taken)
  BY <1>1, <1>3, <1>5 DEF WriteBackStarts, WriteBackFails, provider, item, history
<1>6. CASE WriteBackEnds
  <2>1. /\ source' = writing /\ writing' = 0 /\ edited' = FALSE /\ writing # 0
        /\ provided' = provided \cup {writing}
        /\ slipped' = (slipped \/ (local # 0 /\ track # writing))
        /\ UNCHANGED <<flagging, run, track, edits, local>>
    BY <1>6 DEF WriteBackEnds
  <2>2. local # 0 /\ ~slipped' => local \in provided'
    BY <2>1
  <2>3. source' <= edits' /\ writing' <= edits'
    BY <1>1, <2>1
  <2> QED
    BY <1>0, <2>1, <2>2, <2>3
<1>7. ASSUME NEW include \in BOOLEAN, NEW fails \in BOOLEAN, SyncRead(include, fails)
      PROVE EditInv'
  <2>1. /\ run'.track = track /\ (run'.flagged <=> ~flagging)
        /\ run'.decision = IF fails THEN "error" ELSE Decide(include)
    BY <1>7, Zenon DEF SyncRead
  <2>2. Decide(include) = "updated" => ~edited
    BY DEF Decide, Merge
  <2>3. UNCHANGED <<edited, flagging, local, slipped, track, edits, provided, source, writing>>
    BY <1>7 DEF SyncRead, item, history, provider
  <2>4. run'.value = source
    BY <1>7, Zenon DEF SyncRead
  <2>5. run'.decision = "updated" => ~edited
    BY <2>1, <2>2
  <2> QED
    BY <1>0, <2>1, <2>3, <2>4, <2>5
<1>8. CASE SyncCommit
  <2>1. /\ run \in Read /\ run' = Idle
        /\ local' = IF track' = 0 \/ run.decision = "created" THEN 0 ELSE local
        /\ slipped' = ((slipped \/ Slips(run.decision)) /\ local' # 0)
        /\ UNCHANGED <<flagging, edits, provided>>
    BY <1>8 DEF SyncCommit, TypeOK
  <2>2. track' <= edits'
    <3>1. track' \in {track, 0, run.value}
      BY <1>8, Zenon DEF SyncCommit, Unlisted, Shadowed, Failed, Taken, Conflict
    <3> QED
      BY <1>1, <1>8, <2>1, <3>1 DEF SyncCommit
  <2>3. ASSUME local' # 0, ~slipped', local' \notin provided'
        PROVE  track' = local' /\ (edited' \/ flagging')
    <3>1. /\ local' = local /\ local # 0 /\ ~slipped /\ ~Slips(run.decision)
          /\ run.decision # "created"
      BY <2>1, <2>3
    <3>2. track = local /\ (edited \/ flagging)
      BY <2>1, <2>3, <3>1
    <3>3. run.decision \notin {"updated", "unchanged"}
      BY <2>1, <2>3, <3>1 DEF Slips, EditedSince
    <3>4. edited' = edited /\ (track' = track \/ track' = 0)
      BY <1>8, <3>1, <3>3, Zenon
         DEF SyncCommit, Unlisted, Shadowed, Failed, Taken, Conflict
    <3> QED
      BY <2>1, <2>3, <3>1, <3>2, <3>4
  <2> QED
    BY <1>0, <1>8, <2>1, <2>2, <2>3 DEF SyncCommit, provider, Idle
<1>9. CASE SyncFails
  BY <1>0, <1>9 DEF SyncFails, provider, item, history, Idle
<1>10. ASSUME NEW artists \in BOOLEAN, Edit(artists) PROVE EditInv'
  <2>1. /\ track' = edits' /\ local' = edits' /\ edits' > edits
        /\ edited' = (edited \/ artists) /\ flagging' = writable
        /\ slipped' = (~writable /\ ~artists) /\ UNCHANGED run
    BY <1>1, <1>10 DEF Edit, NewValue
  <2>2. run # Idle => run.track # track'
    BY <1>1, <1>2, <2>1 DEF TypeOK
  <2>3. UNCHANGED <<source, writing>>
    BY <1>10 DEF Edit, provider
  <2>4. edits' \in Nat
    BY <1>0 DEF TypeOK, Value
  <2>5. /\ track' <= edits' /\ source' <= edits' /\ writing' <= edits'
        /\ run' # Idle => run'.track <= edits' /\ run'.value <= edits'
    <3>1. run # Idle => run.track \in Nat /\ run.value \in Nat
      BY <1>1, <1>2 DEF TypeOK
    <3> QED
      BY <1>1, <2>1, <2>3, <2>4, <3>1
  <2>6. ~slipped' => edited' \/ flagging'
    BY <2>1
  <2>7. ~(run'.decision = "updated" /\ track' = run'.track)
    BY <2>1, <2>2 DEF Idle
  <2> QED
    BY <1>0, <2>1, <2>5, <2>6, <2>7
<1>11. ASSUME NEW lost \in BOOLEAN, Flag(lost) PROVE EditInv'
  <2>1. CASE track # 0
    BY <1>0, <1>11, <2>1 DEF Flag, provider, history
  <2>2. CASE track = 0
    <3>1. local # 0 /\ ~slipped => local \in provided
      BY <2>2
    <3> QED
      BY <1>0, <1>11, <2>2, <3>1 DEF Flag, provider, history
  <2> QED
    BY <2>1, <2>2
<1>12. CASE Tombstone \/ Restore
  <2>1. UNCHANGED <<source, writing, edits, edited, flagging, local, slipped, track, provided>>
    BY <1>12 DEF Tombstone, Restore, OwnerActs, provider
  <2>2. \/ UNCHANGED run
        \/ run # Idle /\ run' = [run EXCEPT !.seen = TRUE]
    BY <1>12, Zenon DEF Tombstone, Restore
  <2> QED
    BY <1>0, <2>1, <2>2, SeenKeeps
<1>13. CASE DeleteTrack
  BY <1>0, <1>1, <1>13 DEF DeleteTrack, OwnerActs, provider
<1>14. ASSUME NEW remove \in BOOLEAN, DeleteSource(remove) PROVE EditInv'
  <2>1. UNCHANGED <<source, writing, edits, flagging, provided>>
    BY <1>14 DEF DeleteSource, OwnerActs
  <2>2. CASE run' = Idle /\ track' = 0 /\ local' = 0
    BY <1>0, <1>1, <2>1, <2>2 DEF Idle
  <2>3. CASE /\ UNCHANGED <<track, edited, local, slipped>>
             /\ \/ UNCHANGED run
                \/ run # Idle /\ run' = [run EXCEPT !.seen = TRUE]
    BY <1>0, <2>1, <2>3, SeenKeeps
  <2> QED
    BY <1>14, <2>2, <2>3 DEF DeleteSource
<1> QED
  BY <1>4, <1>5, <1>6, <1>7, <1>8, <1>9, <1>10, <1>11, <1>12, <1>13, <1>14
     DEF Next, Sync, User, WriteBack

(* Neither the sync of the item nor a write-back that was under way loses  *)
(* an edit of the user: it is still the track's value or has reached the   *)
(* provider, unless it slipped through one of the gaps the history names.  *)
THEOREM EditsSurvive == Spec => []EditKept
<1>1. Init => EditInv
  BY InitTypes DEF Init, EditInv, Syncing, Idle, TypeOK, Value
<1>2. EditInv => EditKept
  BY DEF EditInv, EditKept
<1> QED
  BY <1>1, <1>2, EditStep, PTL DEF Spec

-----------------------------------------------------------------------------
(***************************************************************************)
(* The syncs of the library.                                               *)
(***************************************************************************)

Working == {"locked", "syncing", "listed", "done"}

(* Until a sync has outlived its lock, the lock is that of the sync that   *)
(* runs, although its value does not say so.                               *)
LockInv ==
  /\ SyncTypeOK
  /\ ~overran => \A t \in Task : task[t].stage \in Working => lock = t

-----------------------------------------------------------------------------
(* A task the watchdog, the user or the schedule sends is a task.          *)
LEMMA NewTaskType ==
  ASSUME SyncTypeOK, NEW stage \in {"posted", "sent"}, NEW r \in Run,
         NEW scope \in {"full", "since"} \cup Dir, NEW targets \in SUBSET Change
  PROVE  NewTask(stage, r, scope, targets) \in TaskType
BY DEF NewTask, TaskType, SyncTypeOK, Stage

(* What a flush of the watchdog sends are tasks of the right type.         *)
LEMMA MessagesType ==
  ASSUME SyncTypeOK
  PROVE  \A m \in Messages : m \in TaskType /\ m.stage = "sent"
<1>1. Deleted \subseteq noticed /\ noticed \subseteq Change
  BY DEF Deleted, SyncTypeOK
<1>2. DeleteScope \in {"full"} \cup Dir
  BY DEF DeleteScope
<1>3. /\ NewTask("sent", "none", DeleteScope, Deleted) \in TaskType
      /\ NewTask("sent", "none", "since", noticed \ Deleted) \in TaskType
  BY <1>1, <1>2, NewTaskType DEF Run
<1>4. /\ NewTask("sent", "none", DeleteScope, Deleted).stage = "sent"
      /\ NewTask("sent", "none", "since", noticed \ Deleted).stage = "sent"
  BY DEF NewTask
<1> QED
  BY <1>3, <1>4 DEF Messages

(* The stages of the tasks after each step.                                *)
LEMMA TaskStep ==
  ASSUME SyncTypeOK, [SyncNext]_syncVars
  PROVE  task' \in [Task -> TaskType \cup {Free}]
<1> USE DEF SyncTypeOK, Stage, Run
<1>1. CASE Watchdog
  <2>1. ASSUME NEW sent \in SUBSET Messages, Flush(sent)
        PROVE  task' \in [Task -> TaskType \cup {Free}]
    <3>1. PICK f \in [Messages -> FreeTask] :
            task' = [t \in Task |-> IF \E m \in sent : f[m] = t
                                      THEN CHOOSE m \in sent : f[m] = t
                                      ELSE task[t]]
      BY <2>1 DEF Flush
    <3>2. ASSUME NEW t \in Task PROVE task'[t] \in TaskType \cup {Free}
      <4>1. CASE \E m \in sent : f[m] = t
        BY <3>1, <4>1, MessagesType
      <4>2. CASE ~\E m \in sent : f[m] = t
        BY <3>1, <4>2
      <4> QED
        BY <4>1, <4>2
    <3> QED
      BY <3>1, <3>2
  <2>2. CASE WatchFails
    BY <2>2, NewTaskType DEF WatchFails
  <2>3. CASE WatchResumes \/ Rewatch \/ \E old \in SUBSET events : Notice(old)
    BY <2>3 DEF WatchResumes, Rewatch, Notice
  <2> QED
    BY <1>1, <2>1, <2>2, <2>3 DEF Watchdog
<1>2. CASE Manual \/ Scan
  BY <1>2, NewTaskType DEF Manual, Scan
<1>3. CASE Expire \/ Toggle \/ UNCHANGED syncVars \/ \E c \in Change : Make(c)
  BY <1>3 DEF Expire, Toggle, Make, syncVars
<1>4. ASSUME NEW t \in Task, Fail(t) \/ Crash(t) \/ Refused(t) \/ Unusable(t) \/ Release(t)
      PROVE  task' \in [Task -> TaskType \cup {Free}]
  BY <1>4 DEF Fail, Crash, Refused, Unusable, Release, Ends
<1>5. ASSUME NEW t \in Task, task[t].stage # "free" PROVE task[t] \in TaskType
  BY <1>5 DEF Free
<1>6. ASSUME NEW t \in Task, NEW ok \in BOOLEAN, Send(t, ok)
      PROVE  task' \in [Task -> TaskType \cup {Free}]
  BY <1>5, <1>6 DEF Send, TaskType
<1>7. ASSUME NEW t \in Task, TakeLock(t) \/ Begin(t) \/ Finish(t)
      PROVE  task' \in [Task -> TaskType \cup {Free}]
  BY <1>5, <1>7 DEF TakeLock, Begin, Finish, TaskType
<1>8. ASSUME NEW t \in Task, List(t)
      PROVE  task' \in [Task -> TaskType \cup {Free}]
  <2>1. Shown(task[t]) \subseteq Change
    BY DEF Shown
  <2> DEFINE k == [task[t] EXCEPT !.stage = "listed", !.sees = Shown(task[t])]
  <2>2. task[t] \in TaskType
    BY <1>5, <1>8 DEF List
  <2>3. k \in TaskType
    BY <2>1, <2>2 DEF TaskType
  <2>4. task' = [task EXCEPT ![t] = k]
    BY <1>8 DEF List
  <2> QED
    BY <2>3, <2>4
<1> QED
  BY <1>1, <1>2, <1>3, <1>4, <1>6, <1>7, <1>8 DEF SyncNext, SyncTask

(* Every step keeps the variables in their types.                          *)
LEMMA SyncTypeStep == SyncTypeOK /\ [SyncNext]_syncVars => SyncTypeOK'
<1> SUFFICES ASSUME SyncTypeOK, [SyncNext]_syncVars PROVE SyncTypeOK'
  OBVIOUS
<1>0. task' \in [Task -> TaskType \cup {Free}]
  BY TaskStep
<1>f. ASSUME SyncFault \/ UNCHANGED syncFaults PROVE syncFaults' \in 0..MaxSyncFaults
  BY <1>f, ExternalSyncAssumption DEF SyncFault, SyncTypeOK
<1> USE DEF SyncTypeOK
<1>1. CASE Watchdog
  <2>1. ASSUME NEW sent \in SUBSET Messages, Flush(sent) PROVE SyncTypeOK'
    <3>1. ASSUME NEW m \in Messages PROVE m.targets \subseteq noticed
      BY <3>1 DEF Messages, NewTask, Deleted
    <3>2. missed' \subseteq made
      BY <2>1, <3>1 DEF Flush
    <3>3. syncFaults' \in 0..MaxSyncFaults
      BY <2>1, <1>f DEF Flush
    <3> QED
      BY <1>0, <2>1, <3>2, <3>3 DEF Flush, disk
  <2>2. CASE WatchFails
    BY <1>0, <1>f, <2>2 DEF WatchFails, disk
  <2>3. CASE WatchResumes \/ Rewatch \/ \E old \in SUBSET events : Notice(old)
    BY <1>0, <1>f, <2>3 DEF WatchResumes, Rewatch, Notice, disk
  <2> QED
    BY <1>1, <2>1, <2>2, <2>3 DEF Watchdog
<1>2. CASE Manual \/ Scan \/ Toggle \/ UNCHANGED syncVars
  BY <1>0, <1>f, <1>2 DEF Manual, Scan, Toggle, syncVars, disk, watchdog
<1>3. CASE Expire
  <2>1. overran' \in BOOLEAN /\ syncFaults' \in 0..MaxSyncFaults
    BY <1>3, <1>f DEF Expire
  <2> QED
    BY <1>0, <1>3, <2>1 DEF Expire, disk, watchdog
<1>4. ASSUME NEW c \in Change, Make(c) PROVE SyncTypeOK'
  BY <1>0, <1>f, <1>4 DEF Make
<1>5. ASSUME NEW t \in Task, NEW ok \in BOOLEAN, Send(t, ok) PROVE SyncTypeOK'
  BY <1>0, <1>f, <1>5 DEF Send, disk, watchdog
<1>6. ASSUME NEW t \in Task,
             Refused(t) \/ Unusable(t) \/ Fail(t) \/ Crash(t)
      PROVE  SyncTypeOK'
  <2>1. stranded' \in BOOLEAN /\ missed' \subseteq made
    BY <1>6 DEF Refused, Unusable, Fail, Crash, Ends
  <2>2. overran' \in BOOLEAN /\ lock' \in Task \cup {0}
    BY <1>6 DEF Refused, Unusable, Fail, Crash, Settles, ReleaseLock
  <2>3. syncFaults' \in 0..MaxSyncFaults
    BY <1>6, <1>f DEF Refused, Unusable, Fail, Crash
  <2> QED
    BY <1>0, <1>6, <2>1, <2>2, <2>3
       DEF Refused, Unusable, Fail, Crash, disk, watchdog
<1>7. ASSUME NEW t \in Task, TakeLock(t) \/ Begin(t) \/ List(t) PROVE SyncTypeOK'
  BY <1>0, <1>f, <1>7 DEF TakeLock, Begin, List, disk, watchdog
<1>8. ASSUME NEW t \in Task, Finish(t) PROVE SyncTypeOK'
  BY <1>0, <1>f, <1>8 DEF Finish, Overlooked, watchdog
<1>9. ASSUME NEW t \in Task, Release(t) PROVE SyncTypeOK'
  BY <1>0, <1>f, <1>9 DEF Release, Settles, ReleaseLock, disk, watchdog
<1> QED
  BY <1>1, <1>2, <1>3, <1>4, <1>5, <1>6, <1>7, <1>8, <1>9 DEF SyncNext, SyncTask

(* The initial values have the right types.                                *)
LEMMA SyncInitTypes == SyncInit => SyncTypeOK
<1> SUFFICES ASSUME SyncInit PROVE SyncTypeOK
  OBVIOUS
<1>1. syncFaults \in 0..MaxSyncFaults
  BY ExternalSyncAssumption DEF SyncInit
<1> QED
  BY <1>1 DEF SyncInit, SyncTypeOK

(* The tasks, the watchdog's windows, the lock and the catalogue keep      *)
(* their types, for any library and any number of tasks.                   *)
THEOREM SyncTypeCorrect == SyncSpec => []SyncTypeOK
BY SyncInitTypes, SyncTypeStep, PTL DEF SyncSpec

-----------------------------------------------------------------------------
(* A step after which no more tasks work than before, and which leaves the *)
(* lock alone, cannot break the invariant.                                 *)
LEMMA LockKept ==
  ASSUME LockInv, SyncTypeOK', UNCHANGED <<lock, overran>>,
         \A t \in Task : task'[t].stage \in Working => task[t].stage \in Working
  PROVE  LockInv'
BY DEF LockInv

(* The task t ends, and with it the lock: before, it was the only one.     *)
LEMMA LockEnds ==
  ASSUME LockInv, SyncTypeOK', NEW t \in Task, task[t].stage \in Working,
         task' = [task EXCEPT ![t] = Free], lock' \in {0, lock}, Settles
  PROVE  LockInv'
<1>1. ASSUME ~overran', NEW u \in Task, task'[u].stage \in Working PROVE lock' = u
  <2>1. u # t /\ task[u].stage \in Working
    BY <1>1 DEF LockInv, SyncTypeOK, Free, Working
  <2>2. u \in Active'
    BY <1>1 DEF Active, Working
  <2>3. ~overran
    BY <1>1, <2>2 DEF Settles, LockInv, SyncTypeOK
  <2> QED
    BY <2>1, <2>3 DEF LockInv
<1> QED
  BY <1>1 DEF LockInv

(* Every step keeps the lock with the one task that works, or records that *)
(* a lock has expired under its task.                                      *)
LEMMA LockStep == LockInv /\ [SyncNext]_syncVars => LockInv'
<1> SUFFICES ASSUME LockInv, [SyncNext]_syncVars PROVE LockInv'
  OBVIOUS
<1>0. SyncTypeOK /\ SyncTypeOK'
  BY SyncTypeStep DEF LockInv
<1> USE <1>0
<1>1. ASSUME NEW sent \in SUBSET Messages, Flush(sent) PROVE LockInv'
  <2>1. PICK f \in [Messages -> FreeTask] :
          task' = [t \in Task |-> IF \E m \in sent : f[m] = t
                                    THEN CHOOSE m \in sent : f[m] = t
                                    ELSE task[t]]
    BY <1>1 DEF Flush
  <2>2. ASSUME NEW t \in Task, task'[t].stage \in Working
        PROVE  task[t].stage \in Working
    BY <2>1, <2>2, MessagesType DEF Working
  <2> QED
    BY <1>1, <2>2, LockKept DEF Flush
<1>2. CASE WatchFails \/ Manual \/ Scan
  <2>1. ASSUME NEW t \in Task, task'[t].stage \in Working
        PROVE  task[t].stage \in Working
    BY <1>2, <2>1 DEF WatchFails, Manual, Scan, NewTask, Working, SyncTypeOK
  <2> QED
    BY <1>2, <2>1, LockKept DEF WatchFails, Manual, Scan
<1>3. CASE WatchResumes \/ Rewatch \/ (\E old \in SUBSET events : Notice(old))
           \/ Toggle \/ (\E c \in Change : Make(c)) \/ UNCHANGED syncVars
  BY <1>3, LockKept DEF WatchResumes, Rewatch, Notice, Toggle, Make, syncVars
<1>4. CASE Expire
  <2>1. CASE lock \in Active
    BY <1>4, <2>1 DEF Expire, LockInv
  <2>2. CASE lock \notin Active
    BY <1>4, <2>2 DEF Expire, LockInv, Active, Working
  <2> QED
    BY <2>1, <2>2
<1>5. ASSUME NEW t \in Task, NEW ok \in BOOLEAN, Send(t, ok) PROVE LockInv'
  <2>1. ASSUME NEW u \in Task, task'[u].stage \in Working
        PROVE  task[u].stage \in Working
    BY <1>5, <2>1 DEF Send, Free, Working, SyncTypeOK, TaskType, Stage
  <2> QED
    BY <1>5, <2>1, LockKept DEF Send
<1>6. ASSUME NEW t \in Task, Refused(t) PROVE LockInv'
  <2>1. ASSUME NEW u \in Task, task'[u].stage \in Working
        PROVE  task[u].stage \in Working
    BY <1>6, <2>1 DEF Refused, Ends, Free, Working, SyncTypeOK
  <2> QED
    BY <1>6, <2>1, LockKept DEF Refused
<1>7. ASSUME NEW t \in Task, TakeLock(t) PROVE LockInv'
  <2>1. ASSUME NEW u \in Task, u # t PROVE task'[u] = task[u]
    BY <1>7, <2>1 DEF TakeLock, SyncTypeOK
  <2>2. ~overran => \A u \in Task : task[u].stage \notin Working
    BY <1>7 DEF TakeLock, LockInv, Task
  <2> QED
    BY <1>7, <2>1, <2>2 DEF TakeLock, LockInv
<1>8. ASSUME NEW t \in Task, Begin(t) \/ List(t) \/ Finish(t) PROVE LockInv'
  <2>1. /\ task[t].stage \in Working
        /\ \A u \in Task : u # t => task'[u] = task[u]
    BY <1>8 DEF Begin, List, Finish, Working, SyncTypeOK
  <2> QED
    BY <1>8, <2>1, LockKept DEF Begin, List, Finish
<1>9. ASSUME NEW t \in Task, Unusable(t) \/ Release(t) \/ Fail(t) PROVE LockInv'
  BY <1>9, LockEnds
     DEF Unusable, Release, Fail, Ends, ReleaseLock, Working
<1>10. ASSUME NEW t \in Task, Crash(t) PROVE LockInv'
  <2>1. CASE task[t].stage \in Working
    BY <1>10, <2>1, LockEnds DEF Crash, Ends
  <2>2. CASE task[t].stage \notin Working
    <3>1. \A u \in Task : u # t => task'[u] = task[u]
      BY <1>10 DEF Crash, Ends, SyncTypeOK
    <3>2. ASSUME NEW u \in Task
          PROVE  task'[u].stage \in Working => u \in Active /\ u \in Active'
      BY <1>10, <2>2, <3>1, <3>2 DEF Crash, Ends, SyncTypeOK, Free, Working, Active
    <3> QED
      BY <1>10, <3>2 DEF Crash, Settles, LockInv, Active, Working
  <2> QED
    BY <2>1, <2>2
<1> QED
  BY <1>1, <1>2, <1>3, <1>4, <1>5, <1>6, <1>7, <1>8, <1>9, <1>10
     DEF SyncNext, SyncTask, Watchdog

(* However many syncs are asked for, due or sent by the watchdog, and      *)
(* whichever of them fail or die: until one outlives its lock, two of them *)
(* do not run at one time (sync.py: the lock of _sync_external_library).   *)
THEOREM OneSync == SyncSpec => []OneSyncAtATime
<1>1. SyncInit => LockInv
  BY SyncInitTypes DEF SyncInit, LockInv, Free, Working
<1>2. LockInv => OneSyncAtATime
  <2> SUFFICES ASSUME LockInv, ~overran PROVE Cardinality(Active) <= 1
    BY DEF OneSyncAtATime
  <2>1. Active \subseteq {lock}
    BY DEF LockInv, Active, Working
  <2>2. IsFiniteSet({lock}) /\ Cardinality({lock}) = 1
    BY FS_Singleton
  <2>3. /\ IsFiniteSet(Active)
        /\ Cardinality(Active) <= Cardinality({lock})
    BY <2>1, <2>2, FS_Subset
  <2> QED
    BY <2>2, <2>3
<1> QED
  BY <1>1, <1>2, LockStep, PTL DEF SyncSpec

-----------------------------------------------------------------------------
(* A task that has not applied its listing yet.                            *)
Waiting == {"posted", "sent", "locked", "syncing", "listed"}

(* The listing of the task's scope shows what it was sent for, but for     *)
(* what has an old mtime.                                                  *)
Fits(k, c) ==
  \/ k.scope = "full"
  \/ k.scope = "since" /\ c.kind = "add"
  \/ k.scope = c.dir

(* A change that the catalogue does not show is with awatch, in the open   *)
(* window, with a task, or missed; a task sees what it was sent for, or    *)
(* will overlook it.                                                       *)
InHand(c) ==
  \/ c \in events \/ c \in noticed \/ c \in missed
  \/ \E t \in Task : task[t].stage \in Waiting /\ c \in task[t].targets
Aimed(k) ==
  /\ k.targets \subseteq made /\ (k.stage = "posted" => k.targets = {})
  /\ \A c \in k.targets : Fits(k, c)
Sees(k) ==
  \A c \in k.targets \cap unseen : c \in k.sees \/ (k.scope = "since" /\ c \in k.before)

WatchInv ==
  /\ SyncTypeOK
  /\ \A c \in unseen : InHand(c)
  /\ \A t \in Task : task[t].stage \in Waiting => Aimed(task[t])
  /\ \A t \in Task : task[t].stage = "listed" => Sees(task[t])

(* The slot of a new task was free.                                        *)
LEMMA NextFreeIsFree ==
  ASSUME FreeTask # {}
  PROVE  NextFree \in FreeTask
<1> DEFINE Less == OpToRel(<, Nat)
<1>1. FreeTask \subseteq Nat
  BY DEF FreeTask, Task
<1>2. IsWellFoundedOn(Less, Nat)
  BY NatLessThanWellFounded
<1>3. ASSUME NEW t \in Nat, NEW u \in Nat, u < t PROVE <<u, t>> \in Less
  <2>1. <<u, t>> \in Nat \X Nat /\ <<u, t>>[1] = u /\ <<u, t>>[2] = t
    BY <1>3
  <2> QED
    BY <1>3, <2>1, SMT DEF OpToRel
<1> HIDE DEF Less
<1>4. PICK t \in FreeTask : \A u \in FreeTask : <<u, t>> \notin Less
  BY <1>1, <1>2, WFMin
<1>5. ASSUME NEW u \in FreeTask PROVE t <= u
  <2>1. t \in Nat /\ u \in Nat /\ <<u, t>> \notin Less
    BY <1>1, <1>4
  <2>2. ~(u < t)
    BY <1>3, <2>1, Zenon
  <2> QED
    BY <2>1, <2>2
<1> QED
  BY <1>5 DEF NextFree

(* A step that at most shows some changes, leaves all tasks but one alone, *)
(* and keeps in hand what that one was sent for.                           *)
LEMMA OneTask ==
  ASSUME WatchInv, SyncTypeOK', NEW t \in Task,
         \A u \in Task : u # t => task'[u] = task[u],
         UNCHANGED <<made, noticed>>, unseen' \subseteq unseen, missed \subseteq missed',
         task'[t].stage \in Waiting => Aimed(task[t])',
         task'[t].stage = "listed" => Sees(task[t])',
         \A c \in unseen' :
           c \in events \/ (task[t].stage \in Waiting /\ c \in task[t].targets)
             => \/ c \in events' \/ c \in missed'
                \/ task'[t].stage \in Waiting /\ c \in task'[t].targets
  PROVE  WatchInv'
<1>1. ASSUME NEW c \in unseen' PROVE InHand(c)'
  <2>1. InHand(c)
    BY <1>1 DEF WatchInv
  <2> QED
    BY <1>1, <2>1 DEF InHand
<1>2. ASSUME NEW u \in Task, task'[u].stage \in Waiting PROVE Aimed(task[u])'
  BY <1>2 DEF WatchInv, Aimed, Fits
<1>3. ASSUME NEW u \in Task, task'[u].stage = "listed" PROVE Sees(task[u])'
  BY <1>3 DEF WatchInv, Sees
<1> QED
  BY <1>1, <1>2, <1>3, Zenon DEF WatchInv

(* A step of the disk or of the watchdog that leaves the tasks alone.      *)
LEMMA NoTask ==
  ASSUME WatchInv, SyncTypeOK', UNCHANGED task, made \subseteq made',
         unseen' \cap made \subseteq unseen,
         \A c \in unseen' : c \in events' \/ c \in noticed' \/ c \in missed' \/ c \in unseen,
         events \cup noticed \cup missed \subseteq events' \cup noticed' \cup missed'
  PROVE  WatchInv'
<1>1. ASSUME NEW c \in unseen' PROVE InHand(c)'
  BY <1>1 DEF WatchInv, InHand
<1>2. ASSUME NEW u \in Task, task'[u].stage \in Waiting PROVE Aimed(task[u])'
  BY <1>2 DEF WatchInv, Aimed, Fits
<1>3. ASSUME NEW u \in Task, task'[u].stage = "listed" PROVE Sees(task[u])'
  <2>1. Aimed(task[u]) /\ Sees(task[u])
    BY <1>3 DEF WatchInv, Waiting
  <2> QED
    BY <2>1 DEF Aimed, Sees
<1> QED
  BY <1>1, <1>2, <1>3, Zenon DEF WatchInv

(* A flush hands every change of the window to a message that will see it, *)
(* and what is in a message that is not sent is missed.                    *)
LEMMA MessagesAimed ==
  ASSUME SyncTypeOK
  PROVE  /\ \A m \in Messages : Aimed(m) /\ m.stage = "sent"
         /\ \A c \in noticed : \E m \in Messages : c \in m.targets
<1> DEFINE d == NewTask("sent", "none", DeleteScope, Deleted)
           s == NewTask("sent", "none", "since", noticed \ Deleted)
<1>1. /\ d.scope = DeleteScope /\ d.targets = Deleted /\ d.stage = "sent"
      /\ s.scope = "since" /\ s.targets = noticed \ Deleted /\ s.stage = "sent"
  BY DEF NewTask
<1>2. \A c \in noticed : c \in made /\ c.kind \in Kind
  BY ExternalSyncAssumption DEF SyncTypeOK
<1>3. \A c \in Deleted : DeleteScope = "full" \/ DeleteScope = c.dir
  BY DEF DeleteScope
<1>4. Deleted \subseteq noticed /\ \A c \in noticed \ Deleted : c.kind = "add"
  BY <1>2 DEF Deleted, Kind
<1> HIDE DEF d, s
<1>5. Aimed(d) /\ Aimed(s)
  BY <1>1, <1>2, <1>3, <1>4 DEF Aimed, Fits
<1>6. /\ \A m \in Messages : m = d \/ m = s
      /\ Deleted # {} => d \in Messages
      /\ ~(noticed \subseteq Deleted) => s \in Messages
  BY DEF Messages, d, s
<1> QED
  BY <1>1, <1>5, <1>6

(* Every step keeps each unseen change in hand.                            *)
LEMMA WatchStep == WatchInv /\ [SyncNext]_syncVars => WatchInv'
<1> SUFFICES ASSUME WatchInv, [SyncNext]_syncVars PROVE WatchInv'
  OBVIOUS
<1>0. SyncTypeOK /\ SyncTypeOK' /\ task \in [Task -> TaskType \cup {Free}]
  BY SyncTypeStep DEF WatchInv, SyncTypeOK
<1> USE <1>0
<1>1. ASSUME NEW sent \in SUBSET Messages, Flush(sent) PROVE WatchInv'
  <2>1. PICK f \in [Messages -> FreeTask] :
          /\ \A m, n \in Messages : f[m] = f[n] => m = n
          /\ task' = [t \in Task |-> IF \E m \in sent : f[m] = t
                                       THEN CHOOSE m \in sent : f[m] = t
                                       ELSE task[t]]
    BY <1>1 DEF Flush
  <2>2. \A m \in sent : f[m] \in Task /\ task[f[m]] = Free
    BY <2>1 DEF FreeTask
  <2>3. ASSUME NEW m \in sent PROVE task'[f[m]] = m
    BY <2>1, <2>2
  <2>4. ASSUME NEW t \in Task PROVE task'[t] = task[t] \/ task'[t] \in sent
    BY <2>1
  <2>5. ASSUME NEW t \in Task, task[t] # Free PROVE task'[t] = task[t]
    BY <2>1, <2>2, <2>5
  <2>6. UNCHANGED <<made, unseen, events>> /\ missed \subseteq missed'
    BY <1>1 DEF Flush, disk
  <2>7. ASSUME NEW c \in unseen' PROVE InHand(c)'
    <3>1. InHand(c)
      BY <2>6, <2>7 DEF WatchInv
    <3>2. CASE c \in noticed
      <4>1. PICK m \in Messages : c \in m.targets
        BY <3>2, MessagesAimed
      <4>2. CASE m \in sent
        BY <2>2, <2>3, <4>1, <4>2, MessagesAimed DEF InHand, Waiting
      <4>3. CASE m \notin sent
        BY <1>1, <4>1, <4>3 DEF Flush, InHand
      <4> QED
        BY <4>2, <4>3
    <3>3. CASE \E t \in Task : task[t].stage \in Waiting /\ c \in task[t].targets
      BY <2>5, <3>3 DEF InHand, Free, Waiting
    <3> QED
      BY <2>6, <3>1, <3>2, <3>3 DEF InHand
  <2>8. ASSUME NEW t \in Task, task'[t].stage \in Waiting PROVE Aimed(task[t])'
    BY <2>4, <2>6, <2>8, MessagesAimed DEF WatchInv, Aimed, Fits
  <2>9. ASSUME NEW t \in Task, task'[t].stage = "listed" PROVE Sees(task[t])'
    BY <2>4, <2>6, <2>9, MessagesAimed DEF WatchInv, Sees
  <2> QED
    BY <2>7, <2>8, <2>9, Zenon DEF WatchInv
<1>2. CASE WatchFails \/ Manual \/ Scan
  <2>1. NextFree \in Task /\ task[NextFree] = Free
    BY <1>2, NextFreeIsFree DEF WatchFails, Manual, Scan, FreeTask
  <2>2. task[NextFree].stage \notin Waiting
    BY <2>1 DEF Free, Waiting
  <2>3. /\ UNCHANGED <<made, unseen, noticed, missed>>
        /\ \A u \in Task : u # NextFree => task'[u] = task[u]
    BY <1>2 DEF WatchFails, Manual, Scan, disk, watchdog
  <2> DEFINE k == task'[NextFree]
  <2>4. /\ k.scope = "full" /\ k.stage \in {"posted", "sent"}
        /\ \/ k.stage = "sent" /\ k.targets = events /\ events' = {}
           \/ k.targets = {} /\ events' = events
    BY <1>2, <2>1 DEF WatchFails, Manual, Scan, NewTask, watchdog
  <2>5. events \subseteq made
    BY DEF SyncTypeOK
  <2>6. ASSUME NEW t \in Task, t = NextFree
        PROVE  /\ Aimed(task[t])' /\ task'[t].stage # "listed"
               /\ \A c \in events : c \in events' \/ (task'[t].stage \in Waiting
                                                      /\ c \in task'[t].targets)
    BY <2>3, <2>4, <2>5, <2>6 DEF Aimed, Fits, Waiting
  <2> QED
    BY <2>1, <2>2, <2>3, <2>6, OneTask
<1>3. CASE WatchResumes \/ Rewatch \/ (\E old \in SUBSET events : Notice(old))
           \/ Toggle \/ Expire \/ UNCHANGED syncVars
  BY <1>3, NoTask
     DEF WatchResumes, Rewatch, Notice, Toggle, Expire, syncVars, disk, watchdog
<1>4. ASSUME NEW c \in Change, Make(c) PROVE WatchInv'
  BY <1>4, NoTask DEF Make
<1>5. ASSUME NEW t \in Task, NEW ok \in BOOLEAN, Send(t, ok) PROVE WatchInv'
  <2>1. /\ UNCHANGED <<made, unseen, events, noticed, missed>>
        /\ \A u \in Task : u # t => task'[u] = task[u]
    BY <1>5 DEF Send, disk, watchdog
  <2>2. task[t] \in TaskType /\ Aimed(task[t]) /\ task[t].targets = {}
    BY <1>5 DEF Send, WatchInv, Waiting, Free, Aimed
  <2>3. task'[t] = Free \/ task'[t] = [task[t] EXCEPT !.stage = "sent"]
    BY <1>5 DEF Send
  <2>4. task'[t].stage = "free" \/ (task'[t].stage = "sent" /\ task'[t].targets = {})
    BY <2>2, <2>3 DEF Free, TaskType
  <2>5. task'[t].stage \in Waiting => Aimed(task[t])'
    BY <2>4 DEF Aimed, Waiting
  <2> QED
    BY <2>1, <2>2, <2>4, <2>5, OneTask
<1>6. ASSUME NEW t \in Task, TakeLock(t) \/ Begin(t) PROVE WatchInv'
  <2>1. /\ UNCHANGED <<made, unseen, events, noticed, missed>>
        /\ \A u \in Task : u # t => task'[u] = task[u]
    BY <1>6 DEF TakeLock, Begin, disk, watchdog
  <2>2. task[t] \in TaskType /\ Aimed(task[t])
    BY <1>6 DEF TakeLock, Begin, WatchInv, Waiting, Free
  <2>3. /\ task'[t].stage \in {"locked", "syncing"}
        /\ task'[t].scope = task[t].scope /\ task'[t].targets = task[t].targets
    BY <1>6, <2>2 DEF TakeLock, Begin, TaskType
  <2>4. Aimed(task[t])'
    BY <2>1, <2>2, <2>3 DEF Aimed, Fits
  <2> QED
    BY <2>1, <2>3, <2>4, OneTask DEF Waiting
<1>7. ASSUME NEW t \in Task, Refused(t) \/ Unusable(t) \/ Fail(t) \/ Crash(t)
      PROVE  WatchInv'
  <2>1. /\ UNCHANGED <<made, unseen, events, noticed>>
        /\ \A u \in Task : u # t => task'[u] = task[u]
        /\ missed' = missed \cup (task[t].targets \cap unseen)
        /\ task'[t] = Free
    BY <1>7 DEF Refused, Unusable, Fail, Crash, Ends, disk, watchdog
  <2>2. task'[t].stage \notin Waiting /\ task'[t].stage # "listed"
    BY <2>1 DEF Free, Waiting
  <2> QED
    BY <2>1, <2>2, OneTask
<1>8. ASSUME NEW t \in Task, List(t) PROVE WatchInv'
  <2>1. /\ UNCHANGED <<made, unseen, events, noticed, missed>>
        /\ \A u \in Task : u # t => task'[u] = task[u]
    BY <1>8 DEF List, disk, watchdog
  <2>2. task[t] \in TaskType /\ Aimed(task[t])
    BY <1>8 DEF List, WatchInv, Waiting, Free
  <2>3. /\ task'[t].stage = "listed" /\ task'[t].sees = Shown(task[t])
        /\ task'[t].scope = task[t].scope /\ task'[t].targets = task[t].targets
        /\ task'[t].before = task[t].before
    BY <1>8, <2>2 DEF List, TaskType
  <2>4. Aimed(task[t])'
    BY <2>1, <2>2, <2>3 DEF Aimed, Fits
  <2>5. Sees(task[t])'
    BY <2>1, <2>2, <2>3 DEF Aimed, Fits, Sees, Shown
  <2> QED
    BY <2>1, <2>3, <2>4, <2>5, OneTask DEF Waiting
<1>9. ASSUME NEW t \in Task, Finish(t) PROVE WatchInv'
  <2>1. /\ UNCHANGED <<made, events, noticed>>
        /\ unseen' = unseen \ task[t].sees
        /\ missed' = missed \cup Overlooked(task[t])
        /\ \A u \in Task : u # t => task'[u] = task[u]
    BY <1>9 DEF Finish, watchdog
  <2>2. task[t] \in TaskType /\ Sees(task[t])
    BY <1>9 DEF Finish, WatchInv, Free
  <2>3. task'[t].stage = "done"
    BY <1>9, <2>2 DEF Finish, TaskType
  <2>4. \A c \in unseen' : c \in task[t].targets => c \in missed'
    BY <2>1, <2>2 DEF Sees, Overlooked
  <2> QED
    BY <2>1, <2>3, <2>4, OneTask DEF Waiting
<1>10. ASSUME NEW t \in Task, Release(t) PROVE WatchInv'
  <2>1. /\ UNCHANGED <<made, unseen, events, noticed, missed>>
        /\ \A u \in Task : u # t => task'[u] = task[u]
        /\ task[t].stage = "done" /\ task'[t] = Free
    BY <1>10 DEF Release, disk, watchdog
  <2> QED
    BY <2>1, OneTask DEF Free, Waiting
<1> QED
  BY <1>1, <1>2, <1>3, <1>4, <1>5, <1>6, <1>7, <1>8, <1>9, <1>10
     DEF SyncNext, SyncTask, Watchdog

(* However the windows of the watchdog, the syncs and their failures fall: *)
(* when all is quiet, the catalogue shows every change that was made while *)
(* the watchdog looked on, but for what slipped through one of the gaps    *)
(* that "missed" records (watchdog.py: _handle_batch and _flush).          *)
THEOREM WatchedSynced == SyncSpec => []WatchedIsSynced
<1>1. SyncInit => WatchInv
  BY SyncInitTypes DEF SyncInit, WatchInv, Free, Waiting
<1>2. WatchInv => WatchedIsSynced
  BY DEF WatchInv, WatchedIsSynced, InHand, Free, Waiting
<1> QED
  BY <1>1, <1>2, WatchStep, PTL DEF SyncSpec

=============================================================================
