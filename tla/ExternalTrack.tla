---------------------------- MODULE ExternalTrack ----------------------------
(***************************************************************************)
(* One file of an external library and the track made of it                *)
(* (songhive/external/sync.py, songhive/tasks/external_libraries.py and    *)
(* the track routes of songhive/api).  Four parties write to it: whoever   *)
(* edits, removes or restores the file at the provider, the sync, the user *)
(* who edits the track, and the task that writes such an edit back.        *)
(*                                                                         *)
(* A value is one set of tags.  Every edit makes a new one, so a value     *)
(* says whose edit it was.  The sync and the write-back task read the row, *)
(* wait for the provider, and write the columns they have changed: each is *)
(* two steps, and works in between on what it has read.                    *)
(***************************************************************************)
EXTENDS Naturals

CONSTANTS
  Providers,  \* the kinds of provider: what their adapters can do
  MaxEdits,   \* bound: values in all
  MaxFaults   \* bound: provider errors, crashes and lost enqueues

ASSUME ExternalTrackAssumption ==
  /\ Providers \subseteq [writable : BOOLEAN, detect : BOOLEAN]
  /\ MaxEdits \in Nat \ {0}
  /\ MaxFaults \in Nat

VARIABLES
  adapter,      \* its write_tags and detect_changes capabilities
  \* The provider.
  present,      \* the file exists
  source,       \* the value of its tags
  \* The database.
  state,        \* ExternalTrack.state, or "absent"
  track,        \* the value of the linked Track, or 0
  inLibrary,    \* the LibraryTrack row
  fingerprint,  \* metadata_fingerprint: the value last taken over, or 0
  etag,         \* provider_etag: the value last listed, or 0
  edited,       \* metadata_updated_at > external_metadata_synced_at
  pending,      \* write_back_pending
  stored,       \* a StoredFile has the same audio
  \* Under way.
  flagging,     \* an edit is committed, its flags are not
  queued,       \* write_back_metadata messages
  writing,      \* the value a write-back task has read, or 0
  run,          \* what the sync has read of the item
  faults,
  \* History.
  edits,        \* values used so far
  local,        \* the value of the last edit of the linked track, or 0
  provided,     \* the values the provider has had
  slipped,      \* the edit has slipped through one of the gaps named below
  crossed       \* the owner's last act fell into the sync of the item,
                \* or the sync has revived it in a conflict

writable == adapter.writable
detect == adapter.detect

provider == <<present, source>>
item == <<state, track, inLibrary, fingerprint, etag, edited, pending>>
work == <<flagging, queued, writing, run>>
history == <<edits, local, provided, slipped, crossed>>
vars == <<adapter, provider, item, stored, work, faults, history>>

Value == 1..MaxEdits
Decision == {"unlisted", "shadow", "error",
             "created", "updated", "unchanged", "conflict"}
State == {"absent", "active", "shadowed", "tombstoned", "missing", "error"}

Idle == [decision |-> "idle"]

Read == [decision : Decision, value : Value, state : State, pending : BOOLEAN,
         track : 0..MaxEdits, flagged : BOOLEAN, seen : BOOLEAN]

TypeOK ==
  /\ adapter \in Providers
  /\ present \in BOOLEAN /\ source \in Value
  /\ state \in State
  /\ track \in 0..MaxEdits
  /\ inLibrary \in BOOLEAN
  /\ fingerprint \in 0..MaxEdits /\ etag \in 0..MaxEdits
  /\ edited \in BOOLEAN /\ pending \in BOOLEAN
  /\ stored \in BOOLEAN
  /\ flagging \in BOOLEAN /\ queued \in BOOLEAN
  /\ writing \in 0..MaxEdits
  /\ run \in Read \cup {Idle}
  /\ faults \in 0..MaxFaults
  /\ edits \in Value
  /\ local \in 0..MaxEdits
  /\ provided \subseteq Value
  /\ slipped \in BOOLEAN /\ crossed \in BOOLEAN

Init ==
  /\ adapter \in Providers
  /\ present = TRUE /\ source = 1
  /\ state = "absent"
  /\ track = 0
  /\ inLibrary = FALSE
  /\ fingerprint = 0 /\ etag = 0
  /\ edited = FALSE /\ pending = FALSE
  /\ stored = FALSE
  /\ flagging = FALSE /\ queued = FALSE
  /\ writing = 0
  /\ run = Idle
  /\ faults = 0
  /\ edits = 1
  /\ local = 0
  /\ provided = {1}
  /\ slipped = FALSE /\ crossed = FALSE

Fault ==
  /\ faults < MaxFaults
  /\ faults' = faults + 1

NewValue ==
  /\ edits < MaxEdits
  /\ edits' = edits + 1

Syncing == run # Idle

-----------------------------------------------------------------------------
(***************************************************************************)
(* The provider, and uploads of the same audio.                            *)
(***************************************************************************)

ProviderEdits ==
  /\ present
  /\ NewValue
  /\ source' = edits'
  /\ provided' = provided \cup {edits'}
  /\ UNCHANGED <<adapter, present, item, stored, work, faults>>
  /\ UNCHANGED <<local, slipped, crossed>>

ProviderMoves ==
  /\ present' = ~present
  /\ UNCHANGED <<adapter, source, item, stored, work, faults, history>>

Upload ==
  /\ stored' = ~stored
  /\ UNCHANGED <<adapter, provider, item, work, faults, history>>

-----------------------------------------------------------------------------
(***************************************************************************)
(* The sync of one item.                                                   *)
(***************************************************************************)

Listed == detect /\ state = "active" /\ track # 0 /\ etag = source

(* Mutant: local edits do not count.                                       *)
MergeProviderWins ==
  IF track = 0 THEN "created"
  ELSE IF source = fingerprint THEN "unchanged" ELSE "updated"

(* _apply_metadata decides between what the provider has and what the user *)
(* has edited since the last sync.                                         *)
Merge ==
  IF track = 0 THEN "created"
  ELSE IF source = fingerprint THEN "unchanged"
  ELSE IF edited THEN "conflict" ELSE "updated"

(* Mutant: an item that was missing is skipped like a tombstoned one.      *)
DecideMissingStays(include) ==
  IF ~present THEN "unlisted"
  ELSE IF state = "missing" \/ (state = "tombstoned" /\ ~include) THEN "skip"
  ELSE IF stored THEN "shadow"
  ELSE IF Listed THEN "same" ELSE Merge

Decide(include) ==
  IF ~present THEN "unlisted"
  ELSE IF state = "tombstoned" /\ ~include THEN "skip"
  ELSE IF stored THEN "shadow"
  ELSE IF Listed THEN "same" ELSE Merge

(* _process_item reads the row and the provider.  A tombstoned item and    *)
(* one whose listing has not changed are left alone ...                    *)
SyncRead(include, fails) ==
  /\ ~Syncing
  /\ Decide(include) \in Decision
  /\ fails => Decide(include) \in {"shadow", "created", "unchanged", "conflict", "updated"}
  /\ IF fails THEN Fault ELSE UNCHANGED faults
  /\ run' = [decision |-> IF fails THEN "error" ELSE Decide(include),
             value |-> source, state |-> state, pending |-> pending,
             track |-> track, flagged |-> ~flagging, seen |-> FALSE]
  /\ UNCHANGED <<adapter, provider, item, stored, flagging, queued, writing, history>>

(* ... and writes what differs from what it has read: a flag or a state    *)
(* that had the new value already is not written again.                    *)
SyncState(new) == IF run.state = new THEN state ELSE new
SyncPending(new) == IF run.pending = new THEN pending ELSE new

(* An edit that was committed since the item was read is newer than the    *)
(* time of the sync.                                                       *)
EditedSince == track # run.track

(* The sync stamps the track as synced with an edit in it that it has not  *)
(* compared: it was made in between, or was not flagged when it was read,  *)
(* or is still waiting to be written back.                                 *)
Slips(decision) ==
  /\ decision \in {"updated", "unchanged"}
  /\ \/ EditedSince
     \/ ~run.flagged
     \/ decision = "unchanged" /\ local # 0 /\ local \notin provided

Unlisted ==
  /\ run.decision = "unlisted"
  /\ state' = IF state = "active" /\ ~run.seen THEN "missing" ELSE state
  /\ UNCHANGED <<track, inLibrary, fingerprint, etag, edited, pending>>

(* _mark_track_shadowed unlinks the track only of an active item.          *)
Shadowed ==
  /\ run.decision = "shadow"
  /\ IF run.state = "active" /\ run.track # 0
       THEN track' = 0 /\ inLibrary' = FALSE
       ELSE UNCHANGED <<track, inLibrary>>
  /\ state' = SyncState("shadowed")
  /\ etag' = run.value
  /\ UNCHANGED <<fingerprint, edited, pending>>

Failed ==
  /\ run.decision = "error"
  /\ state' = SyncState("error")
  /\ UNCHANGED <<track, inLibrary, fingerprint, etag, edited, pending>>

Taken ==
  /\ run.decision \in {"created", "updated", "unchanged"}
  /\ state' = SyncState("active")
  /\ track' = IF run.decision = "unchanged" THEN track ELSE run.value
  /\ inLibrary' = TRUE
  /\ fingerprint' = run.value
  /\ etag' = run.value
  /\ edited' = (edited /\ EditedSince)
  /\ pending' = SyncPending(FALSE)

(* The user's edit is kept and the provider's value is left for a          *)
(* write-back to overwrite, although nothing enqueues one.                 *)
Conflict ==
  /\ run.decision = "conflict"
  /\ state' = SyncState("active")
  /\ etag' = run.value
  /\ pending' = SyncPending(writable)
  /\ UNCHANGED <<track, inLibrary, fingerprint, edited>>

(* The whole transaction of a track that is gone meanwhile is rolled back, *)
(* as is the one of a worker that dies.                                    *)
SyncCommit ==
  /\ Syncing
  /\ run.track # 0 => track # 0
  /\ Unlisted \/ Shadowed \/ Failed \/ Taken \/ Conflict
  /\ run' = Idle
  /\ local' = IF track' = 0 \/ run.decision = "created" THEN 0 ELSE local
  /\ slipped' = ((slipped \/ Slips(run.decision)) /\ local' # 0)
  /\ crossed' = (crossed \/ (run.decision = "conflict" /\ ~inLibrary))
  /\ UNCHANGED <<adapter, provider, stored, flagging, queued, writing, faults>>
  /\ UNCHANGED <<edits, provided>>

SyncFails ==
  /\ Syncing
  /\ IF run.track # 0 /\ track = 0 THEN UNCHANGED faults ELSE Fault
  /\ run' = Idle
  /\ UNCHANGED <<adapter, provider, item, stored, flagging, queued, writing, history>>

-----------------------------------------------------------------------------
(***************************************************************************)
(* The user's edits and their write-back.                                  *)
(***************************************************************************)

(* update_track commits the new values, and the sync flags of an edit of   *)
(* the artists with them.  An edit for a provider that takes none is not   *)
(* flagged otherwise.                                                      *)
Edit(artists) ==
  /\ track # 0
  /\ ~flagging
  /\ NewValue
  /\ track' = edits'
  /\ local' = edits'
  /\ edited' = (edited \/ artists)
  /\ flagging' = writable
  /\ queued' = (queued \/ writable)
  /\ slipped' = (~writable /\ ~artists)
  /\ UNCHANGED <<adapter, provider, stored, writing, run, faults>>
  /\ UNCHANGED <<state, inLibrary, fingerprint, etag, pending, provided, crossed>>

(* _sync_tags_side_effects enqueues the write-back, which may start at     *)
(* once, and then commits the flags.                                       *)
Flag(lost) ==
  /\ flagging
  /\ flagging' = FALSE
  /\ IF track # 0 THEN edited' = TRUE /\ pending' = TRUE
                  ELSE UNCHANGED <<edited, pending>>
  /\ IF lost THEN Fault /\ queued' = FALSE ELSE UNCHANGED <<faults, queued>>
  /\ UNCHANGED <<adapter, provider, stored, writing, run, history>>
  /\ UNCHANGED <<state, track, inLibrary, fingerprint, etag>>

(* The task does nothing unless the flag is set.                           *)
WriteBackStarts ==
  /\ queued
  /\ writing = 0
  /\ queued' = FALSE
  /\ writing' = IF pending THEN track ELSE 0
  /\ UNCHANGED <<adapter, provider, item, stored, flagging, run, faults, history>>

(* The provider has taken the value: the commit clears the flag and stamps *)
(* the track as synced, an edit made meanwhile included.                   *)
WriteBackEnds ==
  /\ writing # 0
  /\ present
  /\ source' = writing
  /\ provided' = provided \cup {writing}
  /\ writing' = 0
  /\ etag' = writing
  /\ fingerprint' = writing
  /\ pending' = FALSE
  /\ edited' = FALSE
  /\ slipped' = (slipped \/ (local # 0 /\ track # writing))
  /\ UNCHANGED <<adapter, present, stored, flagging, queued, run, faults>>
  /\ UNCHANGED <<state, track, inLibrary, edits, local, crossed>>

(* The provider refuses, or the task dies before its commit.  There is no  *)
(* retry: the flag stays.                                                  *)
WriteBackFails(taken) ==
  /\ writing # 0
  /\ taken => present
  /\ IF present THEN Fault ELSE UNCHANGED faults
  /\ writing' = 0
  /\ source' = IF taken THEN writing ELSE source
  /\ provided' = IF taken THEN provided \cup {writing} ELSE provided
  /\ UNCHANGED <<adapter, present, item, stored, flagging, queued, run>>
  /\ UNCHANGED <<edits, local, slipped, crossed>>

-----------------------------------------------------------------------------
(***************************************************************************)
(* The owner's other requests.                                             *)
(***************************************************************************)

OwnerActs ==
  /\ crossed' = Syncing
  /\ UNCHANGED <<adapter, stored, flagging, queued, writing, faults>>
  /\ UNCHANGED <<edits, provided>>

(* Mutant: the track stays in the library.                                 *)
TombstoneKeepsLink ==
  /\ state # "absent"
  /\ state' = "tombstoned"
  /\ run' = IF Syncing THEN [run EXCEPT !.seen = TRUE] ELSE run
  /\ OwnerActs
  /\ UNCHANGED <<provider, track, inLibrary, fingerprint, etag, edited, pending>>
  /\ UNCHANGED <<local, slipped>>

Tombstone ==
  /\ state # "absent"
  /\ state' = "tombstoned"
  /\ inLibrary' = FALSE
  /\ run' = IF Syncing THEN [run EXCEPT !.seen = TRUE] ELSE run
  /\ OwnerActs
  /\ UNCHANGED <<provider, track, fingerprint, etag, edited, pending, local, slipped>>

Restore ==
  /\ state = "tombstoned"
  /\ present
  /\ state' = "active"
  /\ inLibrary' = (track # 0)
  /\ run' = IF Syncing THEN [run EXCEPT !.seen = TRUE] ELSE run
  /\ OwnerActs
  /\ UNCHANGED <<provider, track, fingerprint, etag, edited, pending, local, slipped>>

(* The file is deleted at the provider; the row is kept as missing, unless *)
(* the track is to go with it.                                             *)
DeleteSource(remove) ==
  /\ state # "absent"
  /\ writable
  /\ present' = FALSE
  /\ IF remove /\ track # 0
       THEN /\ state' = "absent" /\ track' = 0 /\ inLibrary' = FALSE
            /\ fingerprint' = 0 /\ etag' = 0
            /\ edited' = FALSE /\ pending' = FALSE
            /\ local' = 0 /\ slipped' = FALSE
            /\ run' = Idle
       ELSE /\ state' = "missing"
            /\ run' = IF Syncing THEN [run EXCEPT !.seen = TRUE] ELSE run
            /\ UNCHANGED <<track, inLibrary, fingerprint, etag, edited, pending>>
            /\ UNCHANGED <<local, slipped>>
  /\ OwnerActs
  /\ UNCHANGED source

(* The track is deleted: the link is set to NULL.                          *)
DeleteTrack ==
  /\ track # 0
  /\ track' = 0
  /\ inLibrary' = FALSE
  /\ edited' = FALSE
  /\ local' = 0 /\ slipped' = FALSE
  /\ OwnerActs
  /\ UNCHANGED <<provider, run, state, fingerprint, etag, pending>>

-----------------------------------------------------------------------------
Sync ==
  \/ \E include, fails \in BOOLEAN : SyncRead(include, fails)
  \/ SyncCommit \/ SyncFails

User ==
  \/ \E artists \in BOOLEAN : Edit(artists)
  \/ \E lost \in BOOLEAN : Flag(lost)
  \/ Tombstone \/ Restore \/ DeleteTrack
  \/ \E remove \in BOOLEAN : DeleteSource(remove)

WriteBack ==
  \/ WriteBackStarts \/ WriteBackEnds
  \/ \E taken \in BOOLEAN : WriteBackFails(taken)

Next == ProviderEdits \/ ProviderMoves \/ Upload \/ Sync \/ User \/ WriteBack

Spec == Init /\ [][Next]_vars

(* The library is synced again and again, and the sync of an item ends.    *)
Fairness ==
  /\ WF_vars(\E include \in BOOLEAN : SyncRead(include, FALSE))
  /\ WF_vars(SyncCommit \/ SyncFails)

FairSpec == Spec /\ Fairness

-----------------------------------------------------------------------------
(* The user's last edit of the linked track is still the track's value, or *)
(* has reached the provider, unless it has slipped through one of the gaps *)
(* of Slips, Edit and WriteBackEnds.  (sync.py:318-382, 410-563.)          *)
EditKept == local # 0 /\ ~slipped => track = local \/ local \in provided

(* An item that is active and linked is in the library, and a tombstoned   *)
(* one is not, unless the owner acted while the sync processed the item,   *)
(* or revived it in conflict after a tombstone: a conflict makes the item  *)
(* active without putting it back into the library.                        *)
(* (sync.py:385-563, external_libraries.py:1570-1750.)                     *)
LibraryMatches ==
  ~crossed =>
    /\ state = "active" /\ track # 0 => inLibrary
    /\ state = "tombstoned" => ~inLibrary

(* A file that stays is taken over in the end, if no stored file shadows   *)
(* it and its owner does not want it gone.  (sync.py:410-563.)             *)
CatalogueConverges ==
  <>[](~stored /\ state # "tombstoned" /\ present) => <>[](state = "active")

=============================================================================
