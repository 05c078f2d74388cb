-------------------------- MODULE CheckpointFiles --------------------------
(***************************************************************************)
(* crates/adapter-storage/src/session/checkpoint.rs: the files of one      *)
(* session (session log, .bak, snapshots, latest-checkpoint marker) while  *)
(* it is appended to, checkpointed and recovered, with the process dying   *)
(* between any two file operations.  The appends here come from one caller *)
(* and never overlap a rewrite; BatchAppender has the interleavings.       *)
(* Events are numbered in the order they happen: event 1 is sessionStart.  *)
(* The numbers of a log increase from line to line, so that a log is the   *)
(* set of its entries and its last line the one with the highest number.   *)
(***************************************************************************)
EXTENDS Naturals, FiniteSetsExt

CONSTANTS MaxEvents,     \* bound on the events of the session
          MaxCheckpoints,\* bound on the checkpoints of a run
          MaxFailures,   \* bound on the I/O errors of a run
          NoMarker

ASSUME BoundAssumption ==
    /\ MaxEvents \in Nat \ {0}
    /\ MaxCheckpoints \in Nat
    /\ MaxFailures \in Nat
ASSUME MarkerAssumption == NoMarker \notin Nat

VARIABLES
    log, logFile,   \* the session log: its entries, and "present" or "missing"
    bak, bakFile,   \* session.jsonl.bak, likewise
    snaps,          \* snapshot files: checkpoint_storage_seq -> events applied
    marker,         \* the sequence number the marker names, or NoMarker
    stage,          \* where persist_checkpoint stands; "down" after a crash
    nextSeq,        \* of the open EventLog; 0 while it is closed
    acked,          \* events acknowledged to their callers
    applied,        \* events in the in-memory projection
    ckSeq, payload, \* the checkpoint in progress: sequence number and snapshot
    tail,           \* tail events it has read
    count,          \* events so far
    rewrites, failures

files == <<log, logFile, bak, bakFile, snaps, marker>>
progress == <<ckSeq, payload, tail>>
bounds == <<rewrites, failures>>
vars == <<files, stage, nextSeq, acked, applied, progress, count, bounds>>

Evs(entries) == {entry.ev : entry \in entries}
Seqs(entries) == {entry.seq : entry \in entries}
After(entries, s) == {entry \in entries : entry.seq > s}
SeqAfter(entries) == IF entries = {} THEN 1 ELSE Max(Seqs(entries)) + 1

Rewriting == {"read", "snapshot", "clear", "mark", "unbak", "rotate", "promote", "cleanup"}

\* A session that has just been created: its log holds sessionStart.
Init ==
    /\ log = {[seq |-> 1, ev |-> 1]} /\ logFile = "present"
    /\ bak = {} /\ bakFile = "missing"
    /\ snaps = [s \in {} |-> {}]
    /\ marker = NoMarker
    /\ stage = "idle"
    /\ nextSeq = 2
    /\ acked = {1} /\ applied = {1}
    /\ ckSeq = 0 /\ payload = {} /\ tail = {}
    /\ count = 1
    /\ rewrites = 0 /\ failures = 0

-----------------------------------------------------------------------------
\* EventLog::append_batch on the open log, or open_at_resolved_path first: the
\* next number is one past the last entry of the file, 1 for an empty file.
Append_ ==
    /\ stage \in {"idle", "built"}
    /\ logFile = "present"
    /\ count < MaxEvents
    /\ LET s == IF nextSeq = 0 THEN SeqAfter(log) ELSE nextSeq
       IN  /\ log' = log \cup {[seq |-> s, ev |-> count + 1]}
           /\ nextSeq' = s + 1
    /\ count' = count + 1
    /\ acked' = acked \cup {count + 1}
    /\ applied' = applied \cup {count + 1}
    /\ UNCHANGED <<logFile, bak, bakFile, snaps, marker, stage, progress, bounds>>

\* checkpoint_if_compacted builds the payload from the projection and the last
\* sequence number of the events it persisted; more events may still be
\* appended before the rewrite begins.
Build ==
    /\ stage = "idle"
    /\ rewrites < MaxCheckpoints
    /\ log # {}
    /\ ckSeq' = Max(Seqs(log))
    /\ payload' = applied
    /\ stage' = "built"
    /\ rewrites' = rewrites + 1
    /\ UNCHANGED <<files, nextSeq, acked, applied, tail, count, failures>>

\* The appender closes the EventLog and hands the path to persist_checkpoint.
CloseLog ==
    /\ stage = "built"
    /\ logFile = "present"
    /\ nextSeq' = 0
    /\ stage' = "read"
    /\ UNCHANGED <<files, acked, applied, progress, count, bounds>>

\* Bug: an off-by-one leaves the checkpointed event in the tail out as well.
ReadTailTooLate ==
    /\ stage = "read"
    /\ tail' = After(log, ckSeq + 1)
    /\ stage' = "snapshot"
    /\ UNCHANGED <<files, nextSeq, acked, applied, ckSeq, payload, count, bounds>>

\* The tail events are collected; three temporary files are written and synced.
ReadTail ==
    /\ stage = "read"
    /\ tail' = After(log, ckSeq)
    /\ stage' = "snapshot"
    /\ UNCHANGED <<files, nextSeq, acked, applied, ckSeq, payload, count, bounds>>

\* Bug: the snapshot is taken when it is written, not with its sequence number.
CommitSnapshotLate ==
    /\ stage = "snapshot"
    /\ snaps' = [s \in DOMAIN snaps \cup {ckSeq} |-> IF s = ckSeq THEN applied ELSE snaps[s]]
    /\ stage' = "clear"
    /\ UNCHANGED <<log, logFile, bak, bakFile, marker, nextSeq, acked, applied, progress, count, bounds>>

\* rename(snapshot_tmp, checkpoint_path)
CommitSnapshot ==
    /\ stage = "snapshot"
    /\ snaps' = [s \in DOMAIN snaps \cup {ckSeq} |-> IF s = ckSeq THEN payload ELSE snaps[s]]
    /\ stage' = "clear"
    /\ UNCHANGED <<log, logFile, bak, bakFile, marker, nextSeq, acked, applied, progress, count, bounds>>

\* replace_file removes an existing marker first ...
ClearMarker ==
    /\ stage = "clear"
    /\ marker' = NoMarker
    /\ stage' = "mark"
    /\ UNCHANGED <<log, logFile, bak, bakFile, snaps, nextSeq, acked, applied, progress, count, bounds>>

\* ... and renames the new one into its place.
PlaceMarker ==
    /\ stage = "mark"
    /\ marker' = ckSeq
    /\ stage' = "unbak"
    /\ UNCHANGED <<log, logFile, bak, bakFile, snaps, nextSeq, acked, applied, progress, count, bounds>>

\* A backup left by an earlier crash is removed.
RemoveStaleBackup ==
    /\ stage = "unbak"
    /\ bakFile' = "missing" /\ bak' = {}
    /\ stage' = "rotate"
    /\ UNCHANGED <<log, logFile, snaps, marker, nextSeq, acked, applied, progress, count, bounds>>

\* rename(event_log_path, log_backup): the session has no log now.
RotateLog ==
    /\ stage = "rotate"
    /\ bak' = log /\ bakFile' = "present"
    /\ log' = {} /\ logFile' = "missing"
    /\ stage' = "promote"
    /\ UNCHANGED <<snaps, marker, nextSeq, acked, applied, progress, count, bounds>>

\* rename(log_tmp, event_log_path)
PromoteTail ==
    /\ stage = "promote"
    /\ log' = tail /\ logFile' = "present"
    /\ stage' = "cleanup"
    /\ UNCHANGED <<bak, bakFile, snaps, marker, nextSeq, acked, applied, progress, count, bounds>>

RemoveBackup ==
    /\ stage = "cleanup"
    /\ bak' = {} /\ bakFile' = "missing"
    /\ stage' = "idle"
    /\ UNCHANGED <<log, logFile, snaps, marker, nextSeq, acked, applied, progress, count, bounds>>

\* Any operation may fail and end persist_checkpoint with an error; a failed
\* promotion first renames the backup back, which may fail too.
StepFails ==
    /\ stage \in Rewriting
    /\ failures < MaxFailures
    /\ failures' = failures + 1
    /\ stage' = "idle"
    /\ \/ /\ stage = "promote"
          /\ log' = bak /\ logFile' = "present"
          /\ bak' = {} /\ bakFile' = "missing"
       \/ UNCHANGED <<log, logFile, bak, bakFile>>
    /\ UNCHANGED <<snaps, marker, nextSeq, acked, applied, progress, count, rewrites>>

\* The process dies: only the files remain.
Crash ==
    /\ stage # "down"
    /\ stage' = "down"
    /\ nextSeq' = 0
    /\ applied' = {}
    /\ ckSeq' = 0 /\ payload' = {} /\ tail' = {}
    /\ UNCHANGED <<files, acked, count, bounds>>

-----------------------------------------------------------------------------
\* read_session_head_meta: a session is listed, and can be loaded, while its
\* log exists and still begins with sessionStart.
Listed == logFile = "present" /\ 1 \in Evs(log)

\* load_active_checkpoint: the snapshot the marker names; an error if it is
\* missing.
MarkerReadable == marker # NoMarker => marker \in DOMAIN snaps

\* recover_session: the checkpoint, and the events of the log after it.
Checkpointed == IF marker = NoMarker THEN {} ELSE snaps[marker]
TailRecovered == IF marker = NoMarker THEN log ELSE After(log, marker)
Recovered == Checkpointed \cup Evs(TailRecovered)

\* ensure_loaded_session after a restart: find_meta, then recover_session.
Reload ==
    /\ stage = "down"
    /\ Listed /\ MarkerReadable
    /\ stage' = "idle"
    /\ applied' = Recovered
    /\ UNCHANGED <<files, nextSeq, acked, progress, count, bounds>>

Next ==
    \/ Append_ \/ Build \/ CloseLog \/ ReadTail \/ CommitSnapshot \/ ClearMarker
    \/ PlaceMarker \/ RemoveStaleBackup \/ RotateLog \/ PromoteTail \/ RemoveBackup
    \/ StepFails \/ Crash \/ Reload

Spec == Init /\ [][Next]_vars

-----------------------------------------------------------------------------
\* Whatever fails or crashes in whichever order, no acknowledged event is gone
\* from the disk: it is in the log, in the backup, or applied in some snapshot.
NothingDestroyed ==
    acked \subseteq Evs(log) \cup Evs(bak) \cup UNION {snaps[s] : s \in DOMAIN snaps}

\* Recovery never applies an event to a snapshot that has it already, also when
\* the crash came between the marker and the truncation of the log.
NoDoubleApply == MarkerReadable => Checkpointed \cap Evs(TailRecovered) = {}
=============================================================================
