------------------------- MODULE ConversationStream -------------------------
(***************************************************************************)
(* crates/server/src/http/routes/conversation.rs with                      *)
(* read_model/conversation/mod.rs and conversation_stream_replay of        *)
(* crates/host-session/src/query.rs: one client that follows a session.    *)
(* It hydrates from a snapshot and then opens a stream at the snapshot's   *)
(* cursor.  The server checks the cursor, replays the durable records      *)
(* after it, awaits the facts for the side panels and only then subscribes *)
(* to the broadcaster (conversation.rs:632 and 666); meanwhile the         *)
(* session's appenders store records and broadcast them later (see         *)
(* SessionState), each in its own time, so that the broadcasts need not    *)
(* follow the log, and a checkpoint may shorten the log.  A record that    *)
(* yields no frame does not move the cursor.                               *)
(*                                                                         *)
(* Records are of two kinds.  A "block" (a user message, an assistant      *)
(* message, the start of a tool call) is known by its id and projected     *)
(* once; a "delta" (a chunk of tool output) is appended each time it is    *)
(* projected.  Live events, the side panels and the frames they cause are  *)
(* left out: they carry no durable record.                                 *)
(***************************************************************************)
EXTENDS Naturals, Sequences, SequencesExt, FiniteSets

CONSTANTS Writers,          \* concurrent calls of append_and_broadcast
          ChannelCapacity,  \* SESSION_BROADCAST_CAPACITY
          MaxRecords, MaxBreaks, MaxCheckpoints   \* bounds

ASSUME StreamAssumption ==
    /\ ChannelCapacity \in Nat \ {0}
    /\ MaxRecords \in Nat /\ MaxBreaks \in Nat /\ MaxCheckpoints \in Nat

VARIABLES
    records,    \* the kind of every record the session has stored
    base,       \* how many of them checkpoints have removed from the file
    storing,    \* each writer: the record it has stored and not broadcast, or 0
    broadcasts, \* what the broadcaster has sent, in order
    stage,      \* the client's connection
    shown,      \* the records whose frames the client has got, in order
    cursor,     \* the client's cursor, and last_sent_cursor of the server
    seeded,     \* whether the connection has its projector ...
    blocks,     \* ... and the records that it has projected
    history,    \* replayed records still to be delivered
    next,       \* position in broadcasts of the receiver
    mark,       \* Len(broadcasts) ...
    replayed,   \* ... and Len(records) when the log was replayed
    missed,     \* records broadcast between a replay and its subscription
    breaks, checkpoints

session == <<records, base, storing, broadcasts, checkpoints>>
reading == <<mark, replayed>>
client == <<stage, shown, cursor, seeded, blocks, history, next, reading, missed, breaks>>
streamVars == <<session, client>>

InFile == (base + 1)..Len(records)
RecordsAfter(n) == [k \in 1..(Len(records) - n) |-> n + k]

StreamInit ==
    /\ records = <<>> /\ base = 0 /\ broadcasts = <<>> /\ checkpoints = 0
    /\ storing = [p \in Writers |-> 0]
    /\ stage = "new" /\ shown = <<>> /\ cursor = 0
    /\ seeded = FALSE /\ blocks = {} /\ history = <<>> /\ next = 1
    /\ mark = 0 /\ replayed = 0 /\ missed = {} /\ breaks = 0

-----------------------------------------------------------------------------
\* append_and_broadcast: the record is durable ...
Store(p, kind) ==
    /\ storing[p] = 0 /\ Len(records) < MaxRecords
    /\ records' = Append(records, kind)
    /\ storing' = [storing EXCEPT ![p] = Len(records) + 1]
    /\ UNCHANGED <<base, broadcasts, checkpoints, client>>

\* ... and, later, broadcast.
Broadcast(p) ==
    /\ storing[p] # 0
    /\ broadcasts' = Append(broadcasts, storing[p])
    /\ storing' = [storing EXCEPT ![p] = 0]
    /\ UNCHANGED <<records, base, checkpoints, client>>

\* A compaction's checkpoint, filed under an event of its caller, removes
\* the records up to it from the file.
Truncate ==
    /\ checkpoints < MaxCheckpoints
    /\ \E i \in ToSet(broadcasts) : i > base /\ base' = i
    /\ checkpoints' = checkpoints + 1
    /\ UNCHANGED <<records, storing, broadcasts, client>>

-----------------------------------------------------------------------------
\* build_terminal_snapshot_facts: the client shows what the file holds.
Hydrate ==
    /\ stage \in {"new", "stale"}
    /\ stage' = "hydrated"
    /\ shown' = RecordsAfter(base)
    /\ cursor' = IF InFile = {} THEN 0 ELSE Len(records)
    /\ missed' = {}
    /\ seeded' = FALSE /\ blocks' = {}
    /\ UNCHANGED <<session, history, next, reading, breaks>>

\* build_terminal_stream_facts: a cursor that the file does not hold, or that
\* is after its end, needs a new snapshot ...
CheckCursor ==
    /\ stage = "hydrated"
    /\ stage' = IF cursor = 0 \/ cursor \in InFile THEN "checked" ELSE "stale"
    /\ UNCHANGED <<session, shown, cursor, seeded, blocks, history, next, reading, missed, breaks>>

\* ... otherwise conversation_stream_replay reads the file again: the records
\* up to the cursor seed a new projector, those after it will be delivered; when
\* the file no longer holds the cursor, all of them (split_records_at_cursor).
ReplayFile ==
    /\ stage = "checked"
    /\ LET after == IF cursor \in InFile THEN cursor ELSE base IN
       /\ history' = RecordsAfter(after)
       /\ blocks' = IF seeded THEN blocks ELSE (base + 1)..after
    /\ seeded' = TRUE
    /\ mark' = Len(broadcasts) /\ replayed' = Len(records)
    /\ stage' = "replayed"
    /\ UNCHANGED <<session, shown, cursor, next, missed, breaks>>

\* After terminal_control_facts and the others: broadcaster.subscribe().
OpenReceiver ==
    /\ stage = "replayed"
    /\ next' = Len(broadcasts) + 1
    /\ missed' = missed \cup ({broadcasts[k] : k \in (mark + 1)..Len(broadcasts)} \ ToSet(history))
    /\ stage' = "open"
    /\ UNCHANGED <<session, shown, cursor, seeded, blocks, history, reading, breaks>>

\* project_durable_record and wrap_durable_deltas.
Project(i) ==
    IF records[i] = "block" /\ i \in blocks
    THEN UNCHANGED <<shown, cursor, blocks>>
    ELSE /\ shown' = Append(shown, i)
         /\ cursor' = i
         /\ blocks' = blocks \cup {i}

\* The replayed records are delivered before the receiver is looked at.
Deliver ==
    /\ stage = "open" /\ history # <<>>
    /\ Project(Head(history))
    /\ history' = Tail(history)
    /\ UNCHANGED <<session, stage, seeded, next, reading, missed, breaks>>

Lagging == Len(broadcasts) >= next + ChannelCapacity

ReceiveNext ==
    /\ stage = "open" /\ history = <<>> /\ next <= Len(broadcasts) /\ ~Lagging
    /\ Project(broadcasts[next])
    /\ next' = next + 1
    /\ UNCHANGED <<session, stage, seeded, history, reading, missed, breaks>>

\* Bug: a stream that lags goes on with the oldest record it can get.
LaggedSkips ==
    /\ stage = "open" /\ history = <<>> /\ next <= Len(broadcasts) /\ Lagging
    /\ next' = Len(broadcasts) - ChannelCapacity + 1
    /\ UNCHANGED <<session, stage, shown, cursor, seeded, blocks, history, reading, missed, breaks>>

\* Bug: a stream that lags is rebuilt from where its client began.
LaggedFromStart ==
    /\ stage = "open" /\ history = <<>> /\ next <= Len(broadcasts) /\ Lagging
    /\ stage' = "hydrated"
    /\ cursor' = 0
    /\ UNCHANGED <<session, shown, seeded, blocks, history, next, reading, missed, breaks>>

\* A receiver that has lost records is replaced: the facts are built again
\* from last_sent_cursor, on the same projector.
Lagged ==
    /\ stage = "open" /\ history = <<>> /\ next <= Len(broadcasts) /\ Lagging
    /\ stage' = "hydrated"
    /\ UNCHANGED <<session, shown, cursor, seeded, blocks, history, next, reading, missed, breaks>>

\* The connection ends, or authoritative facts cannot be refreshed: the client
\* comes back with its cursor and gets a new projector.
Break ==
    /\ stage \in {"checked", "replayed", "open"} /\ breaks < MaxBreaks
    /\ breaks' = breaks + 1
    /\ stage' = "hydrated"
    /\ seeded' = FALSE /\ blocks' = {} /\ history' = <<>>
    /\ UNCHANGED <<session, shown, cursor, next, reading, missed>>

StreamNext ==
    \/ \E p \in Writers : Broadcast(p) \/ \E k \in {"block", "delta"} : Store(p, k)
    \/ Truncate
    \/ Hydrate \/ CheckCursor \/ ReplayFile \/ OpenReceiver
    \/ Deliver \/ ReceiveNext \/ Lagged \/ Break

StreamSpec == StreamInit /\ [][StreamNext]_streamVars

-----------------------------------------------------------------------------
\* The records that a later one has overtaken on its way to the broadcaster.
Overtaken ==
    {i \in 1..Len(records) :
        \E k \in DOMAIN broadcasts :
            i < broadcasts[k] /\ \A j \in 1..(k - 1) : broadcasts[j] # i}

\* The records that the replay had and whose broadcast was still to come.
Due == (1..replayed) \ {broadcasts[k] : k \in 1..mark}

\* Frames come in the order of the log (terminal-chat-read-model/spec.md:
\* ordered deltas): however often a client comes back, lags and is rebuilt, what
\* it gets goes back only to a record that was overtaken, or that was replayed
\* before its broadcast.
OrderedDelivery ==
    [][\A i \in 1..Len(records) :
          shown' = Append(shown, i) /\ shown # <<>> /\ i < Last(shown) => i \in Overtaken \cup Due
      ]_streamVars

\* The only records a client never gets although its cursor has passed them
\* are those broadcast between a replay and its subscription, those that were
\* overtaken, and those that a checkpoint has taken out of the file.
GapsExplained ==
    \A i \in (base + 1)..cursor : i \in ToSet(shown) \cup missed \cup Overtaken
=============================================================================
