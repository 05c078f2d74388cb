---------------------------- MODULE AgentControl ----------------------------
(***************************************************************************)
(* The live registry of agents (crates/server/src/runtime_bridge/          *)
(* agent_control_registry/{mod,tree_ops,state}.rs) and the tool calls that *)
(* work on it: launch, send and close (crates/server/src/application/      *)
(* agent/), the close request of a client, and the watcher of a child's    *)
(* turn.  Each method of the registry runs under one write lock and is one *)
(* step here; a tool call is a sequence of such steps with awaits between. *)
(*                                                                         *)
(* A sub-run is a number, an agent is the number of its first sub-run, and *)
(* Root is the agent of the session the tree grows from.  Tools address    *)
(* agents, never sub-runs.  The queues of parent deliveries are modelled   *)
(* by ParentDelivery.                                                      *)
(***************************************************************************)
EXTENDS Integers, Sequences, FiniteSets, SequencesExt, Selection

CONSTANTS MaxCalls,       \* bound on the tool calls, each of which makes at most one sub-run
          Kinds,          \* what each call may be: [1..MaxCalls -> SUBSET {"launch", "send", "close"}]
          MaxDepth,       \* max_depth
          MaxConcurrent,  \* max_concurrent
          RetainLimit,    \* finalized_retain_limit
          InboxCapacity   \* inbox_capacity

ASSUME SizeAssumption == MaxCalls \in Nat
ASSUME LimitAssumption == /\ MaxDepth \in Nat /\ MaxConcurrent \in Nat \ {0}
                          /\ RetainLimit \in Nat /\ InboxCapacity \in Nat

VARIABLES
    owner,    \* the agent of each sub-run ever made: a sequence
    entries,  \* AgentRegistryState::entries, a function on the sub-runs present
    index,    \* AgentRegistryState::agent_index
    active,   \* AgentRegistryState::active_count
    nextSeq,  \* next_finalized_seq
    turn,     \* the turn of each sub-run, if one was submitted; one that has ended
              \* may be one whose outcome could not be projected
    watched,  \* sub-runs whose turn has a terminal watcher
    call,     \* the tool calls
    accepted, \* messages put into the inbox of a running child: numbers of send calls (ghost)
    prompted, \* messages that are part of a submitted prompt (ghost)
    dropped,  \* messages cleared by a close or given up by a restore (ghost)
    revived   \* sub-runs set to Running although they were closed (ghost)

ghosts == <<accepted, prompted, dropped, revived>>
vars == <<owner, entries, index, active, nextSeq, turn, watched, call, ghosts>>

MaxSubs == MaxCalls + 1
SubIds == 1..MaxSubs
Calls == 1..MaxCalls
Root == 1
NoAgent == 0
Unfinished == 0   \* finalized_seq is None; the numbers handed out start at 1 here

Occupying == {"Pending", "Running"}   \* AgentLifecycleStatus::occupies_slot
Lifecycle == Occupying \cup {"Idle", "Terminated"}

Entry == [parent : {NoAgent} \cup SubIds, depth : Nat, kids : SUBSET SubIds,
          status : Lifecycle, seq : Nat, inbox : Seq(Calls)]
Stages == {"idle", "spawned", "found", "drain", "resume", "submit", "restore", "queue",
           "closing", "done"}

TypeOK ==
    /\ owner \in Seq(SubIds) /\ Len(owner) <= MaxSubs
    /\ DOMAIN entries \subseteq DOMAIN owner
    /\ \A s \in DOMAIN entries : entries[s] \in Entry
    /\ \A a \in DOMAIN index : index[a] \in DOMAIN entries /\ owner[index[a]] = a
    /\ active \in Nat /\ nextSeq \in Nat \ {0}
    /\ turn \in [SubIds -> {"none", "running", "ended", "unprojected"}]
    /\ watched \subseteq SubIds
    /\ call \in [Calls -> [stage : Stages, by : {NoAgent} \cup SubIds,
                           agent : {NoAgent} \cup SubIds, run : {NoAgent} \cup SubIds,
                           idle : BOOLEAN, taken : Seq(Calls), then : {"queue", "done"}]]
    /\ accepted \subseteq Calls /\ prompted \subseteq Calls /\ dropped \subseteq Calls
    /\ revived \subseteq DOMAIN owner

NewEntry(parent, depth, kids, status) ==
    [parent |-> parent, depth |-> depth, kids |-> kids, status |-> status,
     seq |-> Unfinished, inbox |-> <<>>]

Waiting == [stage |-> "idle", by |-> NoAgent, agent |-> NoAgent, run |-> NoAgent,
            idle |-> FALSE, taken |-> <<>>, then |-> "done"]

\* Nothing is registered yet; the number of the root's run is given.
Init ==
    /\ owner = <<Root>>
    /\ entries = [s \in {} |-> NewEntry(NoAgent, 0, {}, "Running")]
    /\ index = [a \in {} |-> Root]
    /\ active = 0
    /\ nextSeq = 1
    /\ turn = [s \in SubIds |-> "none"]
    /\ watched = {}
    /\ call = [c \in Calls |-> Waiting]
    /\ accepted = {} /\ prompted = {} /\ dropped = {}
    /\ revived = {}

Present(a) == a \in DOMAIN index                    \* resolve_entry_key
Current(a) == entries[index[a]]
Occupied == {s \in DOMAIN entries : entries[s].status \in Occupying}
Finalized(e) == {s \in DOMAIN e : e[s].seq # Unfinished}
Less(n, m) == IF n > m THEN n - m ELSE 0            \* saturating_sub

\* Bug: runs that gave their slot back before are counted again.
FreedTwice(S) == Cardinality(S)

\* The slots that runs S give back when they end.
Freed(S) == Cardinality(S \cap Occupied)

\* The agents whose turn may make a tool call now: the root's session is the
\* user's, every other agent needs a running turn.
Callers == {Root} \cup {owner[s] : s \in {t \in DOMAIN owner : turn[t] = "running"}}

-----------------------------------------------------------------------------
\* prune_finalized_agents_locked: while there are more finalized leaves than
\* the limit, the one finalized first leaves the registry, its agent the index
\* and its name the children of its parent's current run.
Leaves(e) == {s \in Finalized(e) : e[s].kids = {}}

PruneOnce(e, i) ==
    LET gone == CHOOSE s \in Leaves(e) : \A t \in Leaves(e) : e[s].seq <= e[t].seq
        up == e[gone].parent
        holder == IF up \in DOMAIN i THEN i[up] ELSE NoAgent
    IN [e |-> [s \in DOMAIN e \ {gone} |->
                  IF s = holder THEN [e[s] EXCEPT !.kids = @ \ {gone}] ELSE e[s]],
        i |-> [a \in DOMAIN i \ {owner[gone]} |-> i[a]]]

Pruned(e, i) ==
    LET after[n \in 0..MaxSubs] ==
            IF n = 0 THEN [e |-> e, i |-> i]
            ELSE LET last == after[n-1] IN PruneOnce(last.e, last.i)
    IN after[CHOOSE n \in 0..MaxSubs : /\ Cardinality(Leaves(after[n].e)) <= RetainLimit
                                       /\ \A m \in 0..(n-1) :
                                             Cardinality(Leaves(after[m].e)) > RetainLimit].e

\* What remains of entries e and index i: a sub-run that leaves is a finalized
\* one, its agent leaves the index with it, and one that stays changes at most
\* its children.  With it go the messages in its inbox.
PruneTo(e, i, cleared) ==
    \E kept \in {Pruned(e, i)} :
       LET gone == {s \in Finalized(e) : s \notin DOMAIN kept} IN
       /\ entries' = [s \in DOMAIN e \ gone |-> [e[s] EXCEPT !.kids = kept[s].kids]]
       /\ index' = [a \in DOMAIN i \ {owner[s] : s \in gone} |-> i[a]]
       /\ dropped' = dropped \cup cleared \cup UNION {Range(e[s].inbox) : s \in gone}

\* entry_children: in the order of the set, those that are there.
Children(e, s) == Selected([t \in SubIds |-> t], e[s].kids \cap DOMAIN e)

\* From each sub-run one level further down: itself, then what each of its
\* children reached.
Deeper(e, reached) ==
    [t \in DOMAIN e |->
       <<t>> \o FlattenSeq([k \in DOMAIN Children(e, t) |-> reached[Children(e, t)[k]]])]

\* traverse_tree: the sub-run and what is below it, parents first.
Below(e, s) ==
    LET walk[d \in 0..MaxSubs] == IF d = 0 THEN [t \in DOMAIN e |-> <<t>>]
                                 ELSE Deeper(e, walk[d-1])
    IN walk[MaxSubs][s]

-----------------------------------------------------------------------------
Step(c, stage) == call' = [call EXCEPT ![c].stage = stage]
Over(c) == Step(c, "done")
\* Calls are numbered in the order they start.
MayStart(c, kind) == /\ call[c].stage = "idle" /\ kind \in Kinds[c]
                     /\ \A d \in 1..(c-1) : call[d].stage # "idle"
Start(c, kind, by, a, s, stage) ==
    /\ MayStart(c, kind)
    /\ call' = [call EXCEPT ![c].stage = stage, ![c].by = by, ![c].agent = a, ![c].run = s]

RoomForOne == Len(owner) + 1 \in SubIds
MaySpawn(p) == /\ Present(p) /\ Current(p).depth + 1 <= MaxDepth
               /\ active < MaxConcurrent

\* ensure_parent_agent_handle registers the root, the first time and again when
\* it was closed and pruned.
RegisterRoot ==
    /\ ~Present(Root)
    /\ entries' = [s \in DOMAIN entries \cup {Root} |->
                     IF s = Root THEN NewEntry(NoAgent, 0, {}, "Running") ELSE entries[s]]
    /\ index' = [a \in DOMAIN index \cup {Root} |-> IF a = Root THEN Root ELSE index[a]]
    /\ active' = active + 1
    /\ UNCHANGED <<owner, nextSeq, turn, watched, call, ghosts>>

\* spawn_with_storage for a child of p.
Spawn(c, p) ==
    LET s == Len(owner) + 1 IN
    /\ p \in Callers
    /\ RoomForOne
    /\ MaySpawn(p)
    /\ Start(c, "launch", p, s, s, "spawned")
    /\ owner' = Append(owner, s)
    /\ active' = active + 1
    /\ PruneTo([t \in DOMAIN entries \cup {s} |->
                  IF t = s THEN NewEntry(p, Current(p).depth + 1, {}, "Pending")
                  ELSE IF t = index[p] THEN [entries[t] EXCEPT !.kids = @ \cup {s}]
                  ELSE entries[t]],
               [a \in DOMAIN index \cup {s} |-> IF a = s THEN s ELSE index[a]], {})
    /\ UNCHANGED <<nextSeq, turn, watched, accepted, prompted, revived>>

\* The parent is gone, too deep, or the registry is full.
SpawnRefused(c, p) ==
    /\ p \in Callers
    /\ ~MaySpawn(p)
    /\ Start(c, "launch", p, NoAgent, NoAgent, "done")
    /\ UNCHANGED <<owner, entries, index, active, nextSeq, turn, watched, ghosts>>

\* launch_subagent: set_lifecycle(Running), whatever happened to the child
\* since it was spawned; the launch fails if it is no longer registered.
MarkRunning(c) ==
    LET a == call[c].agent IN
    /\ call[c].stage = "spawned"
    /\ IF Present(a)
       THEN /\ entries' = [entries EXCEPT ![index[a]].status = "Running"]
            /\ revived' = IF Current(a).status = "Terminated" THEN revived \cup {index[a]}
                          ELSE revived
            /\ Step(c, "submit")
       ELSE Over(c) /\ UNCHANGED <<entries, revived>>
    /\ UNCHANGED <<owner, index, active, nextSeq, turn, watched, accepted, prompted, dropped>>

\* The task is submitted to the child's session and its watcher started.
LaunchSubmits(c) ==
    /\ call[c].stage = "submit"
    /\ call[c].run = call[c].agent
    /\ turn' = [turn EXCEPT ![call[c].run] = "running"]
    /\ watched' = watched \cup {call[c].run}
    /\ Over(c)
    /\ UNCHANGED <<owner, entries, index, active, nextSeq, ghosts>>

\* Any call of the launch after spawn_with_storage fails; nothing is undone.
LaunchFails(c) ==
    /\ call[c].stage = "submit"
    /\ call[c].run = call[c].agent
    /\ Over(c)
    /\ UNCHANGED <<owner, entries, index, active, nextSeq, turn, watched, ghosts>>

-----------------------------------------------------------------------------
\* send_to_child: the caller's own child is looked up, and its handle copied ...
SendFinds(c, p, a) ==
    /\ p \in Callers
    /\ a \in DOMAIN index
    /\ Current(a).parent = p
    /\ MayStart(c, "send")
    /\ call' = [call EXCEPT ![c].stage = "found", ![c].by = p, ![c].agent = a,
                            ![c].idle = Current(a).status \notin Occupying]
    /\ UNCHANGED <<owner, entries, index, active, nextSeq, turn, watched, ghosts>>

\* Bug: a terminated child is not told from an idle one.
SendReadsAny(c) ==
    LET a == call[c].agent
        status == IF Present(a) THEN Current(a).status ELSE "Pending"
    IN
    /\ call[c].stage = "found"
    /\ Step(c, IF status \notin Occupying /\ call[c].idle THEN "drain" ELSE "queue")
    /\ UNCHANGED <<owner, entries, index, active, nextSeq, turn, watched, ghosts>>

\* ... then its lifecycle is read, and decides how the message goes.
SendReads(c) ==
    LET a == call[c].agent
        status == IF Present(a) THEN Current(a).status ELSE "Pending"
    IN
    /\ call[c].stage = "found"
    /\ Step(c, IF status = "Terminated" THEN "done"
               ELSE IF status = "Idle" /\ call[c].idle THEN "drain" ELSE "queue")
    /\ UNCHANGED <<owner, entries, index, active, nextSeq, turn, watched, ghosts>>

\* resume_idle_child_if_needed takes the waiting messages ...
SendDrains(c) ==
    LET a == call[c].agent IN
    /\ call[c].stage = "drain"
    /\ IF Present(a)
       THEN /\ call' = [call EXCEPT ![c].stage = "resume", ![c].taken = Current(a).inbox]
            /\ entries' = [entries EXCEPT ![index[a]].inbox = <<>>]
       ELSE Step(c, "resume") /\ UNCHANGED entries
    /\ UNCHANGED <<owner, index, active, nextSeq, turn, watched, ghosts>>

\* Bug: the child's lifecycle is not looked at again.
ResumableAlways(a) == Present(a)

Resumable(a) == Present(a) /\ Current(a).status \notin Occupying

\* Bug: the new run starts without the old one's children.
SuccessorChildless(a) == NewEntry(Current(a).parent, Current(a).depth, {}, "Running")

Successor(a) == NewEntry(Current(a).parent, Current(a).depth, Current(a).kids, "Running")

\* ... and resume makes a new sub-run of the agent, with the children of the
\* old one, which stays in the registry.  No limit is checked.
Resume(c) ==
    LET a == call[c].agent
        old == index[a]
        s == Len(owner) + 1
        up == Current(a).parent
        holder == IF Present(up) THEN index[up] ELSE NoAgent
    IN
    /\ call[c].stage = "resume"
    /\ Resumable(a)
    /\ RoomForOne
    /\ owner' = Append(owner, a)
    /\ active' = active + 1
    /\ entries' = [t \in DOMAIN entries \cup {s} |->
                     IF t = s THEN Successor(a)
                     ELSE IF t = holder
                     THEN [entries[t] EXCEPT !.kids = (@ \ {old}) \cup {s}]
                     ELSE entries[t]]
    /\ index' = [index EXCEPT ![a] = s]
    /\ call' = [call EXCEPT ![c].stage = "submit", ![c].run = s]
    /\ UNCHANGED <<nextSeq, turn, watched, ghosts>>

\* Bug: the drained messages are not put back.
ResumeRefusedLosing(c) ==
    /\ call[c].stage = "resume"
    /\ ~Resumable(call[c].agent)
    /\ call' = [call EXCEPT ![c].stage = "queue", ![c].taken = <<>>]
    /\ UNCHANGED <<owner, entries, index, active, nextSeq, turn, watched, ghosts>>

\* The child runs by now: the messages go back and this one is queued.
ResumeRefused(c) ==
    /\ call[c].stage = "resume"
    /\ ~Resumable(call[c].agent)
    /\ call' = [call EXCEPT ![c].stage = "restore", ![c].then = "queue"]
    /\ UNCHANGED <<owner, entries, index, active, nextSeq, turn, watched, ghosts>>

\* The child's session runs a turn already.
Busy(a) == \E s \in DOMAIN owner : owner[s] = a /\ turn[s] = "running"

\* The resumed sub-run's turn is submitted.  No watcher is started.
SendSubmits(c) ==
    /\ call[c].stage = "submit"
    /\ call[c].run # call[c].agent
    /\ ~Busy(call[c].agent)
    /\ turn' = [turn EXCEPT ![call[c].run] = "running"]
    /\ prompted' = prompted \cup Range(call[c].taken) \cup {c}
    /\ call' = [call EXCEPT ![c].stage = "done", ![c].taken = <<>>]
    /\ UNCHANGED <<owner, entries, index, active, nextSeq, watched, accepted, dropped, revived>>

\* The session is busy, or a step up to the submission fails: the messages go
\* back; the resume is not undone.
SendNotSubmitted(c) ==
    /\ call[c].stage = "submit"
    /\ call[c].run # call[c].agent
    /\ \E then \in {"queue", "done"} :
          /\ then = "queue" => Busy(call[c].agent)
          /\ call' = [call EXCEPT ![c].stage = "restore", ![c].then = then]
    /\ UNCHANGED <<owner, entries, index, active, nextSeq, turn, watched, ghosts>>

Accepts(a) == Present(a) /\ Len(Current(a).inbox) < InboxCapacity

\* push_inbox for agent a.
Push(a, m) == entries' = [entries EXCEPT ![index[a]].inbox = Append(@, m)]

\* restore_pending_inbox, one message at a time; it gives up at the first that
\* is not accepted.
RestoreOne(c) ==
    LET a == call[c].agent  left == call[c].taken IN
    /\ call[c].stage = "restore"
    /\ IF left # <<>> /\ Accepts(a)
       THEN /\ Push(a, Head(left))
            /\ call' = [call EXCEPT ![c].taken = Tail(@)]
            /\ UNCHANGED dropped
       ELSE /\ call' = [call EXCEPT ![c].stage = call[c].then, ![c].taken = <<>>]
            /\ dropped' = dropped \cup Range(left)
            /\ UNCHANGED entries
    /\ UNCHANGED <<owner, index, active, nextSeq, turn, watched, accepted, prompted, revived>>

\* queue_message_for_active_child: into the inbox, or the call fails.
SendQueues(c) ==
    LET a == call[c].agent IN
    /\ call[c].stage = "queue"
    /\ Over(c)
    /\ IF Accepts(a) THEN Push(a, c) /\ accepted' = accepted \cup {c}
       ELSE UNCHANGED <<entries, accepted>>
    /\ UNCHANGED <<owner, index, active, nextSeq, turn, watched, prompted, dropped, revived>>

-----------------------------------------------------------------------------
\* terminate_subtree of agent a, whatever state its runs are in.
Terminate(a) ==
    \E order \in {Below(entries, index[a])} :
    LET ended == Range(order)
        rank(s) == CHOOSE k \in DOMAIN order : order[k] = s
    IN
    /\ active' = Less(active, Freed(ended))
    /\ nextSeq' = nextSeq + Len(order)
    /\ PruneTo([s \in DOMAIN entries |->
                  IF s \in ended
                  THEN [entries[s] EXCEPT !.status = "Terminated", !.inbox = <<>>,
                                          !.seq = nextSeq + rank(s) - 1]
                  ELSE entries[s]],
               index, UNION {Range(entries[s].inbox) : s \in ended})

\* close_child: the caller must be the parent ...
CloseFinds(c, p, a) ==
    /\ p \in Callers
    /\ a \in DOMAIN index
    /\ Current(a).parent = p
    /\ Start(c, "close", p, a, NoAgent, "closing")
    /\ UNCHANGED <<owner, entries, index, active, nextSeq, turn, watched, ghosts>>

\* ... and after the discards are written the subtree is terminated.
CloseTerminates(c) ==
    /\ call[c].stage = "closing"
    /\ Over(c)
    /\ IF Present(call[c].agent) THEN Terminate(call[c].agent)
       ELSE UNCHANGED <<entries, index, active, nextSeq, dropped>>
    /\ UNCHANGED <<owner, turn, watched, accepted, prompted, revived>>

\* A discard cannot be written: the close ends before it has terminated anyone.
CloseFails(c) ==
    /\ call[c].stage = "closing"
    /\ call' = [call EXCEPT ![c].stage = "done", ![c].agent = NoAgent]
    /\ UNCHANGED <<owner, entries, index, active, nextSeq, turn, watched, ghosts>>

\* close_agent of a client: any agent.
UserCloses(c, a) ==
    /\ a \in DOMAIN index
    /\ Start(c, "close", NoAgent, a, NoAgent, "done")
    /\ Terminate(a)
    /\ UNCHANGED <<owner, turn, watched, accepted, prompted, revived>>

-----------------------------------------------------------------------------
\* A turn ends when all its tool calls have returned; a close does not end it.
TurnEnds(s) ==
    /\ turn[s] = "running"
    /\ \A c \in Calls : call[c].by = owner[s] => call[c].stage \in {"idle", "done"}
    /\ turn' = [turn EXCEPT ![s] = "ended"]
    /\ UNCHANGED <<owner, entries, index, active, nextSeq, watched, call, ghosts>>

\* The watcher of a turn first projects its outcome; when the session cannot be
\* read it gives up with a warning, and nobody will complete the turn.  (An error
\* while the turn still runs is no different: the watcher acts only when it is over.)
WatcherFails(s) ==
    /\ s \in watched
    /\ turn[s] = "ended"
    /\ turn' = [turn EXCEPT ![s] = "unprojected"]
    /\ watched' = watched \ {s}
    /\ UNCHANGED <<owner, entries, index, active, nextSeq, call, ghosts>>

\* Bug: a run with messages in its inbox is taken to go on.
CompleteTurnUnlessMail(s) ==
    LET a == owner[s] IN
    /\ s \in watched
    /\ turn[s] = "ended"
    /\ watched' = watched \ {s}
    /\ nextSeq' = nextSeq + 1
    /\ IF Present(a) /\ Current(a).inbox = <<>>
       THEN /\ active' = Less(active, Freed({index[a]}))
            /\ PruneTo([entries EXCEPT ![index[a]].status = "Idle",
                                       ![index[a]].seq = nextSeq], index, {})
       ELSE UNCHANGED <<entries, index, active, dropped>>
    /\ UNCHANGED <<owner, turn, call, accepted, prompted, revived>>

\* finalize_child_turn_with_outcome: complete_turn for the agent, whatever its
\* current run and its state are.
CompleteTurn(s) ==
    LET a == owner[s] IN
    /\ s \in watched
    /\ turn[s] = "ended"
    /\ watched' = watched \ {s}
    /\ nextSeq' = nextSeq + 1
    /\ IF Present(a)
       THEN /\ active' = Less(active, Freed({index[a]}))
            /\ PruneTo([entries EXCEPT ![index[a]].status = "Idle",
                                       ![index[a]].seq = nextSeq], index, {})
       ELSE UNCHANGED <<entries, index, active, dropped>>
    /\ UNCHANGED <<owner, turn, call, accepted, prompted, revived>>

-----------------------------------------------------------------------------
Launches(c) == MarkRunning(c) \/ LaunchSubmits(c) \/ LaunchFails(c)
Sends(c) == \/ SendReads(c) \/ SendDrains(c) \/ Resume(c) \/ ResumeRefused(c) \/ SendSubmits(c)
            \/ SendNotSubmitted(c) \/ RestoreOne(c) \/ SendQueues(c)
Continues(c) == Launches(c) \/ Sends(c) \/ CloseTerminates(c) \/ CloseFails(c)
Watches(s) == CompleteTurn(s) \/ WatcherFails(s)
Begins(c) == \E p \in SubIds : \/ Spawn(c, p) \/ SpawnRefused(c, p)
                               \/ \E a \in SubIds : SendFinds(c, p, a) \/ CloseFinds(c, p, a)

Next ==
    \/ RegisterRoot
    \/ \E c \in Calls : Begins(c) \/ Continues(c) \/ \E a \in SubIds : UserCloses(c, a)
    \/ \E s \in SubIds : TurnEnds(s) \/ Watches(s)

Spec == Init /\ [][Next]_vars

\* The tasks of the runtime are scheduled, and a turn comes to its end.
Fairness == /\ WF_vars(\E c \in Calls : Continues(c))
            /\ WF_vars(\E s \in SubIds : TurnEnds(s))
            /\ WF_vars(\E s \in SubIds : Watches(s))

FairSpec == Spec /\ Fairness

-----------------------------------------------------------------------------
\* Hazard: active_count is kept by hand in six places while lifecycles change
\* in two more, and the limit on agents is only as good as the count.  The
\* count is the number of runs that occupy a slot, except for runs that a launch
\* sets to Running after they were closed (subagent.rs:108 with mod.rs:268);
\* and no more agents run their first task than the limit and those allow,
\* resumed ones (mod.rs:369) aside.
Counted == {s \in Occupied : entries[s].seq = Unfinished}
SlotsCounted ==
    /\ active <= Cardinality(Counted)
    /\ Cardinality(Occupied) <= active + Cardinality(revived)
SpawnLimit ==
    Cardinality({s \in Occupied \ {Root} : owner[s] = s}) <= MaxConcurrent + Cardinality(revived)
Slots == SlotsCounted /\ SpawnLimit

\* Hazard: two sends find the same child idle and both resume it, or one
\* resumes what a launch sets to Running: no agent has two live runs.
OneLiveRun == \A s, t \in Occupied : owner[s] = owner[t] => s = t

\* Hazard: a run that a resume, a spawn and a prune have moved about in the
\* tree is missed by a close.  A close leaves nothing below the agent running
\* that the index still knows.
Under(a) ==
    LET below[d \in 0..MaxSubs] ==
            IF d = 0 THEN {index[a]}
            ELSE below[d-1] \cup {s \in Range(index) :
                                    LET up == entries[s].parent
                                    IN Present(up) /\ index[up] \in below[d-1]}
    IN below[MaxSubs]
Closes(c) == /\ call[c].stage \in {"idle", "closing"} /\ call'[c].stage = "done"
             /\ Present(call'[c].agent)
CloseReaches ==
    [][\A c \in Calls : Closes(c) =>
          \A s \in Under(call'[c].agent) \cap DOMAIN entries' : entries'[s].status = "Terminated"]_vars

\* Hazard: a closed agent comes back to life (lifecycle.rs:26: it cannot be
\* resumed).  It does when the watcher of its last turn completes it, or a
\* launch or a send that looked before the close goes on.  Once none of these is
\* left, the agent stays closed for good.
AtRest(a) ==
    /\ Present(a)
    /\ Current(a).status = "Terminated"
    /\ \A s \in watched : owner[s] # a
    /\ \A c \in Calls : call[c].agent = a => call[c].stage \notin {"spawned", "submit", "drain", "resume"}
ClosedStays == [][\A a \in SubIds : AtRest(a) /\ Present(a)' => AtRest(a)']_vars

\* Hazard: a message for a child is drained, carried by a call that fails, put
\* back or queued meanwhile.  Every accepted message is in one place: an inbox
\* of a run of its agent, the hands of one send call, or a prompt; unless a close
\* or a full inbox dropped it, or its run was pruned.
Holders(m) == {s \in DOMAIN entries : m \in Range(entries[s].inbox)}
Carriers(m) == {c \in Calls : m \in Range(call[c].taken)}
MessagesKept ==
    /\ \A m \in accepted \ dropped :
          /\ Cardinality(Holders(m)) + Cardinality(Carriers(m)) <= 1
          /\ (Holders(m) \cup Carriers(m) = {}) <=> m \in prompted

\* Hazard: a launched child's slot is never given back.  Whatever is closed,
\* resumed or sent meanwhile, a watched turn's run stops occupying a slot, or its
\* watcher could not project the turn's outcome (terminal.rs:110-113): that slot stays
\* taken until the agent is closed.
SlotReleased == \A s \in SubIds : s \in watched ~> s \notin Occupied \/ turn[s] = "unprojected"
=============================================================================
