------------------------- MODULE AgentControlProofs -------------------------
(***************************************************************************)
(* What holds of the registry of agents however many calls, agents and     *)
(* limits there are: an agent never has two live runs, a closed agent      *)
(* stays closed once nothing of it is in flight, the slots in use are      *)
(* counted by the runs that hold one, and a message is in one place until  *)
(* it is prompted or dropped; and a close reaches every current run below  *)
(* the agent.  The first two rest on what the index says of the runs that  *)
(* occupy a slot; the count also on what may happen to a spawned agent     *)
(* before its launch marks it running, which is nothing but a close; the   *)
(* last on the children of each run, which spawns, resumes and prunes move *)
(* about: the walk of a close follows them, and the index does not.        *)
(***************************************************************************)
EXTENDS AgentControl, FiniteSetTheorems, SequenceTheorems, WellFoundedInduction, TLAPS

\* Runs are numbered as they are made, and an agent by its first run.
RunsNumbered ==
    /\ owner \in Seq(Nat)
    /\ Len(owner) >= 1
    /\ \A s \in DOMAIN owner : owner[s] \in 1..s /\ (owner[s] = Root <=> s = Root)

IsEntry(e) == e = [parent |-> e.parent, depth |-> e.depth, kids |-> e.kids,
                   status |-> e.status, seq |-> e.seq, inbox |-> e.inbox]

EntriesSound ==
    /\ DOMAIN entries \subseteq DOMAIN owner
    /\ \A s \in DOMAIN entries : IsEntry(entries[s])
    /\ Root \in DOMAIN entries => entries[Root].parent = NoAgent

IndexSound == \A a \in DOMAIN index : index[a] \in DOMAIN entries /\ owner[index[a]] = a

IsCall(k) == k = [stage |-> k.stage, by |-> k.by, agent |-> k.agent, run |-> k.run,
                  idle |-> k.idle, taken |-> k.taken, then |-> k.then]

\* What a call at this stage knows of its agent and its run.
CallSound(k) ==
    /\ IsCall(k)
    /\ k.stage \in {"spawned", "found", "drain", "resume"} => k.agent # Root
    /\ k.stage = "spawned" => k.run = k.agent
    /\ k.then \in {"queue", "done"}
    /\ k.stage \in {"spawned", "submit"} => k.run \in DOMAIN owner /\ owner[k.run] = k.agent

CallsSound == DOMAIN call = Calls /\ \A c \in Calls : CallSound(call[c])

\* Of an agent that is in the index, only the run it names may be live.
LiveIndexed ==
    \A s \in Occupied : owner[s] \in DOMAIN index => index[owner[s]] = s

\* A watcher is of a run that was made.
WatchedSound == watched \subseteq DOMAIN owner

\* The inductive invariant.  OneLiveRun alone is not inductive: a resume asks
\* only whether the run that the index names is live.
Registry == /\ RunsNumbered /\ EntriesSound /\ IndexSound /\ CallsSound
            /\ LiveIndexed /\ OneLiveRun /\ WatchedSound

-----------------------------------------------------------------------------
\* A prune takes finalized runs and their agents away, and of the runs that stay
\* it changes at most the children.
LEMMA PruneKeeps ==
    ASSUME NEW STATE e, NEW STATE i, NEW STATE cleared, PruneTo(e, i, cleared),
           \A s \in DOMAIN e : IsEntry(e[s])
    PROVE  /\ DOMAIN entries' \subseteq DOMAIN e
           /\ \A s \in DOMAIN entries' :
                 /\ IsEntry(entries'[s])
                 /\ entries'[s].status = e[s].status
                 /\ entries'[s].parent = e[s].parent
                 /\ entries'[s].seq = e[s].seq
                 /\ entries'[s].inbox = e[s].inbox
           /\ \A s \in DOMAIN e \ DOMAIN entries' : e[s].seq # Unfinished
           /\ DOMAIN index' \subseteq DOMAIN i
           /\ \A a \in DOMAIN index' :
                 /\ index'[a] = i[a]
                 /\ i[a] \in DOMAIN e /\ (owner[i[a]] = a \/ e[i[a]].seq = Unfinished)
                       => index'[a] \in DOMAIN entries'
           /\ \A a \in DOMAIN i \ DOMAIN index' :
                 \E s \in DOMAIN e \ DOMAIN entries' : owner[s] = a
           /\ dropped' = dropped \cup cleared
                  \cup UNION {Range(e[s].inbox) : s \in DOMAIN e \ DOMAIN entries'}
<1>1. PICK kept \in {Pruned(e, i)} :
          LET gone == {s \in Finalized(e) : s \notin DOMAIN kept} IN
          /\ entries' = [s \in DOMAIN e \ gone |-> [e[s] EXCEPT !.kids = kept[s].kids]]
          /\ index' = [a \in DOMAIN i \ {owner[s] : s \in gone} |-> i[a]]
          /\ dropped' = dropped \cup cleared \cup UNION {Range(e[s].inbox) : s \in gone}
      BY DEF PruneTo
<1> DEFINE gone == {s \in Finalized(e) : s \notin DOMAIN kept}
<1>2. /\ entries' = [s \in DOMAIN e \ gone |-> [e[s] EXCEPT !.kids = kept[s].kids]]
      /\ index' = [a \in DOMAIN i \ {owner[s] : s \in gone} |-> i[a]]
      /\ dropped' = dropped \cup cleared \cup UNION {Range(e[s].inbox) : s \in gone}
      BY <1>1
<1>3. gone \subseteq DOMAIN e /\ \A s \in gone : e[s].seq # Unfinished
      BY DEF Finalized
<1> HIDE DEF gone
<1>4. \A s \in DOMAIN e \ gone :
          LET f == [e[s] EXCEPT !.kids = kept[s].kids]
          IN /\ IsEntry(f) /\ f.status = e[s].status /\ f.parent = e[s].parent
             /\ f.seq = e[s].seq /\ f.inbox = e[s].inbox
      BY DEF IsEntry
<1>5. DOMAIN entries' = DOMAIN e \ gone /\ DOMAIN e \ DOMAIN entries' = gone
      BY <1>2, <1>3
<1>6. ASSUME NEW a \in DOMAIN index', i[a] \in DOMAIN e,
             owner[i[a]] = a \/ e[i[a]].seq = Unfinished
      PROVE  index'[a] \in DOMAIN entries'
      BY <1>2, <1>3, <1>5, <1>6
<1>7. \A a \in DOMAIN i \ DOMAIN index' : \E s \in gone : owner[s] = a
      BY <1>2
<1> QED BY <1>2, <1>3, <1>4, <1>5, <1>6, <1>7

-----------------------------------------------------------------------------
RunsOnly == RunsNumbered /\ EntriesSound /\ IndexSound /\ LiveIndexed /\ OneLiveRun

\* Nothing goes wrong with the runs in a step that makes none live, takes some
\* away, and leaves the index as it is for the agents that stay in it.
LEMMA Shrinks ==
    ASSUME RunsOnly, UNCHANGED owner,
           DOMAIN entries' \subseteq DOMAIN entries,
           \A s \in DOMAIN entries' :
              /\ IsEntry(entries'[s])
              /\ entries'[s].status \in Occupying => entries[s].status \in Occupying
              /\ entries'[s].parent = entries[s].parent,
           DOMAIN index' \subseteq DOMAIN index,
           \A a \in DOMAIN index' : index'[a] = index[a] /\ index'[a] \in DOMAIN entries'
    PROVE  RunsOnly'
<1>1. Occupied' \subseteq Occupied
      BY DEF Occupied
<1>2. RunsNumbered'
      BY DEF RunsOnly, RunsNumbered
<1>3. EntriesSound'
      BY DEF RunsOnly, EntriesSound, IsEntry
<1>4. IndexSound'
      BY DEF RunsOnly, IndexSound
<1>5. LiveIndexed' /\ OneLiveRun'
      BY <1>1 DEF RunsOnly, LiveIndexed, OneLiveRun
<1> QED BY <1>2, <1>3, <1>4, <1>5 DEF RunsOnly

LEMMA Unchanged == ASSUME RunsOnly, UNCHANGED <<owner, entries, index>> PROVE RunsOnly'
BY DEF RunsOnly, RunsNumbered, EntriesSound, IsEntry, IndexSound, LiveIndexed, OneLiveRun, Occupied

\* The same for a prune of entries e in which no run is live that was not before.
LEMMA PruneShrinks ==
    ASSUME RunsOnly, UNCHANGED owner, NEW STATE e, NEW STATE cleared,
           PruneTo(e, index, cleared),
           DOMAIN e = DOMAIN entries,
           \A s \in DOMAIN e :
              /\ IsEntry(e[s])
              /\ e[s].status \in Occupying => entries[s].status \in Occupying
              /\ e[s].parent = entries[s].parent
    PROVE  RunsOnly'
<1>1. /\ DOMAIN entries' \subseteq DOMAIN e
      /\ \A s \in DOMAIN entries' :
            /\ IsEntry(entries'[s])
            /\ entries'[s].status = e[s].status
            /\ entries'[s].parent = e[s].parent
      /\ DOMAIN index' \subseteq DOMAIN index
      /\ \A a \in DOMAIN index' :
            /\ index'[a] = index[a]
            /\ index[a] \in DOMAIN e /\ owner[index[a]] = a => index'[a] \in DOMAIN entries'
      BY PruneKeeps
<1>2. \A a \in DOMAIN index : index[a] \in DOMAIN e /\ owner[index[a]] = a
      BY DEF RunsOnly, IndexSound
<1> QED BY <1>1, <1>2, Shrinks

\* A change of one field of the entry of a present agent.
LEMMA InboxOnly ==
    ASSUME RunsOnly, NEW a \in DOMAIN index, UNCHANGED <<owner, index>>,
           NEW STATE box, entries' = [entries EXCEPT ![index[a]].inbox = box]
    PROVE  RunsOnly'
<1>1. DOMAIN entries' = DOMAIN entries
      OBVIOUS
<1>2. \A s \in DOMAIN entries : IsEntry(entries[s])
      BY DEF RunsOnly, EntriesSound
<1>3. \A s \in DOMAIN entries :
          IsEntry(entries'[s]) /\ entries'[s].status = entries[s].status
                               /\ entries'[s].parent = entries[s].parent
      BY <1>2 DEF IsEntry
<1> QED BY <1>1, <1>3, Shrinks DEF RunsOnly, IndexSound

-----------------------------------------------------------------------------
OwnersStay == DOMAIN owner \subseteq DOMAIN owner' /\ \A s \in DOMAIN owner : owner'[s] = owner[s]

\* One call goes on, and what the others know of their runs stays true.
LEMMA Advance ==
    ASSUME CallsSound, OwnersStay, NEW c \in Calls,
           DOMAIN call' = DOMAIN call, \A d \in Calls \ {c} : call'[d] = call[d],
           CallSound(call[c])'
    PROVE  CallsSound'
<1>1. \A d \in Calls \ {c} : CallSound(call[d])'
  <2> SUFFICES ASSUME NEW d \in Calls \ {c} PROVE CallSound(call[d])'
      OBVIOUS
  <2>1. CallSound(call[d]) /\ call'[d] = call[d]
      BY DEF CallsSound
  <2> QED BY <2>1 DEF CallSound, IsCall, OwnersStay
<1> QED BY <1>1 DEF CallsSound

LEMMA CallsUnchanged == ASSUME CallsSound, UNCHANGED call, OwnersStay PROVE CallsSound'
<1>1. \A c \in Calls : CallSound(call[c])'
  <2> SUFFICES ASSUME NEW c \in Calls PROVE CallSound(call[c])'
      OBVIOUS
  <2>1. CallSound(call[c]) /\ call'[c] = call[c]
      BY DEF CallsSound
  <2> QED BY <2>1 DEF CallSound, IsCall, OwnersStay
<1> QED BY <1>1 DEF CallsSound

\* A call reaches a stage, and nothing else of it that matters here changes.
LEMMA Reaches ==
    ASSUME CallsSound, UNCHANGED owner, NEW c \in Calls, NEW STATE stage,
           call' = [call EXCEPT ![c].stage = stage],
           stage \in {"drain", "resume", "found"} => call[c].agent # Root,
           stage # "spawned",
           stage = "submit" => call[c].run \in DOMAIN owner /\ owner[call[c].run] = call[c].agent
    PROVE  CallsSound'
<1>1. CallSound(call[c]) /\ call'[c] = [call[c] EXCEPT !.stage = stage]
      BY DEF CallsSound
<1>2. CallSound(call[c])'
      BY <1>1 DEF CallSound, IsCall
<1> QED BY <1>2, Advance DEF CallsSound, OwnersStay

LEMMA InitSound == Init => Registry
<1> SUFFICES ASSUME Init PROVE Registry
    OBVIOUS
<1>1. RunsNumbered /\ EntriesSound /\ IndexSound
      BY DEF Init, RunsNumbered, EntriesSound, IndexSound, Root
<1>2. CallsSound /\ WatchedSound
      BY DEF Init, CallsSound, CallSound, IsCall, Waiting, WatchedSound
<1>3. LiveIndexed /\ OneLiveRun
      BY DEF Init, LiveIndexed, OneLiveRun, Occupied
<1> QED BY <1>1, <1>2, <1>3 DEF Registry

\* The root comes back as its first run, the only one it ever has.
LEMMA RegisterRootKeeps == Registry /\ RegisterRoot => RunsOnly'
<1> SUFFICES ASSUME Registry, RegisterRoot PROVE RunsOnly'
    OBVIOUS
<1>1. /\ entries' = [s \in DOMAIN entries \cup {Root} |->
                       IF s = Root THEN NewEntry(NoAgent, 0, {}, "Running") ELSE entries[s]]
      /\ index' = [a \in DOMAIN index \cup {Root} |-> IF a = Root THEN Root ELSE index[a]]
      /\ owner' = owner /\ Root \notin DOMAIN index
      BY DEF RegisterRoot, Present
<1>2. Root \in DOMAIN owner /\ owner[Root] = Root
      BY DEF Registry, RunsNumbered, Root
<1>3. IsEntry(NewEntry(NoAgent, 0, {}, "Running")) /\ NewEntry(NoAgent, 0, {}, "Running").parent = NoAgent
      BY DEF IsEntry, NewEntry
<1>4. RunsNumbered'
      BY <1>1 DEF Registry, RunsNumbered
<1>5. EntriesSound'
      BY <1>1, <1>2, <1>3 DEF Registry, EntriesSound, IsEntry
<1>6. IndexSound'
      BY <1>1, <1>2 DEF Registry, IndexSound
<1>7. Occupied' \subseteq Occupied \cup {Root}
      BY <1>1 DEF Occupied
<1>8. \A s \in Occupied : owner[s] = Root => s = Root
      BY DEF Registry, RunsNumbered, EntriesSound, Occupied
<1>9. LiveIndexed'
      BY <1>1, <1>2, <1>7, <1>8 DEF Registry, LiveIndexed
<1>10. OneLiveRun'
      BY <1>1, <1>2, <1>7, <1>8 DEF Registry, OneLiveRun
<1> QED BY <1>4, <1>5, <1>6, <1>9, <1>10 DEF RunsOnly

\* A new run is the first of a new agent.
LEMMA SpawnKeeps ==
    ASSUME Registry, NEW c \in Calls, NEW p \in SubIds, Spawn(c, p)
    PROVE  RunsOnly' /\ OwnersStay /\ CallsSound'
<1> DEFINE n == Len(owner) + 1
           e == [t \in DOMAIN entries \cup {n} |->
                  IF t = n THEN NewEntry(p, Current(p).depth + 1, {}, "Pending")
                  ELSE IF t = index[p] THEN [entries[t] EXCEPT !.kids = @ \cup {n}]
                  ELSE entries[t]]
           i == [a \in DOMAIN index \cup {n} |-> IF a = n THEN n ELSE index[a]]
<1>1. owner \in Seq(Nat) /\ n \in Nat /\ n > 1 /\ n \notin DOMAIN owner /\ DOMAIN owner = 1..Len(owner)
      BY DEF Registry, RunsNumbered
<1>2. owner' = Append(owner, n) /\ PruneTo(e, i, {})
      BY DEF Spawn
<1>3. /\ owner' \in Seq(Nat) /\ Len(owner') = n /\ DOMAIN owner' = DOMAIN owner \cup {n}
      /\ owner'[n] = n /\ \A s \in DOMAIN owner : owner'[s] = owner[s]
      BY <1>1, <1>2
<1>4. \A s \in DOMAIN owner : owner[s] # n
      BY <1>1 DEF Registry, RunsNumbered
<1>5. OwnersStay
      BY <1>3 DEF OwnersStay
<1>6. RunsNumbered'
      BY <1>1, <1>3 DEF Registry, RunsNumbered, Root
<1>7. \A s \in DOMAIN entries : IsEntry(entries[s]) /\ s # n
      BY <1>1 DEF Registry, EntriesSound
<1>8. /\ DOMAIN e = DOMAIN entries \cup {n}
      /\ IsEntry(e[n]) /\ e[n].status = "Pending" /\ e[n].seq = Unfinished
      /\ \A s \in DOMAIN entries : /\ IsEntry(e[s])
                                   /\ e[s].status = entries[s].status
                                   /\ e[s].parent = entries[s].parent
  <2>1. DOMAIN e = DOMAIN entries \cup {n} /\ e[n] = NewEntry(p, Current(p).depth + 1, {}, "Pending")
        OBVIOUS
  <2>2. IsEntry(e[n]) /\ e[n].status = "Pending" /\ e[n].seq = Unfinished
        BY <2>1 DEF IsEntry, NewEntry
  <2>3. ASSUME NEW s \in DOMAIN entries
        PROVE  IsEntry(e[s]) /\ e[s].status = entries[s].status /\ e[s].parent = entries[s].parent
    <3>1. e[s] = entries[s] \/ e[s] = [entries[s] EXCEPT !.kids = @ \cup {n}]
          BY <1>7
    <3>2. IsEntry(entries[s])
          BY <1>7
    <3> HIDE DEF e
    <3> QED BY <3>1, <3>2 DEF IsEntry
  <2> QED BY <2>1, <2>2, <2>3
<1>9. /\ DOMAIN i = DOMAIN index \cup {n} /\ i[n] = n
      /\ \A a \in DOMAIN index : i[a] = index[a] /\ i[a] \in DOMAIN e /\ a # n
      BY <1>4, <1>8 DEF Registry, IndexSound, EntriesSound
<1> HIDE DEF e, i
<1>10. /\ DOMAIN entries' \subseteq DOMAIN e
       /\ \A s \in DOMAIN entries' : /\ IsEntry(entries'[s])
                                     /\ entries'[s].status = e[s].status
                                     /\ entries'[s].parent = e[s].parent
       /\ DOMAIN index' \subseteq DOMAIN i
       /\ \A a \in DOMAIN index' :
             /\ index'[a] = i[a]
             /\ i[a] \in DOMAIN e /\ (owner[i[a]] = a \/ e[i[a]].seq = Unfinished)
                   => index'[a] \in DOMAIN entries'
      BY <1>2, <1>8, PruneKeeps
<1>11. EntriesSound'
      BY <1>1, <1>3, <1>8, <1>10 DEF Registry, EntriesSound, Root
<1>12. IndexSound'
      BY <1>3, <1>8, <1>9, <1>10 DEF Registry, IndexSound, EntriesSound
<1>13. Occupied' \subseteq Occupied \cup {n}
      BY <1>8, <1>10 DEF Occupied
<1>14. Occupied \subseteq DOMAIN owner
      BY DEF Registry, EntriesSound, Occupied
<1>15. LiveIndexed'
      BY <1>3, <1>4, <1>9, <1>10, <1>13, <1>14 DEF Registry, LiveIndexed
<1>16. OneLiveRun'
      BY <1>3, <1>4, <1>13, <1>14 DEF Registry, OneLiveRun
<1>17. CallsSound'
  <2>1. call' = [call EXCEPT ![c].stage = "spawned", ![c].by = p, ![c].agent = n, ![c].run = n]
        BY DEF Spawn, Start
  <2>2. IsCall(call[c]) /\ call[c].then \in {"queue", "done"} /\ DOMAIN call = Calls
        BY DEF Registry, CallsSound, CallSound
  <2>3. /\ DOMAIN call' = DOMAIN call /\ \A d \in Calls \ {c} : call'[d] = call[d]
        /\ call'[c] = [call[c] EXCEPT !.stage = "spawned", !.by = p, !.agent = n, !.run = n]
        BY <2>1, <2>2
  <2>4. /\ IsCall(call'[c]) /\ call'[c].stage = "spawned" /\ call'[c].agent = n /\ call'[c].run = n
        /\ call'[c].then = call[c].then
        BY <2>2, <2>3 DEF IsCall
  <2>5. CallSound(call[c])'
        BY <1>1, <1>3, <2>2, <2>4 DEF CallSound, IsCall, Root
  <2>6. CallsSound
        BY DEF Registry
  <2> QED BY <1>5, <2>3, <2>5, <2>6, Advance
<1> QED BY <1>5, <1>6, <1>11, <1>12, <1>15, <1>16, <1>17 DEF RunsOnly

\* A launch makes the run that the index names live; if another run of the agent
\* were live, the index would name that one.
LEMMA MarkRunningKeeps ==
    ASSUME Registry, NEW c \in Calls, MarkRunning(c)
    PROVE  RunsOnly' /\ CallsSound'
<1> DEFINE a == call[c].agent
<1>1. /\ call[c].stage = "spawned" /\ owner' = owner /\ index' = index
      /\ CallSound(call[c]) /\ CallsSound /\ RunsOnly
      BY DEF MarkRunning, Registry, CallsSound, RunsOnly
<1>2. CASE Present(a)
  <2>1. /\ entries' = [entries EXCEPT ![index[a]].status = "Running"]
        /\ call' = [call EXCEPT ![c].stage = "submit"]
        BY <1>2 DEF MarkRunning, Step
  <2>2. CallsSound'
        BY <1>1, <2>1, Reaches DEF CallSound
  <2>3. a \in DOMAIN index /\ index[a] \in DOMAIN entries /\ owner[index[a]] = a
        BY <1>1, <1>2 DEF Present, RunsOnly, IndexSound
  <2>4. \A s \in DOMAIN entries : IsEntry(entries[s])
        BY <1>1 DEF RunsOnly, EntriesSound
  <2>5. /\ DOMAIN entries' = DOMAIN entries
        /\ \A s \in DOMAIN entries : /\ IsEntry(entries'[s])
                                     /\ entries'[s].parent = entries[s].parent
                                     /\ s # index[a] => entries'[s].status = entries[s].status
        BY <2>1, <2>4 DEF IsEntry
  <2>6. Occupied' \subseteq Occupied \cup {index[a]}
        BY <2>5 DEF Occupied
  <2>7. RunsNumbered' /\ EntriesSound' /\ IndexSound'
        BY <1>1, <2>5 DEF RunsOnly, RunsNumbered, EntriesSound, IndexSound
  <2>8. LiveIndexed' /\ OneLiveRun'
        BY <1>1, <2>3, <2>6 DEF RunsOnly, LiveIndexed, OneLiveRun
  <2> QED BY <2>2, <2>7, <2>8 DEF RunsOnly
<1>3. CASE ~Present(a)
  <2>1. entries' = entries /\ call' = [call EXCEPT ![c].stage = "done"]
        BY <1>3 DEF MarkRunning, Over, Step
  <2>2. CallsSound'
        BY <1>1, <2>1, Reaches
  <2> QED BY <1>1, <2>1, <2>2, Unchanged
<1> QED BY <1>2, <1>3

\* A resume replaces a run that is not live, and so the agent had none.
LEMMA ResumeKeeps ==
    ASSUME Registry, NEW c \in Calls, Resume(c)
    PROVE  RunsOnly' /\ OwnersStay /\ CallsSound'
<1> DEFINE a == call[c].agent
           n == Len(owner) + 1
<1>1. /\ call[c].stage = "resume" /\ Present(a) /\ Current(a).status \notin Occupying
      /\ CallSound(call[c]) /\ CallsSound
      BY DEF Resume, Resumable, Registry, CallsSound
<1>2. /\ owner' = Append(owner, a)
      /\ index' = [index EXCEPT ![a] = n]
      /\ call' = [call EXCEPT ![c].stage = "submit", ![c].run = n]
      BY DEF Resume
<1>3. PICK holder, old : entries' = [t \in DOMAIN entries \cup {n} |->
                     IF t = n THEN Successor(a)
                     ELSE IF t = holder
                     THEN [entries[t] EXCEPT !.kids = (@ \ {old}) \cup {n}]
                     ELSE entries[t]]
      BY DEF Resume
<1>4. owner \in Seq(Nat) /\ n \in Nat /\ n > 1 /\ n \notin DOMAIN owner /\ DOMAIN owner = 1..Len(owner)
      BY DEF Registry, RunsNumbered
<1>5. /\ a \in DOMAIN index /\ index[a] \in DOMAIN entries /\ index[a] \in DOMAIN owner
      /\ owner[index[a]] = a
      BY <1>1 DEF Present, Registry, IndexSound, EntriesSound
<1>6. a \in 1..Len(owner) /\ a # Root
      BY <1>1, <1>4, <1>5 DEF CallSound, Registry, RunsNumbered
<1>7. /\ owner' \in Seq(Nat) /\ Len(owner') = n /\ DOMAIN owner' = DOMAIN owner \cup {n}
      /\ owner'[n] = a /\ \A s \in DOMAIN owner : owner'[s] = owner[s]
      BY <1>2, <1>4, <1>6
<1>8. OwnersStay
      BY <1>7 DEF OwnersStay
<1>9. RunsNumbered'
      BY <1>4, <1>6, <1>7 DEF Registry, RunsNumbered, Root
<1>10. \A s \in DOMAIN entries : IsEntry(entries[s]) /\ s # n
      BY <1>4 DEF Registry, EntriesSound
<1>11. IsEntry(Successor(a))
      BY DEF IsEntry, Successor, NewEntry
<1>12. /\ DOMAIN entries' = DOMAIN entries \cup {n} /\ IsEntry(entries'[n])
       /\ \A s \in DOMAIN entries :
             \/ entries'[s] = entries[s]
             \/ entries'[s] = [entries[s] EXCEPT !.kids = (@ \ {old}) \cup {n}]
      BY <1>3, <1>10, <1>11
<1>13. \A s \in DOMAIN entries : /\ IsEntry(entries'[s])
                                 /\ entries'[s].status = entries[s].status
                                 /\ entries'[s].parent = entries[s].parent
      BY <1>10, <1>12 DEF IsEntry
<1>14. EntriesSound'
      BY <1>4, <1>7, <1>12, <1>13 DEF Registry, EntriesSound, Root
<1>15. IndexSound'
      BY <1>2, <1>5, <1>7, <1>12 DEF Registry, IndexSound, EntriesSound
<1>16. Occupied' \subseteq Occupied \cup {n} /\ Occupied \subseteq DOMAIN owner
      BY <1>12, <1>13 DEF Occupied, Registry, EntriesSound
<1>17. index[a] \notin Occupied
      BY <1>1 DEF Current, Occupied
<1>18. \A s \in Occupied : owner[s] # a
      BY <1>5, <1>17 DEF Registry, LiveIndexed
<1>19. LiveIndexed'
      BY <1>2, <1>5, <1>7, <1>16, <1>18 DEF Registry, LiveIndexed
<1>20. OneLiveRun'
      BY <1>7, <1>16, <1>18 DEF Registry, OneLiveRun
<1>21. CallsSound'
  <2>1. IsCall(call[c]) /\ call[c].then \in {"queue", "done"} /\ DOMAIN call = Calls
        BY <1>1 DEF CallsSound, CallSound
  <2>2. /\ DOMAIN call' = DOMAIN call /\ \A d \in Calls \ {c} : call'[d] = call[d]
        /\ call'[c] = [call[c] EXCEPT !.stage = "submit", !.run = n]
        BY <1>2, <2>1
  <2>3. /\ IsCall(call'[c]) /\ call'[c].stage = "submit" /\ call'[c].agent = a /\ call'[c].run = n
        /\ call'[c].then = call[c].then
        BY <2>1, <2>2 DEF IsCall
  <2>4. CallSound(call[c])'
        BY <1>7, <2>1, <2>3 DEF CallSound, IsCall
  <2> QED BY <1>1, <1>8, <2>2, <2>4, Advance
<1> QED BY <1>8, <1>9, <1>14, <1>15, <1>19, <1>20, <1>21 DEF RunsOnly

-----------------------------------------------------------------------------
\* A close makes runs end, and a completed turn makes one end.
LEMMA TerminateKeeps ==
    ASSUME RunsOnly, UNCHANGED owner, NEW a, Terminate(a)
    PROVE  RunsOnly'
<1>1. PICK order \in {Below(entries, index[a])} :
         PruneTo([s \in DOMAIN entries |->
                  IF s \in Range(order)
                  THEN [entries[s] EXCEPT !.status = "Terminated", !.inbox = <<>>,
                           !.seq = nextSeq + (CHOOSE k \in DOMAIN order : order[k] = s) - 1]
                  ELSE entries[s]],
               index, UNION {Range(entries[s].inbox) : s \in Range(order)})
      BY DEF Terminate
<1> DEFINE e == [s \in DOMAIN entries |->
                  IF s \in Range(order)
                  THEN [entries[s] EXCEPT !.status = "Terminated", !.inbox = <<>>,
                           !.seq = nextSeq + (CHOOSE k \in DOMAIN order : order[k] = s) - 1]
                  ELSE entries[s]]
<1>2. DOMAIN e = DOMAIN entries
      OBVIOUS
<1>3. ASSUME NEW s \in DOMAIN entries
      PROVE  /\ IsEntry(e[s])
             /\ e[s].status \in Occupying => entries[s].status \in Occupying
             /\ e[s].parent = entries[s].parent
  <2>1. PICK q : \/ e[s] = entries[s]
                 \/ e[s] = [entries[s] EXCEPT !.status = "Terminated", !.inbox = <<>>, !.seq = q]
        OBVIOUS
  <2>2. IsEntry(entries[s])
        BY DEF RunsOnly, EntriesSound
  <2> HIDE DEF e
  <2> QED BY <2>1, <2>2 DEF IsEntry, Occupying
<1>4. PruneTo(e, index, UNION {Range(entries[s].inbox) : s \in Range(order)})
      BY <1>1
<1> HIDE DEF e
<1> QED BY <1>2, <1>3, <1>4, PruneShrinks

LEMMA CompleteTurnKeeps ==
    ASSUME RunsOnly, NEW s \in SubIds, CompleteTurn(s)
    PROVE  RunsOnly'
<1> DEFINE a == owner[s]
<1>1. CASE Present(a)
  <2> DEFINE e == [entries EXCEPT ![index[a]].status = "Idle", ![index[a]].seq = nextSeq]
  <2>1. PruneTo(e, index, {}) /\ owner' = owner
        BY <1>1 DEF CompleteTurn
  <2>2. DOMAIN e = DOMAIN entries
        OBVIOUS
  <2>3. ASSUME NEW t \in DOMAIN entries
        PROVE  /\ IsEntry(e[t])
               /\ e[t].status \in Occupying => entries[t].status \in Occupying
               /\ e[t].parent = entries[t].parent
    <3>1. \/ e[t] = entries[t]
          \/ e[t] = [entries[t] EXCEPT !.status = "Idle", !.seq = nextSeq]
          OBVIOUS
    <3>2. IsEntry(entries[t])
          BY DEF RunsOnly, EntriesSound
    <3> HIDE DEF e
    <3> QED BY <3>1, <3>2 DEF IsEntry, Occupying
  <2> HIDE DEF e
  <2> QED BY <2>1, <2>2, <2>3, PruneShrinks
<1>2. CASE ~Present(a)
      BY <1>2, Unchanged DEF CompleteTurn
<1> QED BY <1>1, <1>2

\* The steps of a message leave the runs alone, but for the resume.
LEMMA SendsKeep ==
    ASSUME Registry, NEW c \in Calls, Sends(c)
    PROVE  RunsOnly' /\ CallsSound'
<1>1. /\ RunsOnly /\ CallsSound /\ CallSound(call[c]) /\ DOMAIN call = Calls
      /\ IsCall(call[c]) /\ call[c].then \in {"queue", "done"}
      BY DEF Registry, RunsOnly, CallsSound, CallSound
<1>2. CASE SendReads(c)
  <2>1. UNCHANGED <<owner, entries, index>> /\ call[c].stage = "found"
        BY <1>2 DEF SendReads
  <2>2. PICK stage \in {"done", "drain", "queue"} : call' = [call EXCEPT ![c].stage = stage]
        BY <1>2 DEF SendReads, Step
  <2>3. CallsSound'
        BY <1>1, <2>1, <2>2, Reaches DEF CallSound
  <2> QED BY <1>1, <2>1, <2>3, Unchanged
<1>3. CASE SendDrains(c)
  <2>1. UNCHANGED <<owner, index>> /\ call[c].stage = "drain" /\ call[c].agent # Root
        BY <1>1, <1>3 DEF SendDrains, CallSound
  <2>2. CASE Present(call[c].agent)
    <3>1. /\ entries' = [entries EXCEPT ![index[call[c].agent]].inbox = <<>>]
          /\ call' = [call EXCEPT ![c].stage = "resume", ![c].taken = Current(call[c].agent).inbox]
          BY <1>3, <2>2 DEF SendDrains
    <3>2. RunsOnly'
          BY <1>1, <2>1, <2>2, <3>1, InboxOnly DEF Present
    <3>3. /\ IsCall(call'[c]) /\ call'[c].stage = "resume" /\ call'[c].agent = call[c].agent
          /\ call'[c].then = call[c].then
          BY <1>1, <3>1 DEF IsCall
    <3>4. CallSound(call[c])'
          BY <1>1, <2>1, <3>3 DEF CallSound, IsCall
    <3> QED BY <1>1, <2>1, <3>1, <3>2, <3>4, Advance DEF OwnersStay
  <2>3. CASE ~Present(call[c].agent)
    <3>1. entries' = entries /\ call' = [call EXCEPT ![c].stage = "resume"]
          BY <1>3, <2>3 DEF SendDrains, Step
    <3>2. CallsSound'
          BY <1>1, <2>1, <3>1, Reaches
    <3> QED BY <1>1, <2>1, <3>1, <3>2, Unchanged
  <2> QED BY <2>2, <2>3
<1>4. CASE Resume(c)
      BY <1>4, ResumeKeeps
<1>5. CASE ResumeRefused(c) \/ SendNotSubmitted(c)
  <2>1. UNCHANGED <<owner, entries, index>>
        BY <1>5 DEF ResumeRefused, SendNotSubmitted
  <2>2. PICK then \in {"queue", "done"} : call' = [call EXCEPT ![c].stage = "restore", ![c].then = then]
        BY <1>5 DEF ResumeRefused, SendNotSubmitted
  <2>3. IsCall(call'[c]) /\ call'[c].stage = "restore" /\ call'[c].then = then
        BY <1>1, <2>2 DEF IsCall
  <2>4. CallSound(call[c])'
        BY <2>3 DEF CallSound, IsCall
  <2>5. CallsSound'
        BY <1>1, <2>1, <2>2, <2>4, Advance DEF OwnersStay
  <2> QED BY <1>1, <2>1, <2>5, Unchanged
<1>6. CASE SendSubmits(c)
  <2>1. UNCHANGED <<owner, entries, index>> /\ call' = [call EXCEPT ![c].stage = "done", ![c].taken = <<>>]
        BY <1>6 DEF SendSubmits
  <2>2. IsCall(call'[c]) /\ call'[c].stage = "done" /\ call'[c].then = call[c].then
        BY <1>1, <2>1 DEF IsCall
  <2>3. CallSound(call[c])'
        BY <1>1, <2>2 DEF CallSound, IsCall
  <2>4. CallsSound'
        BY <1>1, <2>1, <2>3, Advance DEF OwnersStay
  <2> QED BY <1>1, <2>1, <2>4, Unchanged
<1>7. CASE RestoreOne(c)
  <2>1. UNCHANGED <<owner, index>> /\ call[c].stage = "restore"
        BY <1>7 DEF RestoreOne
  <2>2. CASE call[c].taken # <<>> /\ Accepts(call[c].agent)
    <3>1. /\ entries' = [entries EXCEPT ![index[call[c].agent]].inbox
                             = Append(@, Head(call[c].taken))]
          /\ call' = [call EXCEPT ![c].taken = Tail(@)]
          BY <1>7, <2>2 DEF RestoreOne, Push
    <3>2. RunsOnly'
          BY <1>1, <2>1, <2>2, <3>1, InboxOnly DEF Accepts, Present
    <3>3. IsCall(call'[c]) /\ call'[c].stage = "restore" /\ call'[c].then = call[c].then
          BY <1>1, <2>1, <3>1 DEF IsCall
    <3>4. CallSound(call[c])'
          BY <1>1, <3>3 DEF CallSound, IsCall
    <3> QED BY <1>1, <2>1, <3>1, <3>2, <3>4, Advance DEF OwnersStay
  <2>3. CASE ~(call[c].taken # <<>> /\ Accepts(call[c].agent))
    <3>1. entries' = entries /\ call' = [call EXCEPT ![c].stage = call[c].then, ![c].taken = <<>>]
          BY <1>7, <2>3 DEF RestoreOne
    <3>2. IsCall(call'[c]) /\ call'[c].stage = call[c].then /\ call'[c].then = call[c].then
          BY <1>1, <3>1 DEF IsCall
    <3>3. CallSound(call[c])'
          BY <1>1, <3>2 DEF CallSound, IsCall
    <3>4. CallsSound'
          BY <1>1, <2>1, <3>1, <3>3, Advance DEF OwnersStay
    <3> QED BY <1>1, <2>1, <3>1, <3>4, Unchanged
  <2> QED BY <2>2, <2>3
<1>8. CASE SendQueues(c)
  <2>1. UNCHANGED <<owner, index>> /\ call' = [call EXCEPT ![c].stage = "done"]
        BY <1>8 DEF SendQueues, Over, Step
  <2>2. CallsSound'
        BY <1>1, <2>1, Reaches
  <2>3. CASE Accepts(call[c].agent)
    <3>1. entries' = [entries EXCEPT ![index[call[c].agent]].inbox = Append(@, c)]
          BY <1>8, <2>3 DEF SendQueues, Push
    <3> QED BY <1>1, <2>1, <2>2, <2>3, <3>1, InboxOnly DEF Accepts, Present
  <2>4. CASE ~Accepts(call[c].agent)
        BY <1>1, <1>8, <2>1, <2>2, <2>4, Unchanged DEF SendQueues
  <2> QED BY <2>3, <2>4
<1> QED BY <1>2, <1>3, <1>4, <1>5, <1>6, <1>7, <1>8 DEF Sends

\* A tool call begins with a child of its caller, which the root is not.
LEMMA BeginsKeep ==
    ASSUME Registry, NEW c \in Calls, Begins(c)
    PROVE  RunsOnly' /\ CallsSound'
<1>1. /\ RunsOnly /\ CallsSound /\ DOMAIN call = Calls
      /\ IsCall(call[c]) /\ call[c].then \in {"queue", "done"}
      BY DEF Registry, RunsOnly, CallsSound, CallSound
<1>2. PICK p \in SubIds : \/ Spawn(c, p) \/ SpawnRefused(c, p)
                          \/ \E a \in SubIds : SendFinds(c, p, a) \/ CloseFinds(c, p, a)
      BY DEF Begins
<1>3. CASE Spawn(c, p)
      BY <1>3, SpawnKeeps
<1>4. CASE SpawnRefused(c, p) \/ \E a \in SubIds : CloseFinds(c, p, a)
  <2>1. UNCHANGED <<owner, entries, index>>
        BY <1>4 DEF SpawnRefused, CloseFinds
  <2>2. PICK stage \in {"closing", "done"} : \E a, s :
           call' = [call EXCEPT ![c].stage = stage, ![c].by = p, ![c].agent = a, ![c].run = s]
        BY <1>4 DEF SpawnRefused, CloseFinds, Start
  <2>3. PICK a, s :
           call' = [call EXCEPT ![c].stage = stage, ![c].by = p, ![c].agent = a, ![c].run = s]
        BY <2>2
  <2>4. IsCall(call'[c]) /\ call'[c].stage = stage /\ call'[c].then = call[c].then
        BY <1>1, <2>3 DEF IsCall
  <2>5. CallSound(call[c])'
        BY <1>1, <2>4 DEF CallSound, IsCall
  <2>6. CallsSound'
        BY <1>1, <2>1, <2>3, <2>5, Advance DEF OwnersStay
  <2> QED BY <1>1, <2>1, <2>6, Unchanged
<1>5. ASSUME NEW a \in SubIds, SendFinds(c, p, a) PROVE RunsOnly' /\ CallsSound'
  <2>1. UNCHANGED <<owner, entries, index>> /\ a \in DOMAIN index /\ entries[index[a]].parent = p
        BY <1>5 DEF SendFinds, Current
  <2>2. a # Root
        BY <1>1, <2>1 DEF RunsOnly, EntriesSound, IndexSound, RunsNumbered, Root, NoAgent, SubIds
  <2>3. call' = [call EXCEPT ![c].stage = "found", ![c].by = p, ![c].agent = a,
                             ![c].idle = Current(a).status \notin Occupying]
        BY <1>5 DEF SendFinds
  <2>4. IsCall(call'[c]) /\ call'[c].stage = "found" /\ call'[c].agent = a /\ call'[c].then = call[c].then
        BY <1>1, <2>3 DEF IsCall
  <2>5. CallSound(call[c])'
        BY <1>1, <2>2, <2>4 DEF CallSound, IsCall
  <2>6. CallsSound'
        BY <1>1, <2>1, <2>3, <2>5, Advance DEF OwnersStay
  <2> QED BY <1>1, <2>1, <2>6, Unchanged
<1> QED BY <1>2, <1>3, <1>4, <1>5

LEMMA ContinuesKeep ==
    ASSUME Registry, NEW c \in Calls, Continues(c)
    PROVE  RunsOnly' /\ CallsSound' /\ WatchedSound' /\ OwnersStay
<1>1. RunsOnly /\ CallsSound /\ CallSound(call[c]) /\ WatchedSound
      BY DEF Registry, RunsOnly, CallsSound
<1>2. CASE MarkRunning(c)
      BY <1>1, <1>2, MarkRunningKeeps DEF MarkRunning, WatchedSound, OwnersStay
<1>3. CASE LaunchSubmits(c) \/ LaunchFails(c)
  <2>1. /\ UNCHANGED <<owner, entries, index>> /\ call[c].stage = "submit"
        /\ call' = [call EXCEPT ![c].stage = "done"]
        BY <1>3 DEF LaunchSubmits, LaunchFails, Over, Step
  <2>2. CallsSound'
        BY <1>1, <2>1, Reaches
  <2>3. WatchedSound'
        BY <1>1, <1>3, <2>1 DEF LaunchSubmits, LaunchFails, WatchedSound, CallSound
  <2> QED BY <1>1, <2>1, <2>2, <2>3, Unchanged DEF OwnersStay
<1>4. CASE Sends(c)
  <2>1. OwnersStay /\ watched' = watched
        BY <1>4, ResumeKeeps DEF Sends, SendReads, SendDrains, Resume, ResumeRefused, SendSubmits,
              SendNotSubmitted, RestoreOne, SendQueues, OwnersStay
  <2> QED BY <1>1, <1>4, <2>1, SendsKeep DEF WatchedSound, OwnersStay
<1>5. CASE CloseTerminates(c)
  <2>1. /\ UNCHANGED <<owner, watched>>
        /\ call' = [call EXCEPT ![c].stage = "done"]
        BY <1>5 DEF CloseTerminates, Over, Step
  <2>2. CallsSound'
        BY <1>1, <2>1, Reaches
  <2>3. RunsOnly'
        BY <1>1, <1>5, <2>1, TerminateKeeps, Unchanged DEF CloseTerminates
  <2> QED BY <1>1, <2>1, <2>2, <2>3 DEF WatchedSound, OwnersStay
<1>6. CASE CloseFails(c)
  <2>1. /\ UNCHANGED <<owner, entries, index, watched>>
        /\ call' = [call EXCEPT ![c].stage = "done", ![c].agent = NoAgent]
        BY <1>6 DEF CloseFails
  <2>2. IsCall(call[c]) /\ call[c].then \in {"queue", "done"} /\ DOMAIN call = Calls
        BY <1>1 DEF CallsSound, CallSound
  <2>3. IsCall(call'[c]) /\ call'[c].stage = "done" /\ call'[c].then = call[c].then
        BY <2>1, <2>2 DEF IsCall, NoAgent
  <2>4. CallSound(call[c])'
        BY <2>2, <2>3 DEF CallSound, IsCall
  <2>5. CallsSound'
        BY <1>1, <2>1, <2>2, <2>4, Advance DEF OwnersStay
  <2> QED BY <1>1, <2>1, <2>5, Unchanged DEF WatchedSound, OwnersStay
<1> QED BY <1>2, <1>3, <1>4, <1>5, <1>6 DEF Continues, Launches

LEMMA NextKeeps == Registry /\ [Next]_vars => Registry'
<1> SUFFICES ASSUME Registry, [Next]_vars PROVE Registry'
    OBVIOUS
<1>1. RunsOnly /\ CallsSound /\ WatchedSound
      BY DEF Registry, RunsOnly
<1>2. CASE RegisterRoot
      BY <1>1, <1>2, RegisterRootKeeps, CallsUnchanged
         DEF RegisterRoot, OwnersStay, WatchedSound, RunsOnly, Registry
<1>3. ASSUME NEW c \in Calls, Begins(c) PROVE Registry'
  <2>1. watched' = watched /\ OwnersStay
        BY <1>3, SpawnKeeps DEF Begins, Spawn, SpawnRefused, SendFinds, CloseFinds, OwnersStay
  <2> QED BY <1>1, <1>3, <2>1, BeginsKeep DEF WatchedSound, OwnersStay, RunsOnly, Registry
<1>4. ASSUME NEW c \in Calls, Continues(c) PROVE Registry'
      BY <1>4, ContinuesKeep DEF RunsOnly, Registry
<1>5. ASSUME NEW c \in Calls, NEW a \in SubIds, UserCloses(c, a) PROVE Registry'
  <2>1. /\ UNCHANGED <<owner, watched>> /\ Terminate(a)
        /\ call' = [call EXCEPT ![c].stage = "done", ![c].by = NoAgent, ![c].agent = a,
                                ![c].run = NoAgent]
        BY <1>5 DEF UserCloses, Start
  <2>2. IsCall(call[c]) /\ call[c].then \in {"queue", "done"} /\ DOMAIN call = Calls
        BY <1>1 DEF CallsSound, CallSound
  <2>3. IsCall(call'[c]) /\ call'[c].stage = "done" /\ call'[c].then = call[c].then
        BY <2>1, <2>2 DEF IsCall
  <2>4. CallSound(call[c])'
        BY <2>2, <2>3 DEF CallSound, IsCall
  <2>5. CallsSound'
        BY <1>1, <2>1, <2>2, <2>4, Advance DEF OwnersStay
  <2> QED BY <1>1, <2>1, <2>5, TerminateKeeps DEF WatchedSound, RunsOnly, Registry
<1>6. ASSUME NEW s \in SubIds, TurnEnds(s) \/ Watches(s) PROVE Registry'
  <2>1. UNCHANGED <<owner, call>> /\ watched' \subseteq watched
        BY <1>6 DEF TurnEnds, Watches, CompleteTurn, WatcherFails
  <2>2. CallsSound' /\ WatchedSound'
        BY <1>1, <2>1, CallsUnchanged DEF OwnersStay, WatchedSound
  <2>3. RunsOnly'
        BY <1>1, <1>6, Unchanged, CompleteTurnKeeps DEF TurnEnds, Watches, WatcherFails
  <2> QED BY <2>2, <2>3 DEF RunsOnly, Registry
<1>7. CASE UNCHANGED vars
      BY <1>1, <1>7, Unchanged, CallsUnchanged DEF vars, OwnersStay, WatchedSound, RunsOnly, Registry
<1> QED BY <1>2, <1>3, <1>4, <1>5, <1>6, <1>7 DEF Next

\* What the calls, the runs and the index know of each other agrees, however many
\* calls interleave (mod.rs, tree_ops.rs, child_send.rs).
THEOREM RegistrySound == Spec => []Registry
<1> QED BY InitSound, NextKeeps, PTL DEF Spec

\* No agent has two live runs, whatever sends, launches, closes and prunes come
\* between a look at its state and the resume that it decides (child_send.rs:53,
\* mod.rs:341).
THEOREM OneLiveRunHolds == Spec => []OneLiveRun
<1>1. Registry => OneLiveRun
      BY DEF Registry
<1> QED BY <1>1, RegistrySound, PTL

-----------------------------------------------------------------------------
\* Agent b, if it stays in the index, stays with its run, and closed.
Undisturbed(b) ==
    b \in DOMAIN index' =>
       /\ index'[b] = index[b]
       /\ entries[index[b]].status = "Terminated" => entries'[index[b]].status = "Terminated"

\* A prune disturbs nobody who was closed in what it was given.
LEMMA PruneUndisturbed ==
    ASSUME NEW STATE e, NEW STATE i, NEW STATE cleared, PruneTo(e, i, cleared),
           \A s \in DOMAIN e : IsEntry(e[s]),
           NEW b \in DOMAIN index, i[b] = index[b], index[b] \in DOMAIN e, owner[index[b]] = b,
           entries[index[b]].status = "Terminated" => e[index[b]].status = "Terminated"
    PROVE  Undisturbed(b)
BY PruneKeeps DEF Undisturbed

\* Distinct agents have distinct runs.
LEMMA RunsApart ==
    ASSUME RunsOnly, NEW a \in DOMAIN index, NEW b \in DOMAIN index, a # b
    PROVE  index[a] # index[b] /\ index[a] \in DOMAIN entries /\ IsEntry(entries[index[a]])
BY DEF RunsOnly, IndexSound, EntriesSound

LEMMA SpawnUndisturbed ==
    ASSUME Registry, NEW c \in Calls, NEW p \in SubIds, Spawn(c, p), NEW b \in DOMAIN index
    PROVE  Undisturbed(b) /\ b # Len(owner) + 1
<1> DEFINE n == Len(owner) + 1
           e == [t \in DOMAIN entries \cup {n} |->
                  IF t = n THEN NewEntry(p, Current(p).depth + 1, {}, "Pending")
                  ELSE IF t = index[p] THEN [entries[t] EXCEPT !.kids = @ \cup {n}]
                  ELSE entries[t]]
           i == [a \in DOMAIN index \cup {n} |-> IF a = n THEN n ELSE index[a]]
<1>1. PruneTo(e, i, {})
      BY DEF Spawn
<1>2. /\ n \in Nat /\ n \notin DOMAIN owner /\ index[b] \in DOMAIN entries
      /\ index[b] \in DOMAIN owner /\ b = owner[index[b]]
      BY DEF Registry, RunsNumbered, IndexSound, EntriesSound
<1>3. b # n /\ index[b] # n
      BY <1>2 DEF Registry, RunsNumbered
<1>4. \A s \in DOMAIN entries : IsEntry(entries[s])
      BY DEF Registry, EntriesSound
<1>5. e[n] = NewEntry(p, Current(p).depth + 1, {}, "Pending") /\ DOMAIN e = DOMAIN entries \cup {n}
      OBVIOUS
<1>6. \A s \in DOMAIN entries :
          s # n => e[s] = entries[s] \/ e[s] = [entries[s] EXCEPT !.kids = @ \cup {n}]
      OBVIOUS
<1>7. i[b] = index[b]
      BY <1>3
<1> HIDE DEF e, i
<1>8. IsEntry(e[n])
      BY <1>5 DEF IsEntry, NewEntry
<1>9. \A s \in DOMAIN entries : s # n => IsEntry(e[s]) /\ e[s].status = entries[s].status
      BY <1>4, <1>6 DEF IsEntry
<1>10. \A s \in DOMAIN e : IsEntry(e[s])
      BY <1>5, <1>8, <1>9
<1> QED BY <1>1, <1>2, <1>3, <1>5, <1>7, <1>9, <1>10, PruneUndisturbed

LEMMA TerminateUndisturbed ==
    ASSUME RunsOnly, NEW a, Terminate(a), NEW b \in DOMAIN index
    PROVE  Undisturbed(b)
<1>1. PICK order \in {Below(entries, index[a])} :
         PruneTo([s \in DOMAIN entries |->
                  IF s \in Range(order)
                  THEN [entries[s] EXCEPT !.status = "Terminated", !.inbox = <<>>,
                           !.seq = nextSeq + (CHOOSE k \in DOMAIN order : order[k] = s) - 1]
                  ELSE entries[s]],
               index, UNION {Range(entries[s].inbox) : s \in Range(order)})
      BY DEF Terminate
<1> DEFINE e == [s \in DOMAIN entries |->
                  IF s \in Range(order)
                  THEN [entries[s] EXCEPT !.status = "Terminated", !.inbox = <<>>,
                           !.seq = nextSeq + (CHOOSE k \in DOMAIN order : order[k] = s) - 1]
                  ELSE entries[s]]
<1>2. DOMAIN e = DOMAIN entries /\ index[b] \in DOMAIN entries /\ owner[index[b]] = b
      BY DEF RunsOnly, IndexSound
<1>3. ASSUME NEW s \in DOMAIN entries
      PROVE  /\ IsEntry(e[s])
             /\ entries[s].status = "Terminated" => e[s].status = "Terminated"
  <2>1. PICK q : \/ e[s] = entries[s]
                 \/ e[s] = [entries[s] EXCEPT !.status = "Terminated", !.inbox = <<>>, !.seq = q]
        OBVIOUS
  <2>2. IsEntry(entries[s])
        BY DEF RunsOnly, EntriesSound
  <2> HIDE DEF e
  <2> QED BY <2>1, <2>2 DEF IsEntry
<1>4. PruneTo(e, index, UNION {Range(entries[s].inbox) : s \in Range(order)})
      BY <1>1
<1> HIDE DEF e
<1> QED BY <1>2, <1>3, <1>4, PruneUndisturbed

LEMMA CompleteTurnUndisturbed ==
    ASSUME RunsOnly, NEW s \in SubIds, CompleteTurn(s), NEW b \in DOMAIN index, b # owner[s]
    PROVE  Undisturbed(b)
<1> DEFINE a == owner[s]
           e == [entries EXCEPT ![index[a]].status = "Idle", ![index[a]].seq = nextSeq]
<1>1. CASE Present(a)
  <2>1. PruneTo(e, index, {})
        BY <1>1 DEF CompleteTurn
  <2>2. /\ DOMAIN e = DOMAIN entries /\ index[b] \in DOMAIN entries /\ index[b] # index[a]
        /\ owner[index[b]] = b
        BY <1>1, RunsApart DEF Present, RunsOnly, IndexSound
  <2>3. e[index[b]] = entries[index[b]]
        BY <2>2
  <2>4. ASSUME NEW t \in DOMAIN entries PROVE IsEntry(e[t])
    <3>1. \/ e[t] = entries[t]
          \/ e[t] = [entries[t] EXCEPT !.status = "Idle", !.seq = nextSeq]
          OBVIOUS
    <3>2. IsEntry(entries[t])
          BY DEF RunsOnly, EntriesSound
    <3> HIDE DEF e
    <3> QED BY <3>1, <3>2 DEF IsEntry
  <2> HIDE DEF e
  <2> QED BY <2>1, <2>2, <2>3, <2>4, PruneUndisturbed
<1>2. CASE ~Present(a)
      BY <1>2 DEF CompleteTurn, Undisturbed
<1> QED BY <1>1, <1>2

\* An agent that is at rest stays so if the step leaves it closed, watches none
\* of its runs, and takes no call on it to one of the dangerous stages.
Dangerous == {"spawned", "submit", "drain", "resume"}

LEMMA StaysAtRest ==
    ASSUME Registry, OwnersStay, NEW a, AtRest(a), Present(a)', Undisturbed(a),
           \A s \in watched' : s \in watched \/ owner'[s] # a,
           \A c \in Calls : \/ call'[c] = call[c] \/ call'[c].agent # a
                            \/ call'[c].stage \notin Dangerous
    PROVE  AtRest(a)'
<1>1. Current(a)'.status = "Terminated"
      BY DEF AtRest, Present, Current, Undisturbed
<1>2. \A s \in watched' : owner'[s] # a
      BY DEF AtRest, Registry, WatchedSound, OwnersStay
<1>3. \A c \in Calls : call'[c].agent = a => call'[c].stage \notin Dangerous
      BY DEF AtRest, Dangerous
<1> QED BY <1>1, <1>2, <1>3 DEF AtRest, Dangerous

\* The steps of calls on an agent at rest.
LEMMA CallsLeaveAtRest ==
    ASSUME Registry, NEW c \in Calls, Begins(c) \/ Continues(c),
           NEW a, AtRest(a), Present(a)'
    PROVE  AtRest(a)'
<1>1. /\ RunsOnly /\ CallsSound /\ CallSound(call[c]) /\ IsCall(call[c]) /\ DOMAIN call = Calls
      /\ call[c].then \in {"queue", "done"}
      BY DEF Registry, RunsOnly, CallsSound, CallSound
<1>2. /\ a \in DOMAIN index /\ entries[index[a]].status = "Terminated"
      /\ call[c].agent = a => call[c].stage \notin Dangerous
      BY DEF AtRest, Present, Current, Dangerous
<1>3. ASSUME NEW p \in SubIds, Spawn(c, p) PROVE AtRest(a)'
  <2>1. call' = [call EXCEPT ![c].stage = "spawned", ![c].by = p, ![c].agent = Len(owner) + 1,
                             ![c].run = Len(owner) + 1]
        BY <1>3 DEF Spawn, Start
  <2>2. call'[c].agent = Len(owner) + 1 /\ \A d \in Calls \ {c} : call'[d] = call[d]
        BY <1>1, <2>1 DEF IsCall
  <2>3. watched' = watched
        BY <1>3 DEF Spawn
  <2> QED BY <1>2, <1>3, <2>2, <2>3, SpawnKeeps, SpawnUndisturbed, StaysAtRest
<1>4. ASSUME NEW p \in SubIds, NEW b \in SubIds,
             SpawnRefused(c, p) \/ SendFinds(c, p, b) \/ CloseFinds(c, p, b)
      PROVE  AtRest(a)'
  <2>1. UNCHANGED <<owner, entries, index, watched>>
        BY <1>4 DEF SpawnRefused, SendFinds, CloseFinds
  <2>2. call'[c].stage \in {"done", "found", "closing"} /\ \A d \in Calls \ {c} : call'[d] = call[d]
        BY <1>1, <1>4 DEF SpawnRefused, SendFinds, CloseFinds, Start, IsCall
  <2> QED BY <2>1, <2>2, StaysAtRest DEF Undisturbed, OwnersStay, Dangerous
<1>5. CASE MarkRunning(c)
  <2>1. call[c].agent # a /\ UNCHANGED <<owner, watched, index>>
        BY <1>2, <1>5 DEF MarkRunning, Dangerous
  <2>2. call' = [call EXCEPT ![c].stage = "submit"] \/ call' = [call EXCEPT ![c].stage = "done"]
        BY <1>5 DEF MarkRunning, Step, Over
  <2>3. call'[c].agent # a /\ \A d \in Calls \ {c} : call'[d] = call[d]
        BY <1>1, <2>1, <2>2 DEF IsCall
  <2>4. Undisturbed(a)
    <3>1. CASE Present(call[c].agent)
      <4>1. index[call[c].agent] # index[a] /\ index[a] \in DOMAIN entries
            BY <1>1, <1>2, <2>1, <3>1, RunsApart DEF Present
      <4> QED BY <1>5, <2>1, <3>1, <4>1 DEF MarkRunning, Undisturbed
    <3>2. CASE ~Present(call[c].agent)
          BY <1>5, <2>1, <3>2 DEF MarkRunning, Undisturbed
    <3> QED BY <3>1, <3>2
  <2> QED BY <2>1, <2>3, <2>4, StaysAtRest DEF OwnersStay
<1>6. CASE LaunchSubmits(c) \/ LaunchFails(c)
  <2>1. /\ UNCHANGED <<owner, entries, index>> /\ call[c].stage = "submit"
        /\ call' = [call EXCEPT ![c].stage = "done"]
        BY <1>6 DEF LaunchSubmits, LaunchFails, Over, Step
  <2>2. call'[c].stage = "done" /\ \A d \in Calls \ {c} : call'[d] = call[d]
        BY <1>1, <2>1 DEF IsCall
  <2>3. call[c].agent # a /\ owner[call[c].run] = call[c].agent
        BY <1>1, <1>2, <2>1 DEF CallSound, Dangerous
  <2>4. watched' \subseteq watched \cup {call[c].run}
        BY <1>6 DEF LaunchSubmits, LaunchFails
  <2> QED BY <2>1, <2>2, <2>3, <2>4, StaysAtRest DEF Undisturbed, OwnersStay, Dangerous
<1>7. CASE SendReads(c)
  <2>1. UNCHANGED <<owner, entries, index, watched>>
        BY <1>7 DEF SendReads
  <2>2. PICK stage \in {"done", "drain", "queue"} : call' = [call EXCEPT ![c].stage = stage]
        BY <1>7 DEF SendReads, Step
  <2>3. call[c].agent = a => call' = [call EXCEPT ![c].stage = "done"]
        BY <1>2, <1>7 DEF SendReads, Step, Present, Current
  <2>4. /\ call'[c].agent = call[c].agent /\ \A d \in Calls \ {c} : call'[d] = call[d]
        /\ call[c].agent = a => call'[c].stage = "done"
        BY <1>1, <2>2, <2>3 DEF IsCall
  <2> QED BY <2>1, <2>4, StaysAtRest DEF Undisturbed, OwnersStay, Dangerous
<1>8. CASE SendDrains(c)
  <2>1. UNCHANGED <<owner, index, watched>> /\ call[c].agent # a
        BY <1>2, <1>8 DEF SendDrains, Dangerous
  <2>2. call'[c].agent = call[c].agent /\ \A d \in Calls \ {c} : call'[d] = call[d]
        BY <1>1, <1>8 DEF SendDrains, Step, IsCall
  <2>3. Undisturbed(a)
    <3>1. \A s \in DOMAIN entries : IsEntry(entries[s])
          BY <1>1 DEF RunsOnly, EntriesSound
    <3>2. index[a] \in DOMAIN entries
          BY <1>1, <1>2 DEF RunsOnly, IndexSound
    <3>3. CASE Present(call[c].agent)
      <4>1. index[call[c].agent] # index[a]
            BY <1>1, <1>2, <2>1, <3>3, RunsApart DEF Present
      <4> QED BY <1>8, <2>1, <3>2, <3>3, <4>1 DEF SendDrains, Undisturbed
    <3>4. CASE ~Present(call[c].agent)
          BY <1>8, <2>1, <3>4 DEF SendDrains, Undisturbed
    <3> QED BY <3>3, <3>4
  <2> QED BY <2>1, <2>2, <2>3, StaysAtRest DEF OwnersStay
<1>9. CASE Resume(c)
  <2>1. /\ call[c].agent # a /\ watched' = watched
        /\ call[c].agent \in DOMAIN index
        /\ index' = [index EXCEPT ![call[c].agent] = Len(owner) + 1]
        /\ call' = [call EXCEPT ![c].stage = "submit", ![c].run = Len(owner) + 1]
        BY <1>2, <1>9 DEF Resume, Resumable, Present, Dangerous
  <2>2. PICK holder, old : entries' = [t \in DOMAIN entries \cup {Len(owner) + 1} |->
                     IF t = Len(owner) + 1 THEN Successor(call[c].agent)
                     ELSE IF t = holder
                     THEN [entries[t] EXCEPT !.kids = (@ \ {old}) \cup {Len(owner) + 1}]
                     ELSE entries[t]]
        BY <1>9 DEF Resume
  <2>3. call'[c].agent # a /\ \A d \in Calls \ {c} : call'[d] = call[d]
        BY <1>1, <2>1 DEF IsCall
  <2>4. index[a] \in DOMAIN entries /\ index[a] # Len(owner) + 1 /\ IsEntry(entries[index[a]])
        BY <1>1, <1>2 DEF RunsOnly, IndexSound, EntriesSound, RunsNumbered
  <2>5. \/ entries'[index[a]] = entries[index[a]]
        \/ entries'[index[a]] = [entries[index[a]] EXCEPT !.kids = (@ \ {old}) \cup {Len(owner) + 1}]
        BY <2>2, <2>4
  <2>6. entries'[index[a]].status = entries[index[a]].status
        BY <2>4, <2>5 DEF IsEntry
  <2>7. Undisturbed(a)
        BY <1>2, <2>1, <2>6 DEF Undisturbed
  <2> QED BY <1>9, <2>1, <2>3, <2>7, ResumeKeeps, StaysAtRest
<1>10. CASE ResumeRefused(c) \/ SendNotSubmitted(c)
  <2>1. UNCHANGED <<owner, entries, index, watched>>
        BY <1>10 DEF ResumeRefused, SendNotSubmitted
  <2>2. PICK then \in {"queue", "done"} : call' = [call EXCEPT ![c].stage = "restore", ![c].then = then]
        BY <1>10 DEF ResumeRefused, SendNotSubmitted
  <2>3. call'[c].stage = "restore" /\ \A d \in Calls \ {c} : call'[d] = call[d]
        BY <1>1, <2>2 DEF IsCall
  <2> QED BY <2>1, <2>3, StaysAtRest DEF Undisturbed, OwnersStay, Dangerous
<1>11. CASE SendSubmits(c)
  <2>1. /\ UNCHANGED <<owner, entries, index, watched>>
        /\ call' = [call EXCEPT ![c].stage = "done", ![c].taken = <<>>]
        BY <1>11 DEF SendSubmits
  <2>2. call'[c].stage = "done" /\ \A d \in Calls \ {c} : call'[d] = call[d]
        BY <1>1, <2>1 DEF IsCall
  <2> QED BY <2>1, <2>2, StaysAtRest DEF Undisturbed, OwnersStay, Dangerous
<1>12. CASE RestoreOne(c) \/ SendQueues(c)
  <2>1. UNCHANGED <<owner, index, watched>>
        BY <1>12 DEF RestoreOne, SendQueues
  <2>2. call'[c].stage \in {"restore", "queue", "done"} /\ \A d \in Calls \ {c} : call'[d] = call[d]
    <3>1. CASE RestoreOne(c)
          BY <1>1, <3>1 DEF RestoreOne, IsCall
    <3>2. CASE SendQueues(c)
          BY <1>1, <3>2 DEF SendQueues, Over, Step, IsCall
    <3> QED BY <1>12, <3>1, <3>2
  <2>3. entries' = entries \/ \E s, box : entries' = [entries EXCEPT ![s].inbox = box]
        BY <1>12 DEF RestoreOne, SendQueues, Push
  <2>4. index[a] \in DOMAIN entries /\ IsEntry(entries[index[a]])
        BY <1>1, <1>2 DEF RunsOnly, IndexSound, EntriesSound
  <2>5. entries'[index[a]].status = entries[index[a]].status
        BY <2>3, <2>4 DEF IsEntry
  <2> QED BY <2>1, <2>2, <2>5, StaysAtRest DEF Undisturbed, OwnersStay, Dangerous
<1>13. CASE CloseTerminates(c)
  <2>1. UNCHANGED <<owner, watched>> /\ call' = [call EXCEPT ![c].stage = "done"]
        BY <1>13 DEF CloseTerminates, Over, Step
  <2>2. call'[c].stage = "done" /\ \A d \in Calls \ {c} : call'[d] = call[d]
        BY <1>1, <2>1 DEF IsCall
  <2>3. Undisturbed(a)
        BY <1>1, <1>2, <1>13, TerminateUndisturbed DEF CloseTerminates, Undisturbed
  <2> QED BY <2>1, <2>2, <2>3, StaysAtRest DEF OwnersStay, Dangerous
<1>14. CASE CloseFails(c)
  <2>1. /\ UNCHANGED <<owner, entries, index, watched>>
        /\ call' = [call EXCEPT ![c].stage = "done", ![c].agent = NoAgent]
        BY <1>14 DEF CloseFails
  <2>2. call'[c].stage = "done" /\ \A d \in Calls \ {c} : call'[d] = call[d]
        BY <1>1, <2>1 DEF IsCall
  <2> QED BY <2>1, <2>2, StaysAtRest DEF Undisturbed, OwnersStay, Dangerous
<1>15. Begins(c) => AtRest(a)'
      BY <1>3, <1>4 DEF Begins
<1> QED BY <1>5, <1>6, <1>7, <1>8, <1>9, <1>10, <1>11, <1>12, <1>13, <1>14, <1>15
        DEF Continues, Launches, Sends

LEMMA ClosedStaysStep ==
    ASSUME Registry, [Next]_vars, NEW a \in SubIds, AtRest(a), Present(a)'
    PROVE  AtRest(a)'
<1>1. RunsOnly /\ CallsSound /\ DOMAIN call = Calls /\ a \in DOMAIN index
      BY DEF Registry, RunsOnly, CallsSound, AtRest, Present
<1>2. CASE RegisterRoot
  <2>1. /\ UNCHANGED <<owner, watched, call>>
        /\ entries' = [s \in DOMAIN entries \cup {Root} |->
                         IF s = Root THEN NewEntry(NoAgent, 0, {}, "Running") ELSE entries[s]]
        /\ index' = [b \in DOMAIN index \cup {Root} |-> IF b = Root THEN Root ELSE index[b]]
        /\ Root \notin DOMAIN index
        BY <1>2 DEF RegisterRoot, Present
  <2>2. index[a] # Root /\ index[a] \in DOMAIN entries
        BY <1>1, <2>1 DEF RunsOnly, IndexSound, EntriesSound, RunsNumbered
  <2>3. Undisturbed(a)
        BY <1>1, <2>1, <2>2 DEF Undisturbed
  <2> QED BY <2>1, <2>3, StaysAtRest DEF OwnersStay
<1>3. ASSUME NEW c \in Calls, Begins(c) \/ Continues(c) PROVE AtRest(a)'
      BY <1>3, CallsLeaveAtRest
<1>4. ASSUME NEW c \in Calls, NEW b \in SubIds, UserCloses(c, b) PROVE AtRest(a)'
  <2>1. /\ UNCHANGED <<owner, watched>> /\ Terminate(b)
        /\ call' = [call EXCEPT ![c].stage = "done", ![c].by = NoAgent, ![c].agent = b,
                                ![c].run = NoAgent]
        BY <1>4 DEF UserCloses, Start
  <2>2. IsCall(call[c])
        BY <1>1 DEF CallsSound, CallSound
  <2>3. call'[c].stage = "done" /\ \A d \in Calls \ {c} : call'[d] = call[d]
        BY <1>1, <2>1, <2>2 DEF IsCall
  <2> QED BY <1>1, <2>1, <2>3, TerminateUndisturbed, StaysAtRest DEF OwnersStay, Dangerous
<1>5. ASSUME NEW s \in SubIds, TurnEnds(s) \/ WatcherFails(s) PROVE AtRest(a)'
      BY <1>5, StaysAtRest DEF TurnEnds, WatcherFails, Undisturbed, OwnersStay
<1>6. ASSUME NEW s \in SubIds, CompleteTurn(s) PROVE AtRest(a)'
  <2>1. UNCHANGED <<owner, call>> /\ watched' \subseteq watched /\ owner[s] # a
        BY <1>6 DEF CompleteTurn, AtRest
  <2> QED BY <1>1, <1>6, <2>1, CompleteTurnUndisturbed, StaysAtRest DEF OwnersStay
<1>7. CASE UNCHANGED vars
      BY <1>7, StaysAtRest DEF vars, Undisturbed, OwnersStay
<1> QED BY <1>2, <1>3, <1>4, <1>5, <1>6, <1>7 DEF Next, Watches

\* A closed agent of which nothing is in flight is never made running or idle
\* again (lifecycle.rs:26, mod.rs:287).
THEOREM ClosedStaysHolds == Spec => ClosedStays
<1>1. Registry /\ [Next]_vars => [\A a \in SubIds : AtRest(a) /\ Present(a)' => AtRest(a)']_vars
      BY ClosedStaysStep
<1> QED BY <1>1, RegistrySound, PTL DEF Spec, ClosedStays

-----------------------------------------------------------------------------
\* The root is in the index for as long as its run is registered.
RootIndexed == Root \in DOMAIN entries => Root \in DOMAIN index

\* Who is looked for was once made.
AgentsKnown ==
    \A c \in Calls : call[c].stage \in {"found", "drain", "resume"} => call[c].agent \in DOMAIN owner

\* A launch that has not submitted its child's first turn.
Launching(k) == k.stage \in {"spawned", "submit"} /\ k.run = k.agent

\* Nothing has happened to a spawned agent yet but a close.
Untouched(a) ==
    /\ \A s \in DOMAIN owner : owner[s] = a => s = a
    /\ a \notin watched /\ a \notin revived
    /\ a \in DOMAIN entries => entries[a].status \in {"Pending", "Terminated"}
    /\ \A d \in Calls : call[d].stage \in {"drain", "resume"} => call[d].agent # a

\* Every spawned agent is untouched, and no other launch is of it.
LaunchesSound ==
    \A c \in Calls : call[c].stage = "spawned" =>
       /\ Untouched(call[c].agent)
       /\ \A d \in Calls \ {c} : Launching(call[d]) => call[d].agent # call[c].agent

\* The counter is a number, and a resumed run one that was made.
Numbers == active \in Nat /\ revived \subseteq DOMAIN owner

\* The inductive invariant of the count.
SlotsInv == RootIndexed /\ AgentsKnown /\ LaunchesSound /\ Numbers /\ Slots

\* The live runs that are their agents' first.
Firsts == {s \in Occupied \ {Root} : owner[s] = s}

LEMMA AllFinite ==
    ASSUME RunsOnly, revived \subseteq DOMAIN owner
    PROVE  /\ IsFiniteSet(Occupied) /\ Cardinality(Occupied) \in Nat
           /\ IsFiniteSet(Counted) /\ Cardinality(Counted) \in Nat
           /\ IsFiniteSet(Firsts) /\ Cardinality(Firsts) \in Nat
           /\ IsFiniteSet(revived) /\ Cardinality(revived) \in Nat
           /\ Counted \subseteq Occupied /\ Firsts \subseteq Occupied
<1>1. IsFiniteSet(DOMAIN owner)
  <2>1. owner \in Seq(Nat) /\ DOMAIN owner = 1..Len(owner) /\ Len(owner) \in Nat
        BY DEF RunsOnly, RunsNumbered
  <2> QED BY <2>1, FS_Interval
<1>2. Counted \subseteq Occupied /\ Firsts \subseteq Occupied
      BY DEF Counted, Firsts
<1>3. Occupied \subseteq DOMAIN owner
      BY DEF RunsOnly, EntriesSound, Occupied
<1>4. IsFiniteSet(Occupied) /\ IsFiniteSet(revived)
      BY <1>1, <1>3, FS_Subset
<1>5. IsFiniteSet(Counted) /\ IsFiniteSet(Firsts)
      BY <1>2, <1>4, FS_Subset
<1> QED BY <1>2, <1>4, <1>5, FS_CardinalityType

LEMMA SlotsMeans ==
    Slots <=> /\ active <= Cardinality(Counted)
              /\ Cardinality(Occupied) <= active + Cardinality(revived)
              /\ Cardinality(Firsts) <= MaxConcurrent + Cardinality(revived)
BY DEF Slots, SlotsCounted, SpawnLimit, Firsts

\* Sizes.
LEMMA CardUpTo ==
    ASSUME NEW S, NEW T, IsFiniteSet(T), S \subseteq T
    PROVE  IsFiniteSet(S) /\ Cardinality(S) <= Cardinality(T)
           /\ Cardinality(S) \in Nat /\ Cardinality(T) \in Nat
BY FS_Subset, FS_CardinalityType

LEMMA CardOneMore ==
    ASSUME NEW S, IsFiniteSet(S), NEW x
    PROVE  /\ IsFiniteSet(S \cup {x}) /\ Cardinality(S) \in Nat
           /\ Cardinality(S \cup {x}) \in Nat
           /\ Cardinality(S \cup {x}) <= Cardinality(S) + 1
           /\ x \notin S => Cardinality(S \cup {x}) = Cardinality(S) + 1
<1>1. IsFiniteSet(S \cup {x})
      BY FS_AddElement
<1>2. Cardinality(S \cup {x}) = IF x \in S THEN Cardinality(S) ELSE Cardinality(S) + 1
      BY FS_AddElement
<1>3. Cardinality(S) \in Nat /\ Cardinality(S \cup {x}) \in Nat
      BY <1>1, FS_CardinalityType
<1> QED BY <1>1, <1>2, <1>3

LEMMA CardWithout ==
    ASSUME NEW S, IsFiniteSet(S), NEW E
    PROVE  /\ IsFiniteSet(S \ E) /\ Cardinality(S \ E) \in Nat
           /\ Cardinality(E \cap S) \in Nat /\ Cardinality(S) \in Nat
           /\ Cardinality(S \ E) = Cardinality(S) - Cardinality(E \cap S)
<1>1. S \cap E = E \cap S
      OBVIOUS
<1>2. /\ IsFiniteSet(S \ E) /\ Cardinality(S \ E) = Cardinality(S) - Cardinality(S \cap E)
      BY FS_Difference
<1>3. IsFiniteSet(E \cap S)
      BY FS_Subset
<1> QED BY <1>1, <1>2, <1>3, FS_CardinalityType

\* The slots after some runs have ended, others left the registry, and no run
\* that counts among them.
LEMMA EndKeepsSlots ==
    ASSUME RunsOnly, RunsOnly', Numbers, UNCHANGED <<owner, revived>>, Slots,
           NEW ended, active' = Less(active, Freed(ended)),
           Occupied' \subseteq Occupied \ ended, Counted \ ended \subseteq Counted'
    PROVE  Slots' /\ active' \in Nat
<1>1. /\ IsFiniteSet(Occupied) /\ Cardinality(Occupied) \in Nat
      /\ IsFiniteSet(Counted) /\ Cardinality(Counted) \in Nat
      /\ IsFiniteSet(Firsts) /\ Cardinality(Firsts) \in Nat
      /\ Cardinality(revived) \in Nat /\ Counted \subseteq Occupied /\ active \in Nat
      BY AllFinite DEF Numbers
<1>2. (revived \subseteq DOMAIN owner)'
      BY DEF Numbers
<1>3. IsFiniteSet(Counted') /\ Cardinality(Counted') \in Nat /\ Cardinality(Firsts') \in Nat
  <2>1. Counted' \subseteq Occupied
        BY DEF Counted
  <2>2. Firsts' \subseteq Occupied
        BY DEF Firsts
  <2> QED BY <1>1, <2>1, <2>2, FS_Subset, FS_CardinalityType
<1>4. Cardinality(Occupied') <= Cardinality(Occupied) - Cardinality(ended \cap Occupied)
      /\ Cardinality(ended \cap Occupied) \in Nat /\ Cardinality(Occupied') \in Nat
  <2>1. /\ IsFiniteSet(Occupied \ ended) /\ Cardinality(ended \cap Occupied) \in Nat
        /\ Cardinality(Occupied \ ended) = Cardinality(Occupied) - Cardinality(ended \cap Occupied)
        BY <1>1, CardWithout
  <2>2. Cardinality(Occupied') <= Cardinality(Occupied \ ended) /\ Cardinality(Occupied') \in Nat
        BY <2>1, CardUpTo
  <2> QED BY <2>1, <2>2
<1>5. Cardinality(Counted) - Cardinality(ended \cap Counted) <= Cardinality(Counted')
      /\ Cardinality(ended \cap Counted) \in Nat
  <2>1. /\ IsFiniteSet(Counted \ ended) /\ Cardinality(ended \cap Counted) \in Nat
        /\ Cardinality(Counted \ ended) = Cardinality(Counted) - Cardinality(ended \cap Counted)
        BY <1>1, CardWithout
  <2>2. Cardinality(Counted \ ended) <= Cardinality(Counted')
        BY <1>3, CardUpTo
  <2> QED BY <2>1, <2>2
<1>6. Cardinality(ended \cap Counted) <= Cardinality(ended \cap Occupied)
  <2>1. IsFiniteSet(ended \cap Occupied) /\ ended \cap Counted \subseteq ended \cap Occupied
        BY <1>1, FS_Subset
  <2> QED BY <2>1, CardUpTo
<1>7. Cardinality(Firsts') <= Cardinality(Firsts)
  <2>1. Firsts' \subseteq Firsts
        BY DEF Firsts
  <2> QED BY <1>1, <2>1, CardUpTo
<1>8. active' = IF active > Cardinality(ended \cap Occupied)
                THEN active - Cardinality(ended \cap Occupied) ELSE 0
      BY DEF Less, Freed
<1>9. /\ active <= Cardinality(Counted)
      /\ Cardinality(Occupied) <= active + Cardinality(revived)
      /\ Cardinality(Firsts) <= MaxConcurrent + Cardinality(revived)
      BY SlotsMeans
<1>10. MaxConcurrent \in Nat
      BY LimitAssumption
<1>11. /\ active' \in Nat /\ active' <= Cardinality(Counted')
       /\ Cardinality(Occupied') <= active' + Cardinality(revived)
       /\ Cardinality(Firsts') <= MaxConcurrent + Cardinality(revived)
       BY <1>1, <1>3, <1>4, <1>5, <1>6, <1>7, <1>8, <1>9, <1>10
<1> QED BY <1>11 DEF Slots, SlotsCounted, SpawnLimit, Firsts

\* The slots when nothing ends, and runs that do not count may leave.
LEMMA RestKeepsSlots ==
    ASSUME RunsOnly, RunsOnly', Numbers, UNCHANGED <<revived, active>>, Slots,
           Occupied' \subseteq Occupied, Counted \subseteq Counted', Firsts' \subseteq Firsts
    PROVE  Slots'
<1>1. /\ IsFiniteSet(Occupied) /\ Cardinality(Occupied) \in Nat
      /\ IsFiniteSet(Counted) /\ Cardinality(Counted) \in Nat
      /\ IsFiniteSet(Firsts) /\ Cardinality(Firsts) \in Nat
      /\ Cardinality(revived) \in Nat /\ Counted \subseteq Occupied /\ active \in Nat
      BY AllFinite DEF Numbers
<1>2. IsFiniteSet(Counted')
  <2>1. Counted' \subseteq Occupied
        BY DEF Counted
  <2> QED BY <1>1, <2>1, FS_Subset
<1>3. /\ Cardinality(Counted) <= Cardinality(Counted') /\ Cardinality(Counted') \in Nat
      BY <1>2, CardUpTo
<1>4. /\ Cardinality(Occupied') <= Cardinality(Occupied) /\ Cardinality(Occupied') \in Nat
      BY <1>1, CardUpTo
<1>5. /\ Cardinality(Firsts') <= Cardinality(Firsts) /\ Cardinality(Firsts') \in Nat
      BY <1>1, CardUpTo
<1>6. /\ active <= Cardinality(Counted)
      /\ Cardinality(Occupied) <= active + Cardinality(revived)
      /\ Cardinality(Firsts) <= MaxConcurrent + Cardinality(revived)
      BY SlotsMeans
<1>7. MaxConcurrent \in Nat
      BY LimitAssumption
<1>8. /\ active' <= Cardinality(Counted')
      /\ Cardinality(Occupied') <= active' + Cardinality(revived')
      /\ Cardinality(Firsts') <= MaxConcurrent + Cardinality(revived')
       BY <1>1, <1>3, <1>4, <1>5, <1>6, <1>7
<1> QED BY <1>8 DEF Slots, SlotsCounted, SpawnLimit, Firsts

\* A new run takes a slot: the limit stood before, or it is no agent's first run.
LEMMA TakeKeepsSlots ==
    ASSUME RunsOnly, RunsOnly', Numbers, UNCHANGED revived, active' = active + 1, Slots,
           NEW n, n \notin Occupied,
           Occupied' \subseteq Occupied \cup {n}, Counted \cup {n} \subseteq Counted',
           active < MaxConcurrent \/ Firsts' \subseteq Firsts
    PROVE  Slots' /\ active' \in Nat
<1>1. /\ IsFiniteSet(Occupied) /\ Cardinality(Occupied) \in Nat
      /\ IsFiniteSet(Counted) /\ Cardinality(Counted) \in Nat
      /\ IsFiniteSet(Firsts) /\ Cardinality(Firsts) \in Nat
      /\ Cardinality(revived) \in Nat /\ Counted \subseteq Occupied /\ active \in Nat
      BY AllFinite DEF Numbers
<1>2. /\ IsFiniteSet(Occupied \cup {n})
      /\ Cardinality(Occupied \cup {n}) = Cardinality(Occupied) + 1
      BY <1>1, CardOneMore
<1>3. n \notin Counted
      BY <1>1
<1>4. /\ Cardinality(Counted \cup {n}) = Cardinality(Counted) + 1
      BY <1>1, <1>3, CardOneMore
<1>5. IsFiniteSet(Counted') /\ IsFiniteSet(Firsts') /\ Firsts' \subseteq Occupied'
      /\ IsFiniteSet(Occupied')
  <2>1. Counted' \subseteq Occupied' /\ Firsts' \subseteq Occupied'
        BY DEF Counted, Firsts
  <2>2. IsFiniteSet(Occupied')
        BY <1>2, FS_Subset
  <2> QED BY <2>1, <2>2, FS_Subset
<1>6. /\ Cardinality(Counted \cup {n}) <= Cardinality(Counted') /\ Cardinality(Counted') \in Nat
      BY <1>5, CardUpTo
<1>7. /\ Cardinality(Occupied') <= Cardinality(Occupied \cup {n}) /\ Cardinality(Occupied') \in Nat
      BY <1>2, CardUpTo
<1>8. /\ Cardinality(Firsts') <= Cardinality(Occupied') /\ Cardinality(Firsts') \in Nat
      BY <1>5, CardUpTo
<1>9. Firsts' \subseteq Firsts => Cardinality(Firsts') <= Cardinality(Firsts)
      BY <1>1, CardUpTo
<1>10. /\ active <= Cardinality(Counted)
       /\ Cardinality(Occupied) <= active + Cardinality(revived)
       /\ Cardinality(Firsts) <= MaxConcurrent + Cardinality(revived)
       BY SlotsMeans
<1>11. MaxConcurrent \in Nat
       BY LimitAssumption
<1>12. /\ active' <= Cardinality(Counted') /\ active' \in Nat
       /\ Cardinality(Occupied') <= active' + Cardinality(revived')
       /\ Cardinality(Firsts') <= MaxConcurrent + Cardinality(revived')
       BY <1>1, <1>2, <1>4, <1>6, <1>7, <1>8, <1>9, <1>10, <1>11
<1> QED BY <1>12 DEF Slots, SlotsCounted, SpawnLimit, Firsts

\* A closed run comes back: the count does not see it, but revived does.
LEMMA ReviveKeepsSlots ==
    ASSUME RunsOnly, RunsOnly', Numbers, UNCHANGED <<owner, active>>, Slots,
           NEW n, n \notin revived, revived' = revived \cup {n},
           Occupied' \subseteq Occupied \cup {n}, Counted \subseteq Counted'
    PROVE  Slots'
<1>1. /\ IsFiniteSet(Occupied) /\ Cardinality(Occupied) \in Nat
      /\ IsFiniteSet(Counted) /\ Cardinality(Counted) \in Nat
      /\ IsFiniteSet(Firsts) /\ Cardinality(Firsts) \in Nat
      /\ IsFiniteSet(revived)
      /\ Cardinality(revived) \in Nat /\ Counted \subseteq Occupied /\ active \in Nat
      BY AllFinite DEF Numbers
<1>2. /\ IsFiniteSet(Occupied \cup {n}) /\ Cardinality(Occupied \cup {n}) \in Nat
      /\ Cardinality(Occupied \cup {n}) <= Cardinality(Occupied) + 1
      BY <1>1, CardOneMore
<1>3. /\ IsFiniteSet(Firsts \cup {n}) /\ Cardinality(Firsts \cup {n}) \in Nat
      /\ Cardinality(Firsts \cup {n}) <= Cardinality(Firsts) + 1
      BY <1>1, CardOneMore
<1>4. Cardinality(revived') = Cardinality(revived) + 1
      BY <1>1, CardOneMore
<1>5. /\ Firsts' \subseteq Firsts \cup {n}
      BY DEF Firsts
<1>6. IsFiniteSet(Counted')
  <2>1. Counted' \subseteq Occupied \cup {n}
        BY DEF Counted
  <2> QED BY <1>2, <2>1, FS_Subset
<1>7. /\ Cardinality(Counted) <= Cardinality(Counted') /\ Cardinality(Counted') \in Nat
      BY <1>6, CardUpTo
<1>8. /\ Cardinality(Occupied') <= Cardinality(Occupied \cup {n}) /\ Cardinality(Occupied') \in Nat
      BY <1>2, CardUpTo
<1>9. /\ Cardinality(Firsts') <= Cardinality(Firsts \cup {n}) /\ Cardinality(Firsts') \in Nat
      BY <1>3, <1>5, CardUpTo
<1>10. /\ active <= Cardinality(Counted)
       /\ Cardinality(Occupied) <= active + Cardinality(revived)
       /\ Cardinality(Firsts) <= MaxConcurrent + Cardinality(revived)
       BY SlotsMeans
<1>11. MaxConcurrent \in Nat
       BY LimitAssumption
<1>12. /\ active' <= Cardinality(Counted')
       /\ Cardinality(Occupied') <= active' + Cardinality(revived')
       /\ Cardinality(Firsts') <= MaxConcurrent + Cardinality(revived')
       BY <1>1, <1>2, <1>3, <1>4, <1>7, <1>8, <1>9, <1>10, <1>11
<1> QED BY <1>12 DEF Slots, SlotsCounted, SpawnLimit, Firsts

\* The step leaves agent a alone, or closes it.
Spares(a) ==
    /\ \A s \in DOMAIN owner' : owner'[s] = a => s \in DOMAIN owner /\ owner[s] = a
    /\ a \notin revived' \ revived
    /\ a \in DOMAIN entries' =>
          /\ a \in DOMAIN entries
          /\ entries'[a].status \in {entries[a].status, "Terminated"}

Spawned(a) == \E c \in Calls : call[c].stage = "spawned" /\ call[c].agent = a

\* What a spawned agent is.
LEMMA SpawnedRun ==
    ASSUME Registry, LaunchesSound, NEW a, Spawned(a)
    PROVE  /\ a \in DOMAIN owner /\ owner[a] = a /\ a # Root
           /\ a \in DOMAIN index => index[a] = a
           /\ \A s \in DOMAIN owner : owner[s] = a => s = a
           /\ a \notin watched /\ a \notin revived
           /\ a \in DOMAIN entries => entries[a].status \in {"Pending", "Terminated"}
<1>1. PICK c \in Calls : call[c].stage = "spawned" /\ call[c].agent = a
      BY DEF Spawned
<1>2. CallSound(call[c]) /\ Untouched(a)
      BY <1>1 DEF Registry, CallsSound, LaunchesSound
<1> QED BY <1>1, <1>2 DEF CallSound, Untouched, Registry, IndexSound, EntriesSound

\* One call goes on, and no spawned agent of another is touched.
LEMMA OneGoesOn ==
    ASSUME LaunchesSound, NEW c \in Calls, \A d \in Calls \ {c} : call'[d] = call[d],
           call'[c].stage # "spawned",
           Launching(call'[c]) => Launching(call[c]) /\ call'[c].agent = call[c].agent,
           call'[c].stage \in {"drain", "resume"} =>
               \/ call[c].stage \in {"drain", "resume"} /\ call'[c].agent = call[c].agent
               \/ ~ Spawned(call'[c].agent),
           \A d \in Calls \ {c} : call[d].stage = "spawned" =>
               Spares(call[d].agent) /\ call[d].agent \notin watched' \ watched
    PROVE  LaunchesSound'
<1> SUFFICES ASSUME NEW d \in Calls, call'[d].stage = "spawned", NEW a, call'[d].agent = a
             PROVE  /\ Untouched(a)'
                    /\ \A f \in Calls \ {d} : Launching(call'[f]) => call'[f].agent # a
    BY DEF LaunchesSound, Launching, Untouched
<1>1. d # c /\ call[d].stage = "spawned" /\ call[d].agent = a
      OBVIOUS
<1>2. Untouched(a) /\ Spares(a) /\ a \notin watched' \ watched /\ Spawned(a)
      BY <1>1 DEF LaunchesSound, Spawned
<1>3. \A f \in Calls \ {d} : Launching(call[f]) => call[f].agent # a
      BY <1>1 DEF LaunchesSound
<1>4. \A f \in Calls \ {d} : Launching(call'[f]) => call'[f].agent # a
  <2> SUFFICES ASSUME NEW f \in Calls \ {d}, Launching(call'[f]) PROVE call'[f].agent # a
      OBVIOUS
  <2>1. Launching(call[f]) /\ call'[f].agent = call[f].agent
        OBVIOUS
  <2> QED BY <1>3, <2>1
<1>5. \A f \in Calls : call'[f].stage \in {"drain", "resume"} => call'[f].agent # a
      BY <1>2 DEF Untouched
<1>6. Untouched(a)'
      BY <1>2, <1>5 DEF Untouched, Spares
<1> QED BY <1>4, <1>6

LEMMA NoneGoesOn ==
    ASSUME LaunchesSound, UNCHANGED call, watched' \subseteq watched,
           \A d \in Calls : call[d].stage = "spawned" => Spares(call[d].agent)
    PROVE  LaunchesSound'
<1> SUFFICES ASSUME NEW d \in Calls, call[d].stage = "spawned", NEW a, call[d].agent = a
             PROVE  Untouched(a)'
    BY DEF LaunchesSound, Launching, Untouched
<1>1. Untouched(a) /\ Spares(a)
      BY DEF LaunchesSound
<1>2. \A f \in Calls : call'[f].stage \in {"drain", "resume"} => call'[f].agent # a
      BY <1>1 DEF Untouched
<1> QED BY <1>1, <1>2 DEF Untouched, Spares

LEMMA KnownStay ==
    ASSUME AgentsKnown, OwnersStay, NEW c \in Calls, \A d \in Calls \ {c} : call'[d] = call[d],
           call'[c].stage \in {"found", "drain", "resume"} => call'[c].agent \in DOMAIN owner'
    PROVE  AgentsKnown'
BY DEF AgentsKnown, OwnersStay

\* Where no run starts, ends, comes or goes.
Steady ==
    /\ UNCHANGED <<owner, index, revived, active>>
    /\ DOMAIN entries' = DOMAIN entries
    /\ \A s \in DOMAIN entries : /\ entries'[s].status = entries[s].status
                                 /\ entries'[s].seq = entries[s].seq

LEMMA SteadyKeeps ==
    ASSUME RunsOnly, RunsOnly', SlotsInv, Steady
    PROVE  RootIndexed' /\ Numbers' /\ Slots' /\ OwnersStay /\ \A a : Spares(a)
<1>1. Occupied' = Occupied
      BY DEF Steady, Occupied
<1>2. Counted' = Counted
      BY <1>1 DEF Steady, Counted, Occupied
<1>3. Firsts' = Firsts
      BY <1>1 DEF Steady, Firsts
<1>4. Slots'
      BY <1>1, <1>2, <1>3, RestKeepsSlots DEF Steady, SlotsInv
<1>5. \A a : Spares(a)
      BY DEF Steady, Spares
<1>6. RootIndexed' /\ Numbers' /\ OwnersStay
      BY DEF Steady, SlotsInv, RootIndexed, Numbers, OwnersStay
<1> QED BY <1>4, <1>5, <1>6

LEMMA StillSteady ==
    ASSUME UNCHANGED <<owner, entries, index, revived, active>> PROVE Steady
BY DEF Steady

LEMMA BoxSteady ==
    ASSUME RunsOnly, NEW a \in DOMAIN index, UNCHANGED <<owner, index, revived, active>>,
           NEW STATE box, entries' = [entries EXCEPT ![index[a]].inbox = box]
    PROVE  Steady
<1>1. DOMAIN entries' = DOMAIN entries
      OBVIOUS
<1>2. ASSUME NEW s \in DOMAIN entries
      PROVE  entries'[s].status = entries[s].status /\ entries'[s].seq = entries[s].seq
  <2>1. entries'[s] = entries[s] \/ entries'[s] = [entries[s] EXCEPT !.inbox = box]
        OBVIOUS
  <2>2. IsEntry(entries[s])
        BY DEF RunsOnly, EntriesSound
  <2> QED BY <2>1, <2>2 DEF IsEntry
<1> QED BY <1>1, <1>2 DEF Steady

\* Runs end, of which no one that counts leaves the registry, and the root is pruned
\* with its agent.
LEMMA EndsKeep ==
    ASSUME RunsOnly, RunsOnly', SlotsInv, UNCHANGED <<owner, revived>>,
           NEW STATE e, NEW STATE cleared, PruneTo(e, index, cleared),
           NEW ended, active' = Less(active, Freed(ended)),
           DOMAIN e = DOMAIN entries,
           \A s \in DOMAIN e :
              /\ IsEntry(e[s])
              /\ s \notin ended => e[s].status = entries[s].status /\ e[s].seq = entries[s].seq
              /\ s \in ended => e[s].status \in {"Terminated", "Idle"}
    PROVE  /\ RootIndexed' /\ Numbers' /\ Slots' /\ OwnersStay
           /\ \A a : (a \in ended => e[a].status # "Idle") => Spares(a)
<1>1. /\ DOMAIN entries' \subseteq DOMAIN e
      /\ \A s \in DOMAIN entries' : entries'[s].status = e[s].status /\ entries'[s].seq = e[s].seq
      /\ \A s \in DOMAIN e \ DOMAIN entries' : e[s].seq # Unfinished
      /\ DOMAIN index' \subseteq DOMAIN index
      /\ \A a \in DOMAIN index \ DOMAIN index' :
            \E s \in DOMAIN e \ DOMAIN entries' : owner[s] = a
      BY PruneKeeps
<1>2. Occupied' \subseteq Occupied \ ended
  <2> SUFFICES ASSUME NEW s \in Occupied' PROVE s \in Occupied /\ s \notin ended
      OBVIOUS
  <2>1. s \in DOMAIN entries' /\ s \in DOMAIN e /\ s \in DOMAIN entries /\ e[s].status \in Occupying
        BY <1>1 DEF Occupied
  <2>2. s \notin ended
        BY <2>1 DEF Occupying
  <2> QED BY <2>1, <2>2 DEF Occupied
<1>3. Counted \ ended \subseteq Counted'
  <2> SUFFICES ASSUME NEW s \in Counted, s \notin ended PROVE s \in Counted'
      OBVIOUS
  <2>1. s \in DOMAIN entries /\ entries[s].status \in Occupying /\ entries[s].seq = Unfinished
        BY DEF Counted, Occupied
  <2>2. s \in DOMAIN e /\ e[s].status = entries[s].status /\ e[s].seq = Unfinished
        BY <2>1
  <2>3. s \in DOMAIN entries'
        BY <1>1, <2>2
  <2> QED BY <1>1, <2>1, <2>2, <2>3 DEF Counted, Occupied
<1>4. Slots' /\ active' \in Nat
      BY <1>2, <1>3, EndKeepsSlots DEF SlotsInv
<1>5. RootIndexed'
  <2> SUFFICES ASSUME Root \in DOMAIN entries', Root \notin DOMAIN index' PROVE FALSE
      BY DEF RootIndexed
  <2>1. Root \in DOMAIN index
        BY <1>1 DEF SlotsInv, RootIndexed
  <2>2. PICK s \in DOMAIN e \ DOMAIN entries' : owner[s] = Root
        BY <1>1, <2>1
  <2>3. s \in DOMAIN owner
        BY DEF RunsOnly, EntriesSound
  <2>4. s = Root
        BY <2>2, <2>3 DEF RunsOnly, RunsNumbered
  <2> QED BY <2>2, <2>4
<1>6. ASSUME NEW a, a \in ended => e[a].status # "Idle" PROVE Spares(a)
  <2>1. a \in DOMAIN entries' => a \in DOMAIN entries /\ entries'[a].status = e[a].status
        BY <1>1
  <2> QED BY <1>6, <2>1 DEF Spares
<1> QED BY <1>4, <1>5, <1>6 DEF Numbers, OwnersStay, SlotsInv

LEMMA TerminateEnds ==
    ASSUME RunsOnly, RunsOnly', SlotsInv, UNCHANGED <<owner, revived>>, NEW a, Terminate(a)
    PROVE  RootIndexed' /\ Numbers' /\ Slots' /\ OwnersStay /\ \A b : Spares(b)
<1>1. PICK order \in {Below(entries, index[a])} :
         /\ active' = Less(active, Freed(Range(order)))
         /\ PruneTo([s \in DOMAIN entries |->
                  IF s \in Range(order)
                  THEN [entries[s] EXCEPT !.status = "Terminated", !.inbox = <<>>,
                           !.seq = nextSeq + (CHOOSE k \in DOMAIN order : order[k] = s) - 1]
                  ELSE entries[s]],
               index, UNION {Range(entries[s].inbox) : s \in Range(order)})
      BY DEF Terminate
<1> DEFINE ended == Range(order)
           e == [s \in DOMAIN entries |->
                  IF s \in ended
                  THEN [entries[s] EXCEPT !.status = "Terminated", !.inbox = <<>>,
                           !.seq = nextSeq + (CHOOSE k \in DOMAIN order : order[k] = s) - 1]
                  ELSE entries[s]]
<1>2. DOMAIN e = DOMAIN entries
      OBVIOUS
<1>3. ASSUME NEW s \in DOMAIN entries
      PROVE  /\ IsEntry(e[s])
             /\ s \notin ended => e[s].status = entries[s].status /\ e[s].seq = entries[s].seq
             /\ s \in ended => e[s].status = "Terminated"
  <2>1. PICK q : \/ s \notin ended /\ e[s] = entries[s]
                 \/ s \in ended /\ e[s] = [entries[s] EXCEPT !.status = "Terminated", !.inbox = <<>>, !.seq = q]
        OBVIOUS
  <2>2. IsEntry(entries[s])
        BY DEF RunsOnly, EntriesSound
  <2> HIDE DEF e, ended
  <2> QED BY <2>1, <2>2 DEF IsEntry
<1>4. /\ PruneTo(e, index, UNION {Range(entries[s].inbox) : s \in ended})
      /\ active' = Less(active, Freed(ended))
      BY <1>1
<1> HIDE DEF e, ended
<1>5. /\ RootIndexed' /\ Numbers' /\ Slots' /\ OwnersStay
      /\ \A b : (b \in ended => e[b].status # "Idle") => Spares(b)
      BY <1>2, <1>3, <1>4, EndsKeep
<1>6. ASSUME NEW b PROVE Spares(b)
  <2>1. CASE b \in DOMAIN entries
        BY <1>3, <1>5, <2>1
  <2>2. CASE b \notin DOMAIN entries
    <3>1. DOMAIN entries' \subseteq DOMAIN e
          BY <1>2, <1>3, <1>4, PruneKeeps
    <3> QED BY <1>2, <2>2, <3>1 DEF Spares
  <2> QED BY <2>1, <2>2
<1> QED BY <1>5, <1>6

LEMMA CompleteTurnEnds ==
    ASSUME Registry, Registry', SlotsInv, NEW s \in SubIds, CompleteTurn(s)
    PROVE  /\ RootIndexed' /\ Numbers' /\ Slots' /\ OwnersStay
           /\ \A b : Spawned(b) => Spares(b)
<1> DEFINE a == owner[s]
<1>0. RunsOnly /\ RunsOnly' /\ UNCHANGED <<owner, revived>> /\ s \in watched /\ s \in DOMAIN owner
      BY DEF Registry, RunsOnly, CompleteTurn, WatchedSound
<1>1. CASE Present(a)
  <2> DEFINE e == [entries EXCEPT ![index[a]].status = "Idle", ![index[a]].seq = nextSeq]
             ended == {index[a]}
  <2>1. PruneTo(e, index, {}) /\ active' = Less(active, Freed(ended))
        BY <1>1 DEF CompleteTurn
  <2>2. DOMAIN e = DOMAIN entries
        OBVIOUS
  <2>3. ASSUME NEW t \in DOMAIN entries
        PROVE  /\ IsEntry(e[t])
               /\ t \notin ended => e[t].status = entries[t].status /\ e[t].seq = entries[t].seq
               /\ t \in ended => e[t].status = "Idle"
    <3>1. \/ t \notin ended /\ e[t] = entries[t]
          \/ t \in ended /\ e[t] = [entries[t] EXCEPT !.status = "Idle", !.seq = nextSeq]
          OBVIOUS
    <3>2. IsEntry(entries[t])
          BY <1>0 DEF RunsOnly, EntriesSound
    <3> HIDE DEF e, ended
    <3> QED BY <3>1, <3>2 DEF IsEntry
  <2> HIDE DEF e
  <2>4. /\ RootIndexed' /\ Numbers' /\ Slots' /\ OwnersStay
        /\ \A b : (b \in ended => e[b].status # "Idle") => Spares(b)
    <3> HIDE DEF ended
    <3> QED BY <1>0, <2>1, <2>2, <2>3, EndsKeep
  <2>5. ASSUME NEW b, Spawned(b) PROVE b \notin ended
    <3>1. /\ \A r \in DOMAIN owner : owner[r] = b => r = b
          /\ b \notin watched /\ owner[b] = b /\ b \in DOMAIN owner
          BY <2>5, SpawnedRun DEF SlotsInv
    <3>2. owner[index[a]] = a
          BY <1>1 DEF Present, Registry, IndexSound
    <3> QED BY <1>0, <3>1, <3>2
  <2> QED BY <2>4, <2>5
<1>2. CASE ~Present(a)
  <2>1. UNCHANGED <<owner, entries, index, revived, active>>
        BY <1>2 DEF CompleteTurn
  <2> QED BY <1>0, <2>1, StillSteady, SteadyKeeps
<1> QED BY <1>1, <1>2

\* The root takes a slot as its first run, which was not in the registry.
LEMMA RootTakes ==
    ASSUME Registry, Registry', SlotsInv, RegisterRoot
    PROVE  /\ RootIndexed' /\ Numbers' /\ Slots' /\ OwnersStay
           /\ \A b : Spawned(b) => Spares(b)
<1>1. /\ entries' = [s \in DOMAIN entries \cup {Root} |->
                       IF s = Root THEN NewEntry(NoAgent, 0, {}, "Running") ELSE entries[s]]
      /\ index' = [a \in DOMAIN index \cup {Root} |-> IF a = Root THEN Root ELSE index[a]]
      /\ owner' = owner /\ Root \notin DOMAIN index /\ revived' = revived /\ active' = active + 1
      BY DEF RegisterRoot, Present, ghosts
<1>2. Root \notin DOMAIN entries
      BY <1>1 DEF SlotsInv, RootIndexed
<1>3. /\ DOMAIN entries' = DOMAIN entries \cup {Root}
      /\ entries'[Root].status = "Running" /\ entries'[Root].seq = Unfinished
      /\ \A s \in DOMAIN entries : entries'[s] = entries[s]
      BY <1>1, <1>2 DEF NewEntry
<1>4. Occupied' = Occupied \cup {Root} /\ Root \notin Occupied
      BY <1>2, <1>3 DEF Occupied, Occupying
<1>5. Counted \cup {Root} \subseteq Counted'
      BY <1>3, <1>4 DEF Counted, Occupied
<1>6. Firsts' \subseteq Firsts
      BY <1>1, <1>4 DEF Firsts
<1>7. RunsOnly /\ RunsOnly'
      BY DEF Registry, RunsOnly
<1>8. Slots' /\ active' \in Nat
      BY <1>1, <1>4, <1>5, <1>6, <1>7, TakeKeepsSlots DEF SlotsInv
<1>9. RootIndexed' /\ Numbers' /\ OwnersStay
      BY <1>1, <1>8 DEF RootIndexed, Numbers, OwnersStay, SlotsInv
<1>10. ASSUME NEW b, Spawned(b) PROVE Spares(b)
  <2>1. b # Root
        BY <1>10, SpawnedRun DEF SlotsInv
  <2> QED BY <1>1, <1>3, <2>1 DEF Spares
<1> QED BY <1>8, <1>9, <1>10

\* A spawned child takes a slot under the limit.
LEMMA SpawnTakes ==
    ASSUME Registry, Registry', SlotsInv, NEW c \in Calls, NEW p \in SubIds, Spawn(c, p)
    PROVE  /\ RootIndexed' /\ Numbers' /\ Slots' /\ OwnersStay
           /\ \A b : Spawned(b) => Spares(b)
           /\ Len(owner) + 1 \in DOMAIN entries' => entries'[Len(owner) + 1].status = "Pending"
           /\ Len(owner) + 1 \notin DOMAIN owner
           /\ \A s \in DOMAIN owner' : owner'[s] = Len(owner) + 1 => s = Len(owner) + 1
<1> DEFINE n == Len(owner) + 1
           e == [t \in DOMAIN entries \cup {n} |->
                  IF t = n THEN NewEntry(p, Current(p).depth + 1, {}, "Pending")
                  ELSE IF t = index[p] THEN [entries[t] EXCEPT !.kids = @ \cup {n}]
                  ELSE entries[t]]
           i == [a \in DOMAIN index \cup {n} |-> IF a = n THEN n ELSE index[a]]
<1>0. RunsOnly /\ RunsOnly' /\ OwnersStay
      BY SpawnKeeps DEF Registry, RunsOnly
<1>1. owner \in Seq(Nat) /\ n \in Nat /\ n > 1 /\ n \notin DOMAIN owner /\ DOMAIN owner = 1..Len(owner)
      BY DEF Registry, RunsNumbered
<1>2. /\ owner' = Append(owner, n) /\ PruneTo(e, i, {}) /\ active' = active + 1
      /\ revived' = revived /\ active < MaxConcurrent
      BY DEF Spawn, MaySpawn
<1>3. /\ DOMAIN owner' = DOMAIN owner \cup {n}
      /\ owner'[n] = n /\ \A s \in DOMAIN owner : owner'[s] = owner[s]
      BY <1>1, <1>2
<1>4. \A s \in DOMAIN owner : owner[s] # n
      BY <1>1 DEF Registry, RunsNumbered
<1>7. \A s \in DOMAIN entries : IsEntry(entries[s]) /\ s # n
      BY <1>1 DEF Registry, EntriesSound
<1>8. /\ DOMAIN e = DOMAIN entries \cup {n}
      /\ IsEntry(e[n]) /\ e[n].status = "Pending" /\ e[n].seq = Unfinished
      /\ \A s \in DOMAIN entries : /\ IsEntry(e[s])
                                   /\ e[s].status = entries[s].status
                                   /\ e[s].seq = entries[s].seq
  <2>1. DOMAIN e = DOMAIN entries \cup {n} /\ e[n] = NewEntry(p, Current(p).depth + 1, {}, "Pending")
        OBVIOUS
  <2>2. IsEntry(e[n]) /\ e[n].status = "Pending" /\ e[n].seq = Unfinished
        BY <2>1 DEF IsEntry, NewEntry
  <2>3. ASSUME NEW s \in DOMAIN entries
        PROVE  IsEntry(e[s]) /\ e[s].status = entries[s].status /\ e[s].seq = entries[s].seq
    <3>1. e[s] = entries[s] \/ e[s] = [entries[s] EXCEPT !.kids = @ \cup {n}]
          BY <1>7
    <3>2. IsEntry(entries[s])
          BY <1>7
    <3> HIDE DEF e
    <3> QED BY <3>1, <3>2 DEF IsEntry
  <2> QED BY <2>1, <2>2, <2>3
<1>9. DOMAIN i = DOMAIN index \cup {n}
      OBVIOUS
<1> HIDE DEF e, i
<1>10. /\ DOMAIN entries' \subseteq DOMAIN e
       /\ \A s \in DOMAIN entries' : /\ entries'[s].status = e[s].status
                                     /\ entries'[s].seq = e[s].seq
       /\ \A s \in DOMAIN e \ DOMAIN entries' : e[s].seq # Unfinished
       /\ \A a \in DOMAIN i \ DOMAIN index' :
             \E s \in DOMAIN e \ DOMAIN entries' : owner[s] = a
      BY <1>2, <1>8, PruneKeeps
<1>11. Occupied' \subseteq Occupied \cup {n} /\ n \notin Occupied
      BY <1>7, <1>8, <1>10 DEF Occupied
<1>12. Counted \cup {n} \subseteq Counted'
  <2>1. n \in Counted'
        BY <1>8, <1>10 DEF Counted, Occupied, Occupying
  <2>2. ASSUME NEW s \in Counted PROVE s \in Counted'
    <3>1. s \in DOMAIN entries /\ entries[s].status \in Occupying /\ entries[s].seq = Unfinished
          BY DEF Counted, Occupied
    <3> QED BY <1>8, <1>10, <3>1 DEF Counted, Occupied
  <2> QED BY <2>1, <2>2
<1> HIDE DEF n
<1>13. Slots' /\ active' \in Nat
      BY <1>0, <1>2, <1>11, <1>12, TakeKeepsSlots DEF SlotsInv
<1>14. RootIndexed'
  <2> SUFFICES ASSUME Root \in DOMAIN entries', Root \notin DOMAIN index' PROVE FALSE
      BY DEF RootIndexed
  <2>1. Root \in DOMAIN i
        BY <1>1, <1>8, <1>9, <1>10 DEF SlotsInv, RootIndexed, Root
  <2>2. PICK s \in DOMAIN e \ DOMAIN entries' : owner[s] = Root
        BY <1>10, <2>1
  <2>3. s \in DOMAIN owner
        BY <1>8, <1>10, <2>2 DEF Registry, EntriesSound
  <2>4. s = Root
        BY <2>2, <2>3 DEF Registry, RunsNumbered
  <2> QED BY <2>2, <2>4
<1>15. Numbers'
      BY <1>2, <1>3, <1>13 DEF Numbers, SlotsInv
<1>16. ASSUME NEW b, Spawned(b) PROVE Spares(b)
  <2>1. b \in DOMAIN owner
        BY <1>16, SpawnedRun DEF SlotsInv
  <2>2. b # n
        BY <1>1, <2>1
  <2>3. b \in DOMAIN entries' => b \in DOMAIN entries /\ entries'[b].status = entries[b].status
        BY <1>8, <1>10, <2>2
  <2> QED BY <1>2, <1>3, <2>2, <2>3 DEF Spares
<1>17. n \in DOMAIN entries' => entries'[n].status = "Pending"
      BY <1>8, <1>10
<1> QED BY <1>0, <1>1, <1>3, <1>4, <1>13, <1>14, <1>15, <1>16, <1>17 DEF n

\* A resumed run takes a slot, and is no agent's first run.
LEMMA ResumeTakes ==
    ASSUME Registry, Registry', SlotsInv, NEW c \in Calls, Resume(c)
    PROVE  /\ RootIndexed' /\ Numbers' /\ Slots' /\ OwnersStay
           /\ \A b : Spawned(b) => Spares(b)
           /\ Len(owner) + 1 # call[c].agent
<1> DEFINE a == call[c].agent
           n == Len(owner) + 1
<1>0. RunsOnly /\ RunsOnly' /\ OwnersStay
      BY ResumeKeeps DEF Registry, RunsOnly
<1>1. /\ call[c].stage = "resume" /\ Present(a)
      BY DEF Resume, Resumable
<1>2. /\ owner' = Append(owner, a) /\ revived' = revived /\ active' = active + 1
      /\ DOMAIN index' = DOMAIN index
      BY DEF Resume, ghosts
<1>3. PICK holder, old : entries' = [t \in DOMAIN entries \cup {n} |->
                     IF t = n THEN Successor(a)
                     ELSE IF t = holder
                     THEN [entries[t] EXCEPT !.kids = (@ \ {old}) \cup {n}]
                     ELSE entries[t]]
      BY DEF Resume
<1>4. owner \in Seq(Nat) /\ n \in Nat /\ n > 1 /\ n \notin DOMAIN owner /\ DOMAIN owner = 1..Len(owner)
      BY DEF Registry, RunsNumbered
<1>5. a \in 1..Len(owner)
      BY <1>1, <1>4 DEF Present, Registry, RunsNumbered, IndexSound, EntriesSound
<1>6. /\ DOMAIN owner' = DOMAIN owner \cup {n}
      /\ owner'[n] = a /\ \A s \in DOMAIN owner : owner'[s] = owner[s]
      BY <1>2, <1>4, <1>5
<1>7. \A s \in DOMAIN entries : IsEntry(entries[s]) /\ s # n
      BY <1>4 DEF Registry, EntriesSound
<1>8. /\ DOMAIN entries' = DOMAIN entries \cup {n}
      /\ entries'[n].status = "Running" /\ entries'[n].seq = Unfinished
      /\ \A s \in DOMAIN entries :
             \/ entries'[s] = entries[s]
             \/ entries'[s] = [entries[s] EXCEPT !.kids = (@ \ {old}) \cup {n}]
      BY <1>3, <1>7 DEF Successor, NewEntry
<1>9. \A s \in DOMAIN entries : entries'[s].status = entries[s].status /\ entries'[s].seq = entries[s].seq
      BY <1>7, <1>8 DEF IsEntry
<1>10. Occupied' = Occupied \cup {n} /\ n \notin Occupied
       BY <1>7, <1>8, <1>9 DEF Occupied, Occupying
<1>11. Counted \cup {n} \subseteq Counted'
       BY <1>8, <1>9, <1>10 DEF Counted, Occupied
<1>12. Occupied \subseteq DOMAIN owner
       BY DEF Registry, EntriesSound, Occupied
<1>13. a # n
       BY <1>4, <1>5
<1> HIDE DEF n
<1>14. Firsts' \subseteq Firsts
       BY <1>6, <1>10, <1>12, <1>13 DEF Firsts
<1>15. Slots' /\ active' \in Nat
       BY <1>0, <1>2, <1>10, <1>11, <1>14, TakeKeepsSlots DEF SlotsInv
<1>16. RootIndexed' /\ Numbers'
       BY <1>2, <1>4, <1>6, <1>8, <1>15 DEF RootIndexed, Numbers, SlotsInv, Root
<1>17. ASSUME NEW b, Spawned(b) PROVE Spares(b)
  <2>1. PICK d \in Calls : call[d].stage = "spawned" /\ call[d].agent = b
        BY <1>17 DEF Spawned
  <2>2. a # b
        BY <1>1, <2>1 DEF SlotsInv, LaunchesSound, Untouched
  <2>3. b \in DOMAIN owner
        BY <1>17, SpawnedRun DEF SlotsInv
  <2>4. b # n
        BY <1>4, <2>3
  <2>5. b \in DOMAIN entries' => b \in DOMAIN entries /\ entries'[b].status = entries[b].status
        BY <1>8, <1>9, <2>4
  <2> QED BY <1>2, <1>6, <2>2, <2>5 DEF Spares
<1> QED BY <1>0, <1>13, <1>15, <1>16, <1>17 DEF n

\* A launch makes its child run: it is pending, or closed and then counted apart.
LEMMA MarkRunningTakes ==
    ASSUME Registry, Registry', SlotsInv, NEW c \in Calls, MarkRunning(c)
    PROVE  /\ RootIndexed' /\ Numbers' /\ Slots' /\ OwnersStay
           /\ \A b : Spawned(b) /\ b # call[c].agent => Spares(b)
<1> DEFINE a == call[c].agent
<1>0. RunsOnly /\ RunsOnly' /\ UNCHANGED <<owner, index, active>> /\ call[c].stage = "spawned"
      BY DEF Registry, RunsOnly, MarkRunning
<1>1. /\ a \in DOMAIN owner /\ a \notin revived /\ (a \in DOMAIN index => index[a] = a)
      /\ (a \in DOMAIN entries => entries[a].status \in {"Pending", "Terminated"})
  <2>1. Spawned(a)
        BY <1>0 DEF Spawned
  <2> QED BY <2>1, SpawnedRun DEF SlotsInv
<1>2. CASE ~Present(a)
  <2>1. UNCHANGED <<entries, revived>>
        BY <1>2 DEF MarkRunning
  <2> QED BY <1>0, <2>1, StillSteady, SteadyKeeps
<1>3. CASE Present(a)
  <2>1. /\ index[a] = a /\ a \in DOMAIN entries
        BY <1>1, <1>3 DEF Present, Registry, IndexSound
  <2>2. /\ entries' = [entries EXCEPT ![a].status = "Running"]
        /\ revived' = IF entries[a].status = "Terminated" THEN revived \cup {a} ELSE revived
        BY <1>3, <2>1 DEF MarkRunning, Current
  <2> HIDE DEF a
  <2>3. \A s \in DOMAIN entries : IsEntry(entries[s])
        BY <1>0 DEF RunsOnly, EntriesSound
  <2>4. /\ DOMAIN entries' = DOMAIN entries
        /\ \A s \in DOMAIN entries : s # a => entries'[s] = entries[s]
        /\ entries'[a].status = "Running" /\ entries'[a].seq = entries[a].seq
        BY <2>1, <2>2, <2>3 DEF IsEntry
  <2>5. Occupied' = Occupied \cup {a}
        BY <2>1, <2>4 DEF Occupied, Occupying
  <2>6. Counted \subseteq Counted'
        BY <2>4, <2>5 DEF Counted, Occupied
  <2>7. Slots'
    <3>1. CASE entries[a].status = "Terminated"
      <4>1. revived' = revived \cup {a}
            BY <2>2, <3>1
      <4> QED BY <1>0, <1>1, <2>5, <2>6, <4>1, ReviveKeepsSlots DEF SlotsInv, a
    <3>2. CASE entries[a].status = "Pending"
      <4>1. revived' = revived
            BY <2>2, <3>2
      <4>2. Occupied' = Occupied
            BY <2>1, <2>5, <3>2 DEF Occupied, Occupying
      <4>3. Firsts' = Firsts
            BY <1>0, <4>2 DEF Firsts
      <4> QED BY <1>0, <2>6, <4>1, <4>2, <4>3, RestKeepsSlots DEF SlotsInv
    <3> QED BY <1>1, <2>1, <3>1, <3>2 DEF a
  <2>8. RootIndexed' /\ OwnersStay
        BY <1>0, <2>4 DEF RootIndexed, SlotsInv, OwnersStay
  <2>9. Numbers'
        BY <1>0, <1>1, <2>2 DEF Numbers, SlotsInv, a
  <2>10. ASSUME NEW b, b # a PROVE Spares(b)
        BY <1>0, <2>2, <2>4, <2>10 DEF Spares
  <2> QED BY <2>7, <2>8, <2>9, <2>10 DEF a
<1> QED BY <1>2, <1>3

\* The runs part of a step that is not the start, resume or end of one.
LEMMA QuietSends ==
    ASSUME Registry, Registry', SlotsInv, NEW c \in Calls, Sends(c), ~ Resume(c)
    PROVE  /\ RootIndexed' /\ Numbers' /\ Slots' /\ OwnersStay
           /\ \A b : Spares(b)
<1>0. RunsOnly /\ RunsOnly' /\ UNCHANGED <<owner, index, revived, active>>
      BY DEF Registry, RunsOnly, Sends, SendReads, SendDrains, ResumeRefused, SendSubmits,
             SendNotSubmitted, RestoreOne, SendQueues, ghosts
<1> DEFINE a == call[c].agent
<1>1. \/ entries' = entries
      \/ a \in DOMAIN index /\ \E box : entries' = [entries EXCEPT ![index[a]].inbox = box]
  <2>1. CASE SendReads(c) \/ ResumeRefused(c) \/ SendSubmits(c) \/ SendNotSubmitted(c)
        BY <2>1 DEF SendReads, ResumeRefused, SendSubmits, SendNotSubmitted
  <2>2. CASE SendDrains(c)
        BY <2>2 DEF SendDrains, Present
  <2>3. CASE RestoreOne(c)
        BY <2>3 DEF RestoreOne, Accepts, Present, Push
  <2>4. CASE SendQueues(c)
        BY <2>4 DEF SendQueues, Accepts, Present, Push
  <2> QED BY <2>1, <2>2, <2>3, <2>4 DEF Sends
<1>2. Steady
      BY <1>0, <1>1, StillSteady, BoxSteady
<1> QED BY <1>0, <1>2, SteadyKeeps

\* A message's steps go on with the call of an agent that has been launched.
LEMMA SendsLaunches ==
    ASSUME Registry, Registry', SlotsInv, NEW c \in Calls, Sends(c), OwnersStay,
           \A b : Spawned(b) => Spares(b)
    PROVE  LaunchesSound' /\ AgentsKnown'
<1>0. /\ IsCall(call[c]) /\ DOMAIN call = Calls /\ watched' = watched /\ LaunchesSound /\ AgentsKnown
      /\ call[c].then \in {"queue", "done"}
      BY DEF Registry, CallsSound, CallSound, SlotsInv, Sends, SendReads, SendDrains, Resume,
             ResumeRefused, SendSubmits, SendNotSubmitted, RestoreOne, SendQueues
<1>1. /\ \A d \in Calls \ {c} : call'[d] = call[d]
      /\ call'[c].agent = call[c].agent
      /\ call'[c].stage \in {"done", "drain", "queue", "resume", "submit", "restore"}
      /\ call'[c].stage = "submit" => call[c].stage = "resume" /\ call'[c].run = Len(owner) + 1
      /\ call'[c].stage = "resume" => call[c].stage = "drain"
      /\ call'[c].stage = "drain" =>
            /\ call[c].stage = "found" /\ call[c].agent \in DOMAIN index
            /\ entries[index[call[c].agent]].status = "Idle"
  <2>1. CASE SendReads(c)
    <3>1. PICK stage \in {"done", "drain", "queue"} :
             /\ call' = [call EXCEPT ![c].stage = stage]
             /\ stage = "drain" => /\ call[c].stage = "found" /\ call[c].agent \in DOMAIN index
                                   /\ entries[index[call[c].agent]].status = "Idle"
          BY <2>1 DEF SendReads, Step, Present, Current
    <3> QED BY <1>0, <3>1 DEF IsCall
  <2>2. CASE SendDrains(c)
    <3>1. /\ call[c].stage = "drain"
          /\ \E taken : \/ call' = [call EXCEPT ![c].stage = "resume", ![c].taken = taken]
                        \/ call' = [call EXCEPT ![c].stage = "resume"]
          BY <2>2 DEF SendDrains, Step
    <3> QED BY <1>0, <3>1 DEF IsCall
  <2>3. CASE Resume(c)
    <3>1. call[c].stage = "resume" /\ call' = [call EXCEPT ![c].stage = "submit", ![c].run = Len(owner) + 1]
          BY <2>3 DEF Resume
    <3> QED BY <1>0, <3>1 DEF IsCall
  <2>4. CASE ResumeRefused(c) \/ SendNotSubmitted(c)
    <3>1. PICK then : call' = [call EXCEPT ![c].stage = "restore", ![c].then = then]
          BY <2>4 DEF ResumeRefused, SendNotSubmitted
    <3> QED BY <1>0, <3>1 DEF IsCall
  <2>5. CASE SendSubmits(c)
    <3>1. call' = [call EXCEPT ![c].stage = "done", ![c].taken = <<>>]
          BY <2>5 DEF SendSubmits
    <3> QED BY <1>0, <3>1 DEF IsCall
  <2>6. CASE RestoreOne(c)
    <3>1. call[c].stage = "restore"
          /\ \/ call' = [call EXCEPT ![c].taken = Tail(@)]
             \/ call' = [call EXCEPT ![c].stage = call[c].then, ![c].taken = <<>>]
          BY <2>6 DEF RestoreOne
    <3> QED BY <1>0, <3>1 DEF IsCall
  <2>7. CASE SendQueues(c)
    <3>1. call' = [call EXCEPT ![c].stage = "done"]
          BY <2>7 DEF SendQueues, Over, Step
    <3> QED BY <1>0, <3>1 DEF IsCall
  <2> QED BY <2>1, <2>2, <2>3, <2>4, <2>5, <2>6, <2>7 DEF Sends
<1>2. Launching(call'[c]) => Launching(call[c]) /\ call'[c].agent = call[c].agent
  <2> SUFFICES ASSUME Launching(call'[c]) PROVE FALSE
      OBVIOUS
  <2>1. /\ call'[c].stage = "submit" /\ call[c].stage = "resume" /\ Len(owner) + 1 = call[c].agent
        BY <1>1 DEF Launching
  <2>2. call[c].agent \in DOMAIN owner
        BY <1>0, <2>1 DEF AgentsKnown
  <2>3. owner \in Seq(Nat)
        BY DEF Registry, RunsNumbered
  <2> QED BY <2>1, <2>2, <2>3
<1>3. call'[c].stage = "drain" => ~ Spawned(call[c].agent)
  <2> SUFFICES ASSUME call'[c].stage = "drain", Spawned(call[c].agent) PROVE FALSE
      OBVIOUS
  <2>1. index[call[c].agent] = call[c].agent /\ entries[call[c].agent].status = "Idle"
        BY <1>0, <1>1, SpawnedRun
  <2>2. call[c].agent \in DOMAIN entries
        BY <1>1, <2>1 DEF Registry, IndexSound
  <2> QED BY <1>0, <2>1, <2>2, SpawnedRun
<1>4. LaunchesSound'
  <2>1. \A d \in Calls \ {c} : call[d].stage = "spawned" =>
               Spares(call[d].agent) /\ call[d].agent \notin watched' \ watched
        BY <1>0 DEF Spawned
  <2> QED BY <1>0, <1>1, <1>2, <1>3, <2>1, OneGoesOn
<1>5. AgentsKnown'
  <2>1. call'[c].stage \in {"found", "drain", "resume"} => call'[c].agent \in DOMAIN owner'
        BY <1>0, <1>1 DEF AgentsKnown, OwnersStay
  <2> QED BY <1>0, <1>1, <2>1, KnownStay
<1> QED BY <1>4, <1>5

\* A call that goes to a stage of no interest here.
LEMMA PlainLaunches ==
    ASSUME SlotsInv, NEW c \in Calls, OwnersStay, \A d \in Calls \ {c} : call'[d] = call[d],
           call'[c].stage \in {"found", "closing", "done"},
           call'[c].stage = "found" => call'[c].agent \in DOMAIN owner,
           watched' \subseteq watched,
           \A b : Spawned(b) => Spares(b)
    PROVE  LaunchesSound' /\ AgentsKnown'
<1>1. ~ Launching(call'[c])
      BY DEF Launching
<1>2. \A d \in Calls \ {c} : call[d].stage = "spawned" =>
               Spares(call[d].agent) /\ call[d].agent \notin watched' \ watched
      BY DEF Spawned
<1>3. LaunchesSound'
      BY <1>1, <1>2, OneGoesOn DEF SlotsInv
<1>4. AgentsKnown'
      BY KnownStay DEF SlotsInv, OwnersStay
<1> QED BY <1>3, <1>4

LEMMA MarkRunningLaunches ==
    ASSUME Registry, Registry', SlotsInv, NEW c \in Calls, MarkRunning(c), OwnersStay,
           \A b : Spawned(b) /\ b # call[c].agent => Spares(b)
    PROVE  LaunchesSound' /\ AgentsKnown'
<1>0. /\ IsCall(call[c]) /\ DOMAIN call = Calls /\ watched' = watched /\ LaunchesSound /\ AgentsKnown
      /\ call[c].stage = "spawned" /\ call[c].run = call[c].agent
      BY DEF Registry, CallsSound, CallSound, SlotsInv, MarkRunning
<1>1. PICK stage \in {"submit", "done"} : call' = [call EXCEPT ![c].stage = stage]
      BY DEF MarkRunning, Step, Over
<1>2. /\ \A d \in Calls \ {c} : call'[d] = call[d]
      /\ call'[c].agent = call[c].agent /\ call'[c].run = call[c].run /\ call'[c].stage = stage
      BY <1>0, <1>1 DEF IsCall
<1>3. Launching(call[c])
      BY <1>0 DEF Launching
<1>4. \A d \in Calls \ {c} : call[d].stage = "spawned" =>
               Spares(call[d].agent) /\ call[d].agent \notin watched' \ watched
  <2> SUFFICES ASSUME NEW d \in Calls \ {c}, call[d].stage = "spawned"
               PROVE  Spares(call[d].agent)
      BY <1>0
  <2>1. call[c].agent # call[d].agent
        BY <1>0, <1>3 DEF LaunchesSound
  <2> QED BY <2>1 DEF Spawned
<1>5. LaunchesSound'
      BY <1>0, <1>2, <1>3, <1>4, OneGoesOn
<1>6. AgentsKnown'
      BY <1>0, <1>2, KnownStay
<1> QED BY <1>5, <1>6

LEMMA LaunchEndsLaunches ==
    ASSUME Registry, Registry', SlotsInv, NEW c \in Calls, LaunchSubmits(c) \/ LaunchFails(c)
    PROVE  /\ RootIndexed' /\ Numbers' /\ Slots' /\ LaunchesSound' /\ AgentsKnown'
<1>0. /\ IsCall(call[c]) /\ DOMAIN call = Calls /\ LaunchesSound /\ AgentsKnown
      /\ call[c].stage = "submit" /\ call[c].run = call[c].agent
      /\ watched' \subseteq watched \cup {call[c].run}
      /\ UNCHANGED <<owner, entries, index, revived, active>>
      BY DEF Registry, CallsSound, CallSound, SlotsInv, LaunchSubmits, LaunchFails, ghosts
<1>1. RootIndexed' /\ Numbers' /\ Slots' /\ OwnersStay /\ \A a : Spares(a)
      BY <1>0, StillSteady, SteadyKeeps DEF Registry, RunsOnly
<1>2. call' = [call EXCEPT ![c].stage = "done"]
      BY DEF LaunchSubmits, LaunchFails, Over, Step
<1>3. /\ \A d \in Calls \ {c} : call'[d] = call[d]
      /\ call'[c].agent = call[c].agent /\ call'[c].run = call[c].run /\ call'[c].stage = "done"
      BY <1>0, <1>2 DEF IsCall
<1>4. Launching(call[c])
      BY <1>0 DEF Launching
<1>5. \A d \in Calls \ {c} : call[d].stage = "spawned" =>
               Spares(call[d].agent) /\ call[d].agent \notin watched' \ watched
  <2> SUFFICES ASSUME NEW d \in Calls \ {c}, call[d].stage = "spawned"
               PROVE  call[c].agent # call[d].agent
      BY <1>0, <1>1
  <2> QED BY <1>0, <1>4 DEF LaunchesSound
<1>6. LaunchesSound'
      BY <1>0, <1>3, <1>4, <1>5, OneGoesOn
<1>7. AgentsKnown'
      BY <1>0, <1>1, <1>3, KnownStay
<1> QED BY <1>1, <1>6, <1>7

\* A spawned agent is new: nobody else knows it.
LEMMA SpawnLaunches ==
    ASSUME Registry, Registry', SlotsInv, NEW c \in Calls, NEW p \in SubIds, Spawn(c, p)
    PROVE  LaunchesSound' /\ AgentsKnown'
<1> DEFINE n == Len(owner) + 1
<1>0. /\ IsCall(call[c]) /\ DOMAIN call = Calls /\ LaunchesSound /\ AgentsKnown
      /\ watched' = watched /\ revived' = revived
      /\ call' = [call EXCEPT ![c].stage = "spawned", ![c].by = p, ![c].agent = n, ![c].run = n]
      BY DEF Registry, CallsSound, CallSound, SlotsInv, Spawn, Start
<1>1. /\ OwnersStay /\ \A b : Spawned(b) => Spares(b)
      /\ n \in DOMAIN entries' => entries'[n].status = "Pending"
      /\ n \notin DOMAIN owner
      /\ \A s \in DOMAIN owner' : owner'[s] = n => s = n
      BY SpawnTakes
<1> HIDE DEF n
<1>2. /\ \A d \in Calls \ {c} : call'[d] = call[d]
      /\ call'[c].agent = n /\ call'[c].run = n /\ call'[c].stage = "spawned"
      BY <1>0 DEF IsCall
<1>3. n \notin watched /\ n \notin revived
      BY <1>1 DEF Registry, WatchedSound, SlotsInv, Numbers
<1>4. \A d \in Calls : call'[d].stage \in {"drain", "resume"} => call'[d].agent # n
  <2> SUFFICES ASSUME NEW d \in Calls, call'[d].stage \in {"drain", "resume"} PROVE call'[d].agent # n
      OBVIOUS
  <2>1. call'[d] = call[d]
        BY <1>2
  <2> QED BY <1>0, <1>1, <2>1 DEF AgentsKnown
<1>5. \A d \in Calls \ {c} : Launching(call[d]) => call[d].agent # n
  <2> SUFFICES ASSUME NEW d \in Calls \ {c}, Launching(call[d]) PROVE call[d].agent # n
      OBVIOUS
  <2>1. CallSound(call[d])
        BY DEF Registry, CallsSound
  <2> QED BY <1>1, <2>1 DEF Launching, CallSound
<1>6. LaunchesSound'
  <2> SUFFICES ASSUME NEW d \in Calls, call'[d].stage = "spawned", NEW a, call'[d].agent = a
               PROVE  /\ Untouched(a)'
                      /\ \A f \in Calls \ {d} : Launching(call'[f]) => call'[f].agent # a
      BY DEF LaunchesSound, Launching, Untouched
  <2>1. CASE d = c
    <3>1. a = n
          BY <1>2, <2>1
    <3>2. \A f \in Calls \ {d} : Launching(call'[f]) => call'[f].agent # a
          BY <1>2, <1>5, <2>1, <3>1
    <3>3. Untouched(a)'
          BY <1>0, <1>1, <1>3, <1>4, <3>1 DEF Untouched
    <3> QED BY <3>2, <3>3
  <2>2. CASE d # c
    <3>1. call'[d] = call[d] /\ call[d].stage = "spawned" /\ call[d].agent = a
          BY <1>2, <2>2
    <3>2. Untouched(a) /\ Spares(a)
          BY <1>0, <1>1, <3>1 DEF LaunchesSound, Spawned
    <3>3. a # n
      <4>1. Launching(call[d])
        <5>1. CallSound(call[d])
              BY DEF Registry, CallsSound
        <5> QED BY <3>1, <5>1 DEF Launching, CallSound
      <4> QED BY <1>5, <2>2, <3>1, <4>1
    <3>4. \A f \in Calls \ {d} : Launching(call'[f]) => call'[f].agent # a
      <4> SUFFICES ASSUME NEW f \in Calls \ {d}, Launching(call'[f]) PROVE call'[f].agent # a
          OBVIOUS
      <4>1. CASE f = c
            BY <1>2, <3>3, <4>1
      <4>2. CASE f # c
            BY <1>0, <1>2, <3>1, <4>2 DEF LaunchesSound
      <4> QED BY <4>1, <4>2
    <3>5. \A f \in Calls : call'[f].stage \in {"drain", "resume"} => call'[f].agent # a
      <4> SUFFICES ASSUME NEW f \in Calls, call'[f].stage \in {"drain", "resume"} PROVE call'[f].agent # a
          OBVIOUS
      <4>1. f # c
            BY <1>2
      <4> QED BY <1>2, <3>2, <4>1 DEF Untouched
    <3>6. Untouched(a)'
          BY <1>0, <3>2, <3>5 DEF Untouched, Spares
    <3> QED BY <3>4, <3>6
  <2> QED BY <2>1, <2>2
<1>7. AgentsKnown'
      BY <1>0, <1>1, <1>2, KnownStay
<1> QED BY <1>6, <1>7

LEMMA InitSlots == Init => SlotsInv
<1> SUFFICES ASSUME Init PROVE SlotsInv
    OBVIOUS
<1>1. /\ entries = [s \in {} |-> NewEntry(NoAgent, 0, {}, "Running")] /\ DOMAIN entries = {}
      /\ active = 0 /\ revived = {} /\ call = [c \in Calls |-> Waiting]
      BY DEF Init
<1>2. \A c \in Calls : call[c].stage = "idle"
      BY <1>1 DEF Waiting
<1>3. RootIndexed /\ AgentsKnown /\ LaunchesSound /\ Numbers
      BY <1>1, <1>2 DEF RootIndexed, AgentsKnown, LaunchesSound, Numbers
<1>4. Occupied = {} /\ Counted = {} /\ Firsts = {}
      BY <1>1 DEF Occupied, Counted, Firsts
<1>5. Cardinality({}) = 0 /\ MaxConcurrent \in Nat
      BY FS_EmptySet, LimitAssumption
<1>6. Slots
      BY <1>1, <1>4, <1>5, SlotsMeans
<1> QED BY <1>3, <1>6 DEF SlotsInv

LEMMA NextSlots == Registry /\ Registry' /\ SlotsInv /\ [Next]_vars => SlotsInv'
<1> SUFFICES ASSUME Registry, Registry', SlotsInv, [Next]_vars PROVE SlotsInv'
    OBVIOUS
<1>0. /\ RunsOnly /\ RunsOnly' /\ DOMAIN call = Calls
      /\ \A c \in Calls : IsCall(call[c])
      BY DEF Registry, RunsOnly, CallsSound, CallSound
<1>1. CASE RegisterRoot
  <2>1. /\ RootIndexed' /\ Numbers' /\ Slots' /\ OwnersStay /\ \A b : Spawned(b) => Spares(b)
        BY <1>1, RootTakes
  <2>2. UNCHANGED <<call, watched, owner>>
        BY <1>1 DEF RegisterRoot
  <2>3. LaunchesSound'
        BY <2>1, <2>2, NoneGoesOn DEF SlotsInv, Spawned
  <2>4. AgentsKnown'
        BY <2>2 DEF SlotsInv, AgentsKnown
  <2> QED BY <2>1, <2>3, <2>4 DEF SlotsInv
<1>2. ASSUME NEW c \in Calls, NEW p \in SubIds, Spawn(c, p) PROVE SlotsInv'
      BY <1>2, SpawnTakes, SpawnLaunches DEF SlotsInv
<1>3. ASSUME NEW c \in Calls, NEW p \in SubIds,
             \/ SpawnRefused(c, p) \/ \E a \in SubIds : CloseFinds(c, p, a)
             \/ \E a \in SubIds : SendFinds(c, p, a)
      PROVE  SlotsInv'
  <2>1. UNCHANGED <<owner, entries, index, revived, active, watched>>
        BY <1>3 DEF SpawnRefused, CloseFinds, SendFinds, ghosts
  <2>2. RootIndexed' /\ Numbers' /\ Slots' /\ OwnersStay /\ \A a : Spares(a)
        BY <1>0, <2>1, StillSteady, SteadyKeeps
  <2>3. /\ \A d \in Calls \ {c} : call'[d] = call[d]
        /\ call'[c].stage \in {"found", "closing", "done"}
        /\ call'[c].stage = "found" => call'[c].agent \in DOMAIN owner
    <3>1. CASE SpawnRefused(c, p) \/ \E a \in SubIds : CloseFinds(c, p, a)
      <4>1. PICK stage \in {"closing", "done"} : \E a, s :
               call' = [call EXCEPT ![c].stage = stage, ![c].by = p, ![c].agent = a, ![c].run = s]
            BY <3>1 DEF SpawnRefused, CloseFinds, Start
      <4>2. PICK a, s :
               call' = [call EXCEPT ![c].stage = stage, ![c].by = p, ![c].agent = a, ![c].run = s]
            BY <4>1
      <4> QED BY <1>0, <4>2 DEF IsCall
    <3>2. ASSUME NEW a \in SubIds, SendFinds(c, p, a)
          PROVE  /\ \A d \in Calls \ {c} : call'[d] = call[d]
                 /\ call'[c].stage = "found" /\ call'[c].agent = a /\ a \in DOMAIN index
      <4>1. /\ call' = [call EXCEPT ![c].stage = "found", ![c].by = p, ![c].agent = a,
                                    ![c].idle = Current(a).status \notin Occupying]
            /\ a \in DOMAIN index
            BY <3>2 DEF SendFinds
      <4> QED BY <1>0, <4>1 DEF IsCall
    <3>3. \A a \in DOMAIN index : a \in DOMAIN owner
      <4> SUFFICES ASSUME NEW a \in DOMAIN index PROVE a \in DOMAIN owner
          OBVIOUS
      <4>1. index[a] \in DOMAIN owner /\ owner[index[a]] = a
            BY DEF Registry, IndexSound, EntriesSound
      <4>2. owner \in Seq(Nat) /\ owner[index[a]] \in 1..index[a]
            BY <4>1 DEF Registry, RunsNumbered
      <4> QED BY <4>1, <4>2
    <3> QED BY <1>3, <2>1, <3>1, <3>2, <3>3
  <2>4. LaunchesSound' /\ AgentsKnown'
        BY <2>1, <2>2, <2>3, PlainLaunches
  <2> QED BY <2>2, <2>4 DEF SlotsInv
<1>4. ASSUME NEW c \in Calls, MarkRunning(c) PROVE SlotsInv'
      BY <1>4, MarkRunningTakes, MarkRunningLaunches DEF SlotsInv
<1>5. ASSUME NEW c \in Calls, LaunchSubmits(c) \/ LaunchFails(c) PROVE SlotsInv'
      BY <1>5, LaunchEndsLaunches DEF SlotsInv
<1>6. ASSUME NEW c \in Calls, Sends(c) PROVE SlotsInv'
  <2>1. RootIndexed' /\ Numbers' /\ Slots' /\ OwnersStay /\ \A b : Spawned(b) => Spares(b)
        BY <1>6, ResumeTakes, QuietSends
  <2> QED BY <1>6, <2>1, SendsLaunches DEF SlotsInv
<1>7. ASSUME NEW c \in Calls, CloseTerminates(c) \/ CloseFails(c) PROVE SlotsInv'
  <2>1. /\ UNCHANGED <<owner, revived, watched>>
        /\ \/ call' = [call EXCEPT ![c].stage = "done"]
           \/ call' = [call EXCEPT ![c].stage = "done", ![c].agent = NoAgent]
        /\ (Terminate(call[c].agent) \/ UNCHANGED <<entries, index, active>>)
        BY <1>7 DEF CloseTerminates, CloseFails, Over, Step, ghosts
  <2>2. RootIndexed' /\ Numbers' /\ Slots' /\ OwnersStay /\ \A b : Spares(b)
        BY <1>0, <2>1, TerminateEnds, StillSteady, SteadyKeeps
  <2>3. (\A d \in Calls \ {c} : call'[d] = call[d]) /\ call'[c].stage = "done"
        BY <1>0, <2>1 DEF IsCall
  <2>4. LaunchesSound' /\ AgentsKnown'
        BY <2>1, <2>2, <2>3, PlainLaunches
  <2> QED BY <2>2, <2>4 DEF SlotsInv
<1>8. ASSUME NEW c \in Calls, NEW a \in SubIds, UserCloses(c, a) PROVE SlotsInv'
  <2>1. /\ UNCHANGED <<owner, revived, watched>> /\ Terminate(a)
        /\ call' = [call EXCEPT ![c].stage = "done", ![c].by = NoAgent, ![c].agent = a,
                                ![c].run = NoAgent]
        BY <1>8 DEF UserCloses, Start
  <2>2. RootIndexed' /\ Numbers' /\ Slots' /\ OwnersStay /\ \A b : Spares(b)
        BY <1>0, <2>1, TerminateEnds
  <2>3. (\A d \in Calls \ {c} : call'[d] = call[d]) /\ call'[c].stage = "done"
        BY <1>0, <2>1 DEF IsCall
  <2>4. LaunchesSound' /\ AgentsKnown'
        BY <2>1, <2>2, <2>3, PlainLaunches
  <2> QED BY <2>2, <2>4 DEF SlotsInv
<1>9. ASSUME NEW s \in SubIds, TurnEnds(s) \/ Watches(s) PROVE SlotsInv'
  <2>1. UNCHANGED <<owner, call>> /\ watched' \subseteq watched
        BY <1>9 DEF TurnEnds, Watches, CompleteTurn, WatcherFails
  <2>2. RootIndexed' /\ Numbers' /\ Slots' /\ OwnersStay /\ \A b : Spawned(b) => Spares(b)
    <3>1. CASE TurnEnds(s) \/ WatcherFails(s)
      <4>1. UNCHANGED <<owner, entries, index, revived, active>>
            BY <3>1 DEF TurnEnds, WatcherFails, ghosts
      <4> QED BY <1>0, <4>1, StillSteady, SteadyKeeps
    <3>2. CASE CompleteTurn(s)
          BY <3>2, CompleteTurnEnds
    <3> QED BY <1>9, <3>1, <3>2 DEF Watches
  <2>3. LaunchesSound'
        BY <2>1, <2>2, NoneGoesOn DEF SlotsInv, Spawned
  <2>4. AgentsKnown'
        BY <2>1 DEF SlotsInv, AgentsKnown
  <2> QED BY <2>2, <2>3, <2>4 DEF SlotsInv
<1>10. CASE UNCHANGED vars
  <2>1. UNCHANGED <<owner, entries, index, revived, active, call, watched>>
        BY <1>10 DEF vars, ghosts
  <2>2. RootIndexed' /\ Numbers' /\ Slots' /\ OwnersStay /\ \A a : Spares(a)
        BY <1>0, <2>1, StillSteady, SteadyKeeps
  <2>3. LaunchesSound'
        BY <2>1, <2>2, NoneGoesOn DEF SlotsInv
  <2>4. AgentsKnown'
        BY <2>1 DEF SlotsInv, AgentsKnown
  <2> QED BY <2>2, <2>3, <2>4 DEF SlotsInv
<1> QED BY <1>1, <1>2, <1>3, <1>4, <1>5, <1>6, <1>7, <1>8, <1>9, <1>10
        DEF Next, Begins, Continues, Launches

\* What the count of slots rests on holds of every state of the registry.
THEOREM SlotsInvariant == Spec => []SlotsInv
<1> QED BY InitSound, NextKeeps, InitSlots, NextSlots, PTL DEF Spec

\* Slots: active_count never exceeds the live runs that were not finalized, the
\* live runs it misses are no more than those set to Running after a close, and
\* no more agents run their first task than the limit and those allow
\* (spawn_with_storage, set_lifecycle, finalize_slot_release).
THEOREM SlotsHold == Spec => []Slots
<1>1. SlotsInv => Slots
      BY DEF SlotsInv
<1> QED BY <1>1, SlotsInvariant, PTL

-----------------------------------------------------------------------------
\* Messages in the order they came, none of them twice.
Box(q) == q \in Seq(Calls) /\ IsInjective(q)

\* Only a send between its drain and its submission has messages in hand.
HandSound(k) ==
    /\ Box(k.taken)
    /\ k.stage \notin {"resume", "submit", "restore"} => k.taken = <<>>
    /\ Launching(k) => k.taken = <<>>

Held(m) == Holders(m) \cup Carriers(m) # {}

\* A message has one holder or one carrier until it is prompted or dropped.
OnePlace(m) ==
    /\ \A s, t \in Holders(m) : s = t
    /\ \A c, d \in Carriers(m) : c = d
    /\ Holders(m) = {} \/ Carriers(m) = {}
    /\ Held(m) => m \in accepted /\ m \notin prompted
    /\ m \in accepted \ dropped => Held(m) \/ m \in prompted
    /\ m \in accepted \cup prompted => call[m].stage = "done"

Inboxes == \A s \in DOMAIN entries : Box(entries[s].inbox)
Hands == \A c \in Calls : HandSound(call[c])

\* The inductive invariant of the messages.
MessagesInv == Inboxes /\ Hands /\ accepted \subseteq Calls /\ \A m \in Calls : OnePlace(m)

LEMMA BoxEmpty == Box(<<>>) /\ Range(<<>>) = {}
BY DEF Box, IsInjective, Range

LEMMA BoxRange ==
    ASSUME NEW q, Box(q)
    PROVE  \A m : m \in Range(q) <=> \E i \in 1..Len(q) : q[i] = m
BY DEF Box, Range

LEMMA BoxAppend ==
    ASSUME NEW q, Box(q), NEW m \in Calls, m \notin Range(q)
    PROVE  Box(Append(q, m)) /\ Range(Append(q, m)) = Range(q) \cup {m}
<1> DEFINE r == Append(q, m)
<1>1. q \in Seq(Calls) /\ Len(q) \in Nat /\ DOMAIN q = 1..Len(q) /\ \A i \in 1..Len(q) : q[i] # m
      BY BoxRange DEF Box
<1>2. /\ r \in Seq(Calls) /\ Len(r) = Len(q) + 1 /\ r[Len(q) + 1] = m /\ DOMAIN r = 1..(Len(q) + 1)
      /\ \A i \in 1..Len(q) : r[i] = q[i]
      BY <1>1
<1> HIDE DEF r
<1>3. IsInjective(r)
      BY <1>1, <1>2 DEF IsInjective, Box
<1>4. Box(r)
      BY <1>2, <1>3 DEF Box
<1>5. \A n : n \in Range(r) <=> n \in Range(q) \cup {m}
  <2>1. \A n : n \in Range(r) <=> \E i \in 1..(Len(q) + 1) : r[i] = n
        BY <1>2, <1>4, BoxRange
  <2>2. \A n : n \in Range(q) <=> \E i \in 1..Len(q) : q[i] = n
        BY BoxRange
  <2> QED BY <1>1, <1>2, <2>1, <2>2
<1> QED BY <1>4, <1>5 DEF r

LEMMA BoxTail ==
    ASSUME NEW q, Box(q), q # <<>>
    PROVE  /\ Box(Tail(q)) /\ Head(q) \in Range(q) /\ Head(q) \in Calls
           /\ Range(Tail(q)) = Range(q) \ {Head(q)}
<1> DEFINE r == Tail(q)
<1>1. /\ q \in Seq(Calls) /\ Len(q) \in Nat /\ Len(q) > 0 /\ DOMAIN q = 1..Len(q)
      /\ \A i, j \in 1..Len(q) : q[i] = q[j] => i = j
      BY DEF Box, IsInjective
<1>2. /\ r \in Seq(Calls) /\ Len(r) = Len(q) - 1 /\ DOMAIN r = 1..(Len(q) - 1)
      /\ \A i \in 1..(Len(q) - 1) : r[i] = q[i + 1]
      /\ Head(q) = q[1] /\ q[1] \in Calls
      BY <1>1
<1> HIDE DEF r
<1>3. IsInjective(r)
      BY <1>1, <1>2 DEF IsInjective
<1>4. Box(r)
      BY <1>2, <1>3 DEF Box
<1>5. \A n : n \in Range(q) <=> \E i \in 1..Len(q) : q[i] = n
      BY BoxRange
<1>6. \A n : n \in Range(r) <=> \E i \in 1..(Len(q) - 1) : q[i + 1] = n
      BY <1>2, <1>4, BoxRange
<1>7. ASSUME NEW n PROVE n \in Range(r) <=> n \in Range(q) \ {Head(q)}
  <2>1. n \in Range(r) => n \in Range(q) /\ n # q[1]
    <3>1. ASSUME NEW i \in 1..(Len(q) - 1), q[i + 1] = n PROVE i + 1 \in 1..Len(q) /\ n # q[1]
          BY <1>1, <3>1
    <3> QED BY <1>5, <1>6, <3>1
  <2>2. n \in Range(q) /\ n # q[1] => n \in Range(r)
    <3>1. ASSUME NEW i \in 1..Len(q), q[i] = n, n # q[1]
          PROVE  i - 1 \in 1..(Len(q) - 1) /\ q[(i - 1) + 1] = n
          BY <1>1, <3>1
    <3> QED BY <1>5, <1>6, <3>1
  <2> QED BY <1>2, <2>1, <2>2
<1>8. Head(q) \in Range(q)
      BY <1>1, <1>2, <1>5
<1> QED BY <1>2, <1>4, <1>7, <1>8 DEF r

\* The messages an inbox loses were dropped.
InboxesEmptied ==
    /\ \A s \in DOMAIN entries' :
          \/ entries'[s].inbox = <<>>
          \/ s \in DOMAIN entries /\ entries'[s].inbox = entries[s].inbox
    /\ \A s \in DOMAIN entries :
          \/ s \in DOMAIN entries' /\ entries'[s].inbox = entries[s].inbox
          \/ Range(entries[s].inbox) \subseteq dropped'

\* The messages a call lets go of were dropped or prompted, and what is done stays done.
HandsEmptied ==
    \A c \in Calls :
       /\ HandSound(call'[c])
       /\ \/ call'[c].taken = call[c].taken
          \/ call'[c].taken = <<>> /\ Range(call[c].taken) \subseteq dropped' \cup prompted'
       /\ call[c].stage = "done" => call'[c].stage = "done"

\* Messages that stay where they are, or go for good, are in one place.
LEMMA EmptiedKeeps ==
    ASSUME MessagesInv, InboxesEmptied, HandsEmptied, UNCHANGED accepted,
           dropped \subseteq dropped', prompted \subseteq prompted',
           \A m \in prompted' \ prompted : ~Held(m)' /\ call'[m].stage = "done"
    PROVE  MessagesInv'
<1>1. ASSUME NEW m \in Calls PROVE OnePlace(m)'
  <2>1. OnePlace(m)
        BY DEF MessagesInv
  <2>2. Holders(m)' \subseteq Holders(m) /\ (Holders(m)' = Holders(m) \/ m \in dropped')
    <3>1. ASSUME NEW s \in Holders(m)' PROVE s \in Holders(m)
          BY <3>1, BoxEmpty DEF Holders, InboxesEmptied
    <3>2. ASSUME NEW s \in Holders(m) PROVE s \in Holders(m)' \/ m \in dropped'
          BY <3>2 DEF Holders, InboxesEmptied
    <3> QED BY <3>1, <3>2
  <2>3. Carriers(m)' \subseteq Carriers(m) /\ (Carriers(m)' = Carriers(m) \/ m \in dropped' \cup prompted')
    <3>1. ASSUME NEW c \in Carriers(m)' PROVE c \in Carriers(m)
          BY <3>1, BoxEmpty DEF Carriers, HandsEmptied
    <3>2. ASSUME NEW c \in Carriers(m) PROVE c \in Carriers(m)' \/ m \in dropped' \cup prompted'
          BY <3>2 DEF Carriers, HandsEmptied
    <3> QED BY <3>1, <3>2
  <2>4. call[m].stage = "done" => call'[m].stage = "done"
        BY DEF HandsEmptied
  <2> QED BY <2>1, <2>2, <2>3, <2>4 DEF OnePlace, Held
<1>2. Inboxes'
      BY BoxEmpty DEF MessagesInv, Inboxes, InboxesEmptied
<1>3. Hands'
      BY DEF Hands, HandsEmptied
<1> QED BY <1>1, <1>2, <1>3 DEF MessagesInv

\* One inbox is replaced, and nothing else of any run.
OneBox(s, box) ==
    /\ s \in DOMAIN entries /\ DOMAIN entries' = DOMAIN entries
    /\ entries'[s].inbox = box
    /\ \A t \in DOMAIN entries \ {s} : entries'[t].inbox = entries[t].inbox

\* One call goes on with these messages in hand.
OneHand(c, hand) ==
    /\ call'[c].taken = hand /\ HandSound(call'[c])
    /\ \A d \in Calls \ {c} : call'[d] = call[d]
    /\ call[c].stage # "done"

LEMMA OneBoxHolds ==
    ASSUME NEW s, NEW box, OneBox(s, box), NEW m
    PROVE  Holders(m)' = (Holders(m) \ {s}) \cup (IF m \in Range(box) THEN {s} ELSE {})
BY DEF OneBox, Holders

LEMMA OneHandHolds ==
    ASSUME NEW c \in Calls, NEW hand, OneHand(c, hand), NEW m
    PROVE  Carriers(m)' = (Carriers(m) \ {c}) \cup (IF m \in Range(hand) THEN {c} ELSE {})
BY DEF OneHand, Carriers

\* A drain: what the inbox held is in the call's hand.
LEMMA DrainKeeps ==
    ASSUME MessagesInv, NEW c \in Calls, NEW s \in DOMAIN entries,
           OneBox(s, <<>>), OneHand(c, entries[s].inbox), call[c].taken = <<>>,
           UNCHANGED <<accepted, prompted, dropped>>
    PROVE  MessagesInv'
<1>1. ASSUME NEW m \in Calls PROVE OnePlace(m)'
  <2>1. OnePlace(m)
        BY DEF MessagesInv
  <2>2. /\ Holders(m)' = Holders(m) \ {s} /\ c \notin Carriers(m)
        /\ Carriers(m)' = Carriers(m) \cup (IF s \in Holders(m) THEN {c} ELSE {})
    <3>1. Holders(m)' = (Holders(m) \ {s}) \cup (IF m \in Range(<<>>) THEN {s} ELSE {})
          BY OneBoxHolds
    <3>2. Carriers(m)' = (Carriers(m) \ {c}) \cup (IF m \in Range(entries[s].inbox) THEN {c} ELSE {})
          BY OneHandHolds
    <3>3. c \notin Carriers(m) /\ (m \in Range(entries[s].inbox) <=> s \in Holders(m))
          BY BoxEmpty DEF Carriers, Holders
    <3> QED BY <3>1, <3>2, <3>3, BoxEmpty
  <2>3. call[m].stage = "done" => call'[m].stage = "done"
        BY DEF OneHand
  <2> QED BY <2>1, <2>2, <2>3 DEF OnePlace, Held
<1>2. Inboxes'
      BY BoxEmpty DEF MessagesInv, Inboxes, OneBox
<1>3. Hands'
      BY DEF MessagesInv, Hands, OneHand
<1> QED BY <1>1, <1>2, <1>3 DEF MessagesInv

\* A restore: the first message in hand is the inbox's last.
LEMMA RestoreKeeps ==
    ASSUME MessagesInv, NEW c \in Calls, NEW s \in DOMAIN entries, call[c].taken # <<>>,
           OneBox(s, Append(entries[s].inbox, Head(call[c].taken))), OneHand(c, Tail(call[c].taken)),
           UNCHANGED <<accepted, prompted, dropped>>
    PROVE  MessagesInv'
<1> DEFINE h == Head(call[c].taken)
<1>0. /\ Box(call[c].taken) /\ Box(entries[s].inbox)
      BY DEF MessagesInv, Hands, HandSound, Inboxes
<1>1. /\ h \in Range(call[c].taken) /\ h \in Calls
      /\ Range(Tail(call[c].taken)) = Range(call[c].taken) \ {h}
      BY <1>0, BoxTail
<1>2. c \in Carriers(h) /\ OnePlace(h)
      BY <1>1 DEF Carriers, MessagesInv
<1>3. h \notin Range(entries[s].inbox)
      BY <1>2 DEF OnePlace, Holders
<1>4. /\ Box(Append(entries[s].inbox, h))
      /\ Range(Append(entries[s].inbox, h)) = Range(entries[s].inbox) \cup {h}
      BY <1>0, <1>1, <1>3, BoxAppend
<1>5. ASSUME NEW m \in Calls PROVE OnePlace(m)'
  <2>1. OnePlace(m)
        BY DEF MessagesInv
  <2>2. /\ Holders(m)' = Holders(m) \cup (IF m = h THEN {s} ELSE {})
        /\ Carriers(m)' = Carriers(m) \ (IF m = h THEN {c} ELSE {})
    <3>1. Holders(m)' = (Holders(m) \ {s})
                \cup (IF m \in Range(Append(entries[s].inbox, h)) THEN {s} ELSE {})
          BY OneBoxHolds
    <3>2. Carriers(m)' = (Carriers(m) \ {c}) \cup (IF m \in Range(Tail(call[c].taken)) THEN {c} ELSE {})
          BY OneHandHolds
    <3>3. /\ m \in Range(entries[s].inbox) <=> s \in Holders(m)
          /\ m \in Range(call[c].taken) <=> c \in Carriers(m)
          BY DEF Carriers, Holders
    <3> QED BY <1>1, <1>4, <3>1, <3>2, <3>3
  <2>3. call[m].stage = "done" => call'[m].stage = "done"
        BY DEF OneHand
  <2> QED BY <1>2, <2>1, <2>2, <2>3 DEF OnePlace, Held
<1>6. Inboxes'
      BY <1>4 DEF MessagesInv, Inboxes, OneBox
<1>7. Hands'
      BY DEF MessagesInv, Hands, OneHand
<1> QED BY <1>5, <1>6, <1>7 DEF MessagesInv

\* A message is queued: it was nowhere before.
LEMMA QueueKeeps ==
    ASSUME MessagesInv, NEW c \in Calls, NEW s \in DOMAIN entries,
           OneBox(s, Append(entries[s].inbox, c)), OneHand(c, <<>>), call[c].taken = <<>>,
           call'[c].stage = "done", accepted' = accepted \cup {c}, UNCHANGED <<prompted, dropped>>
    PROVE  MessagesInv'
<1>1. OnePlace(c) /\ c \notin accepted \cup prompted /\ Holders(c) = {} /\ Carriers(c) = {}
  <2>1. OnePlace(c) /\ call[c].stage # "done"
        BY DEF MessagesInv, OneHand
  <2> QED BY <2>1 DEF OnePlace, Held
<1>2. Box(entries[s].inbox) /\ c \notin Range(entries[s].inbox)
      BY <1>1 DEF MessagesInv, Inboxes, Holders
<1>3. /\ Box(Append(entries[s].inbox, c))
      /\ Range(Append(entries[s].inbox, c)) = Range(entries[s].inbox) \cup {c}
      BY <1>2, BoxAppend
<1>4. ASSUME NEW m \in Calls PROVE OnePlace(m)'
  <2>1. OnePlace(m)
        BY DEF MessagesInv
  <2>2. /\ Holders(m)' = Holders(m) \cup (IF m = c THEN {s} ELSE {})
        /\ Carriers(m)' = Carriers(m)
    <3>1. Holders(m)' = (Holders(m) \ {s})
                \cup (IF m \in Range(Append(entries[s].inbox, c)) THEN {s} ELSE {})
          BY OneBoxHolds
    <3>2. Carriers(m)' = (Carriers(m) \ {c}) \cup (IF m \in Range(<<>>) THEN {c} ELSE {})
          BY OneHandHolds
    <3>3. /\ m \in Range(entries[s].inbox) <=> s \in Holders(m)
          /\ c \notin Carriers(m)
          BY BoxEmpty DEF Carriers, Holders
    <3> QED BY <1>3, <3>1, <3>2, <3>3, BoxEmpty
  <2>3. call[m].stage = "done" => call'[m].stage = "done"
        BY DEF OneHand
  <2> QED BY <1>1, <2>1, <2>2, <2>3 DEF OnePlace, Held
<1>5. Inboxes'
      BY <1>3 DEF MessagesInv, Inboxes, OneBox
<1>6. Hands'
      BY DEF MessagesInv, Hands, OneHand
<1> QED BY <1>4, <1>5, <1>6 DEF MessagesInv

LEMMA HandEmpty == ASSUME NEW k, k.taken = <<>> PROVE HandSound(k)
BY BoxEmpty DEF HandSound

\* One call goes on, and lets go at most of all it has in hand.
LEMMA OneLetsGo ==
    ASSUME Hands, NEW c \in Calls, \A d \in Calls \ {c} : call'[d] = call[d], HandSound(call'[c]),
           \/ call'[c].taken = call[c].taken
           \/ call'[c].taken = <<>> /\ Range(call[c].taken) \subseteq dropped' \cup prompted',
           call[c].stage = "done" => call'[c].stage = "done"
    PROVE  HandsEmptied
<1>1. ASSUME NEW d \in Calls
      PROVE  /\ HandSound(call'[d])
             /\ \/ call'[d].taken = call[d].taken
                \/ call'[d].taken = <<>> /\ Range(call[d].taken) \subseteq dropped' \cup prompted'
             /\ call[d].stage = "done" => call'[d].stage = "done"
  <2>1. HandSound(call[d])
        BY DEF Hands
  <2>2. CASE d = c
        BY <2>2
  <2>3. CASE d # c
    <3>1. call'[d] = call[d]
          BY <2>3
    <3> QED BY <2>1, <3>1
  <2> QED BY <2>2, <2>3
<1> QED BY <1>1 DEF HandsEmptied

LEMMA NoneLetsGo == ASSUME Hands, UNCHANGED call PROVE HandsEmptied
<1>1. ASSUME NEW d \in Calls
      PROVE  HandSound(call'[d]) /\ call'[d] = call[d]
  <2>1. HandSound(call[d])
        BY DEF Hands
  <2> QED BY <2>1
<1> QED BY <1>1 DEF HandsEmptied

LEMMA BoxesStill ==
    ASSUME DOMAIN entries' = DOMAIN entries,
           \A s \in DOMAIN entries : entries'[s].inbox = entries[s].inbox
    PROVE  InboxesEmptied
BY DEF InboxesEmptied

\* A prune drops what was in the inboxes it takes away.
LEMMA PruneBoxes ==
    ASSUME NEW STATE e, NEW STATE i, NEW STATE cleared, PruneTo(e, i, cleared),
           \A s \in DOMAIN e :
              /\ IsEntry(e[s])
              /\ \/ e[s].inbox = <<>>
                 \/ s \in DOMAIN entries /\ e[s].inbox = entries[s].inbox,
           \A s \in DOMAIN entries :
              /\ s \in DOMAIN e
              /\ e[s].inbox = entries[s].inbox \/ Range(entries[s].inbox) \subseteq cleared
    PROVE  InboxesEmptied /\ dropped \subseteq dropped'
<1>1. /\ DOMAIN entries' \subseteq DOMAIN e
      /\ \A s \in DOMAIN entries' : entries'[s].inbox = e[s].inbox
      /\ dropped' = dropped \cup cleared
             \cup UNION {Range(e[s].inbox) : s \in DOMAIN e \ DOMAIN entries'}
      BY PruneKeeps
<1>2. ASSUME NEW s \in DOMAIN entries
      PROVE  \/ s \in DOMAIN entries' /\ entries'[s].inbox = entries[s].inbox
             \/ Range(entries[s].inbox) \subseteq dropped'
  <2>1. CASE e[s].inbox = entries[s].inbox /\ s \notin DOMAIN entries'
    <3>1. Range(e[s].inbox) \subseteq dropped'
          BY <1>1, <2>1
    <3> QED BY <2>1, <3>1
  <2>2. CASE e[s].inbox = entries[s].inbox /\ s \in DOMAIN entries'
        BY <1>1, <2>2
  <2>3. CASE Range(entries[s].inbox) \subseteq cleared
        BY <1>1, <2>3
  <2> QED BY <2>1, <2>2, <2>3
<1> QED BY <1>1, <1>2 DEF InboxesEmptied

LEMMA RootBoxes == ASSUME Registry, SlotsInv, RegisterRoot PROVE InboxesEmptied
<1>1. /\ entries' = [s \in DOMAIN entries \cup {Root} |->
                       IF s = Root THEN NewEntry(NoAgent, 0, {}, "Running") ELSE entries[s]]
      /\ Root \notin DOMAIN entries
      BY DEF RegisterRoot, Present, SlotsInv, RootIndexed
<1>2. NewEntry(NoAgent, 0, {}, "Running").inbox = <<>>
      BY DEF NewEntry
<1> QED BY <1>1, <1>2 DEF InboxesEmptied

LEMMA SpawnBoxes ==
    ASSUME Registry, NEW c \in Calls, NEW p \in SubIds, Spawn(c, p)
    PROVE  InboxesEmptied /\ dropped \subseteq dropped'
<1> DEFINE n == Len(owner) + 1
           new == NewEntry(p, Current(p).depth + 1, {}, "Pending")
           e == [t \in DOMAIN entries \cup {n} |->
                  IF t = n THEN new
                  ELSE IF t = index[p] THEN [entries[t] EXCEPT !.kids = @ \cup {n}]
                  ELSE entries[t]]
           i == [a \in DOMAIN index \cup {n} |-> IF a = n THEN n ELSE index[a]]
<1>1. PruneTo(e, i, {})
      BY DEF Spawn
<1>2. n \notin DOMAIN entries /\ \A s \in DOMAIN entries : IsEntry(entries[s])
      BY DEF Registry, RunsNumbered, EntriesSound
<1>3. DOMAIN e = DOMAIN entries \cup {n} /\ e[n] = new
      OBVIOUS
<1>4. IsEntry(new) /\ new.inbox = <<>>
      BY DEF NewEntry, IsEntry
<1>5. ASSUME NEW s \in DOMAIN entries PROVE IsEntry(e[s]) /\ e[s].inbox = entries[s].inbox
  <2>1. e[s] = entries[s] \/ e[s] = [entries[s] EXCEPT !.kids = @ \cup {n}]
        BY <1>2
  <2> HIDE DEF e
  <2> QED BY <1>2, <2>1 DEF IsEntry
<1> HIDE DEF e, i, n, new
<1> QED BY <1>1, <1>3, <1>4, <1>5, PruneBoxes

LEMMA ResumeBoxes ==
    ASSUME Registry, NEW c \in Calls, Resume(c)
    PROVE  InboxesEmptied
<1> DEFINE n == Len(owner) + 1
           a == call[c].agent
           new == Successor(a)
           old == index[a]
           up == Current(a).parent
           holder == IF Present(up) THEN index[up] ELSE NoAgent
<1>1. entries' = [t \in DOMAIN entries \cup {n} |->
                     IF t = n THEN new
                     ELSE IF t = holder THEN [entries[t] EXCEPT !.kids = (@ \ {old}) \cup {n}]
                     ELSE entries[t]]
      BY DEF Resume
<1> HIDE DEF old, up, holder
<1>2. n \notin DOMAIN entries /\ \A s \in DOMAIN entries : IsEntry(entries[s])
      BY DEF Registry, RunsNumbered, EntriesSound
<1>3. DOMAIN entries' = DOMAIN entries \cup {n} /\ entries'[n].inbox = <<>>
      BY <1>1 DEF Successor, NewEntry
<1>4. ASSUME NEW s \in DOMAIN entries PROVE entries'[s].inbox = entries[s].inbox
  <2>1. entries'[s] = entries[s] \/ entries'[s] = [entries[s] EXCEPT !.kids = (@ \ {old}) \cup {n}]
        BY <1>1, <1>2
  <2> QED BY <1>2, <2>1 DEF IsEntry
<1> QED BY <1>3, <1>4 DEF InboxesEmptied

LEMMA MarkRunningBoxes ==
    ASSUME Registry, NEW c \in Calls, MarkRunning(c)
    PROVE  InboxesEmptied
<1>1. \A s \in DOMAIN entries : IsEntry(entries[s])
      BY DEF Registry, EntriesSound
<1>2. \/ UNCHANGED entries
      \/ entries' = [entries EXCEPT ![index[call[c].agent]].status = "Running"]
      BY DEF MarkRunning
<1>3. DOMAIN entries' = DOMAIN entries
      BY <1>2
<1>4. ASSUME NEW s \in DOMAIN entries PROVE entries'[s].inbox = entries[s].inbox
  <2>1. entries'[s] = entries[s] \/ entries'[s] = [entries[s] EXCEPT !.status = "Running"]
        BY <1>2
  <2> QED BY <1>1, <2>1 DEF IsEntry
<1> QED BY <1>3, <1>4, BoxesStill

LEMMA TerminateBoxes ==
    ASSUME Registry, NEW a, Terminate(a)
    PROVE  InboxesEmptied /\ dropped \subseteq dropped'
<1>1. PICK order \in {Below(entries, index[a])} :
         PruneTo([s \in DOMAIN entries |->
                  IF s \in Range(order)
                  THEN [entries[s] EXCEPT !.status = "Terminated", !.inbox = <<>>,
                           !.seq = nextSeq + (CHOOSE k \in DOMAIN order : order[k] = s) - 1]
                  ELSE entries[s]],
               index, UNION {Range(entries[s].inbox) : s \in Range(order)})
      BY DEF Terminate
<1> DEFINE ended == Range(order)
           e == [s \in DOMAIN entries |->
                  IF s \in ended
                  THEN [entries[s] EXCEPT !.status = "Terminated", !.inbox = <<>>,
                           !.seq = nextSeq + (CHOOSE k \in DOMAIN order : order[k] = s) - 1]
                  ELSE entries[s]]
           cleared == UNION {Range(entries[s].inbox) : s \in ended}
<1>2. PruneTo(e, index, cleared) /\ DOMAIN e = DOMAIN entries
      BY <1>1
<1>3. ASSUME NEW s \in DOMAIN entries
      PROVE  /\ IsEntry(e[s])
             /\ \/ s \notin ended /\ e[s].inbox = entries[s].inbox
                \/ s \in ended /\ e[s].inbox = <<>>
  <2>1. PICK q : \/ s \notin ended /\ e[s] = entries[s]
                 \/ s \in ended /\ e[s] = [entries[s] EXCEPT !.status = "Terminated", !.inbox = <<>>, !.seq = q]
        OBVIOUS
  <2>2. IsEntry(entries[s])
        BY DEF Registry, EntriesSound
  <2> HIDE DEF e, ended
  <2> QED BY <2>1, <2>2 DEF IsEntry
<1>4. \A s \in ended : Range(entries[s].inbox) \subseteq cleared
      OBVIOUS
<1> HIDE DEF e, ended, cleared
<1> QED BY <1>2, <1>3, <1>4, PruneBoxes

LEMMA CompleteTurnBoxes ==
    ASSUME Registry, NEW s \in SubIds, CompleteTurn(s)
    PROVE  InboxesEmptied /\ dropped \subseteq dropped'
<1> DEFINE a == owner[s]
           e == [entries EXCEPT ![index[a]].status = "Idle", ![index[a]].seq = nextSeq]
<1>1. CASE Present(a)
  <2>1. PruneTo(e, index, {}) /\ DOMAIN e = DOMAIN entries
        BY <1>1 DEF CompleteTurn
  <2>2. ASSUME NEW t \in DOMAIN entries PROVE IsEntry(e[t]) /\ e[t].inbox = entries[t].inbox
    <3>1. \/ e[t] = entries[t]
          \/ e[t] = [entries[t] EXCEPT !.status = "Idle", !.seq = nextSeq]
          OBVIOUS
    <3>2. IsEntry(entries[t])
          BY DEF Registry, EntriesSound
    <3> HIDE DEF e
    <3> QED BY <3>1, <3>2 DEF IsEntry
  <2> HIDE DEF e
  <2> QED BY <2>1, <2>2, PruneBoxes
<1>2. CASE ~Present(a)
      BY <1>2, BoxesStill DEF CompleteTurn
<1> QED BY <1>1, <1>2

\* A step in which one call goes on with nothing in hand, or with what it had.
LEMMA CallKeeps ==
    ASSUME MessagesInv, InboxesEmptied, NEW c \in Calls,
           \A d \in Calls \ {c} : call'[d] = call[d], HandSound(call'[c]),
           call'[c].taken = call[c].taken, call[c].stage # "done",
           UNCHANGED <<accepted, prompted>>, dropped \subseteq dropped'
    PROVE  MessagesInv'
<1>1. HandsEmptied
      BY OneLetsGo DEF MessagesInv
<1> QED BY <1>1, EmptiedKeeps

\* A call that has not drained has nothing in hand.
LEMMA EmptyHanded ==
    ASSUME Hands, NEW c \in Calls,
           call[c].stage \notin {"resume", "submit", "restore"} \/ Launching(call[c])
    PROVE  call[c].taken = <<>>
BY DEF Hands, HandSound

LEMMA BeginsMessages ==
    ASSUME Registry, MessagesInv, NEW c \in Calls, NEW p \in SubIds,
           \/ Spawn(c, p) \/ SpawnRefused(c, p)
           \/ \E a \in SubIds : SendFinds(c, p, a) \/ CloseFinds(c, p, a)
    PROVE  MessagesInv'
<1>0. IsCall(call[c]) /\ DOMAIN call = Calls /\ Hands
      BY DEF Registry, CallsSound, CallSound, MessagesInv
<1>1. /\ call[c].stage = "idle" /\ \A d \in Calls \ {c} : call'[d] = call[d]
      /\ call'[c].taken = call[c].taken
  <2>1. call[c].stage = "idle"
        BY DEF Spawn, SpawnRefused, SendFinds, CloseFinds, Start, MayStart
  <2>2. CASE \E a \in SubIds : SendFinds(c, p, a)
    <3>1. PICK a \in SubIds :
             call' = [call EXCEPT ![c].stage = "found", ![c].by = p, ![c].agent = a,
                                  ![c].idle = Current(a).status \notin Occupying]
          BY <2>2 DEF SendFinds
    <3> QED BY <1>0, <2>1, <3>1 DEF IsCall
  <2>3. CASE \/ Spawn(c, p) \/ SpawnRefused(c, p) \/ \E a \in SubIds : CloseFinds(c, p, a)
    <3>1. \E a, s, stage :
             call' = [call EXCEPT ![c].stage = stage, ![c].by = p, ![c].agent = a, ![c].run = s]
          BY <2>3 DEF Spawn, SpawnRefused, CloseFinds, Start
    <3>2. PICK a, s, stage :
             call' = [call EXCEPT ![c].stage = stage, ![c].by = p, ![c].agent = a, ![c].run = s]
          BY <3>1
    <3> QED BY <1>0, <2>1, <3>2 DEF IsCall
  <2> QED BY <2>1, <2>2, <2>3
<1>2. HandSound(call'[c])
      BY <1>0, <1>1, EmptyHanded, HandEmpty
<1>3. InboxesEmptied /\ dropped \subseteq dropped' /\ UNCHANGED <<accepted, prompted>>
  <2>1. CASE Spawn(c, p)
        BY <2>1, SpawnBoxes DEF Spawn
  <2>2. CASE SpawnRefused(c, p) \/ \E a \in SubIds : SendFinds(c, p, a) \/ CloseFinds(c, p, a)
        BY <2>2, BoxesStill DEF SpawnRefused, SendFinds, CloseFinds, ghosts
  <2> QED BY <2>1, <2>2
<1> QED BY <1>1, <1>2, <1>3, CallKeeps

LEMMA LaunchesMessages ==
    ASSUME Registry, MessagesInv, NEW c \in Calls, Launches(c)
    PROVE  MessagesInv'
<1>0. IsCall(call[c]) /\ DOMAIN call = Calls /\ Hands
      BY DEF Registry, CallsSound, CallSound, MessagesInv
<1>1. call[c].stage = "spawned" \/ Launching(call[c])
      BY DEF Launches, MarkRunning, LaunchSubmits, LaunchFails, Launching
<1>2. call[c].taken = <<>> /\ call[c].stage # "done"
      BY <1>0, <1>1, EmptyHanded DEF Launching
<1>3. /\ \A d \in Calls \ {c} : call'[d] = call[d]
      /\ call'[c].taken = call[c].taken
  <2>1. call' = [call EXCEPT ![c].stage = "submit"] \/ call' = [call EXCEPT ![c].stage = "done"]
        BY DEF Launches, MarkRunning, LaunchSubmits, LaunchFails, Over, Step
  <2> QED BY <1>0, <2>1 DEF IsCall
<1>4. HandSound(call'[c])
      BY <1>2, <1>3, HandEmpty
<1>5. InboxesEmptied
      BY MarkRunningBoxes, BoxesStill DEF Launches, LaunchSubmits, LaunchFails
<1>6. UNCHANGED <<accepted, prompted, dropped>>
      BY DEF Launches, MarkRunning, LaunchSubmits, LaunchFails, ghosts
<1> QED BY <1>2, <1>3, <1>4, <1>5, <1>6, CallKeeps

\* A close drops the messages of the runs it ends.
LEMMA ClosesMessages ==
    ASSUME Registry, MessagesInv, NEW c \in Calls,
           CloseTerminates(c) \/ CloseFails(c) \/ \E a \in SubIds : UserCloses(c, a)
    PROVE  MessagesInv'
<1>0. IsCall(call[c]) /\ DOMAIN call = Calls /\ Hands
      BY DEF Registry, CallsSound, CallSound, MessagesInv
<1>1. call[c].stage \in {"closing", "idle"}
      BY DEF CloseTerminates, CloseFails, UserCloses, Start, MayStart
<1>2. /\ \A d \in Calls \ {c} : call'[d] = call[d]
      /\ call'[c].taken = call[c].taken
  <2>1. CASE CloseTerminates(c)
    <3>1. call' = [call EXCEPT ![c].stage = "done"]
          BY <2>1 DEF CloseTerminates, Over, Step
    <3> QED BY <1>0, <3>1 DEF IsCall
  <2>2. CASE \E a \in SubIds : UserCloses(c, a)
    <3>1. PICK a \in SubIds :
             call' = [call EXCEPT ![c].stage = "done", ![c].by = NoAgent, ![c].agent = a,
                                  ![c].run = NoAgent]
          BY <2>2 DEF UserCloses, Start
    <3> QED BY <1>0, <3>1 DEF IsCall
  <2>3. CASE CloseFails(c)
    <3>1. call' = [call EXCEPT ![c].stage = "done", ![c].agent = NoAgent]
          BY <2>3 DEF CloseFails
    <3> QED BY <1>0, <3>1 DEF IsCall
  <2> QED BY <2>1, <2>2, <2>3
<1>3. HandSound(call'[c])
      BY <1>0, <1>1, <1>2, EmptyHanded, HandEmpty
<1>4. InboxesEmptied /\ dropped \subseteq dropped'
  <2>1. CASE CloseTerminates(c)
        BY <2>1, TerminateBoxes, BoxesStill DEF CloseTerminates
  <2>2. CASE \E a \in SubIds : UserCloses(c, a)
        BY <2>2, TerminateBoxes DEF UserCloses
  <2>3. CASE CloseFails(c)
        BY <2>3, BoxesStill DEF CloseFails, ghosts
  <2> QED BY <2>1, <2>2, <2>3
<1>5. UNCHANGED <<accepted, prompted>>
      BY DEF CloseTerminates, CloseFails, UserCloses, ghosts
<1> QED BY <1>1, <1>2, <1>3, <1>4, <1>5, CallKeeps

\* A send looks, finds its child running, or cannot submit: nothing moves.
LEMMA LooksMessages ==
    ASSUME Registry, MessagesInv, NEW c \in Calls,
           SendReads(c) \/ ResumeRefused(c) \/ SendNotSubmitted(c)
    PROVE  MessagesInv'
<1>0. IsCall(call[c]) /\ DOMAIN call = Calls /\ Hands /\ HandSound(call[c])
      BY DEF Registry, CallsSound, CallSound, MessagesInv, Hands
<1>1. call[c].stage # "done" /\ (\A d \in Calls \ {c} : call'[d] = call[d])
      /\ call'[c].taken = call[c].taken /\ HandSound(call'[c])
  <2>1. CASE SendReads(c)
    <3>1. PICK stage \in {"done", "drain", "queue"} : call' = [call EXCEPT ![c].stage = stage]
          BY <2>1 DEF SendReads, Step
    <3>2. call[c].stage = "found"
          BY <2>1 DEF SendReads
    <3>3. (\A d \in Calls \ {c} : call'[d] = call[d]) /\ call'[c].taken = call[c].taken
          BY <1>0, <3>1 DEF IsCall
    <3> QED BY <1>0, <3>2, <3>3, EmptyHanded, HandEmpty
  <2>2. CASE ResumeRefused(c) \/ SendNotSubmitted(c)
    <3>1. \E then \in {"queue", "done"} :
             call' = [call EXCEPT ![c].stage = "restore", ![c].then = then]
          BY <2>2 DEF ResumeRefused, SendNotSubmitted
    <3>2. call[c].stage \in {"resume", "submit"}
          BY <2>2 DEF ResumeRefused, SendNotSubmitted
    <3>3. /\ \A d \in Calls \ {c} : call'[d] = call[d]
          /\ call'[c].taken = call[c].taken /\ call'[c].stage = "restore"
          BY <1>0, <3>1 DEF IsCall
    <3>4. HandSound(call'[c])
          BY <1>0, <3>3 DEF HandSound, Launching
    <3> QED BY <3>2, <3>3, <3>4
  <2> QED BY <2>1, <2>2
<1>2. InboxesEmptied /\ UNCHANGED <<accepted, prompted, dropped>>
      BY BoxesStill DEF SendReads, ResumeRefused, SendNotSubmitted, ghosts
<1> QED BY <1>1, <1>2, CallKeeps

\* One inbox is set, the rest of the registry stays.
LEMMA SetBox ==
    ASSUME Registry, NEW s \in DOMAIN entries, NEW box,
           entries' = [entries EXCEPT ![s].inbox = box]
    PROVE  OneBox(s, box)
<1>1. \A t \in DOMAIN entries : IsEntry(entries[t])
      BY DEF Registry, EntriesSound
<1>2. entries'[s].inbox = box
      BY <1>1 DEF IsEntry
<1> QED BY <1>1, <1>2 DEF OneBox

LEMMA DrainsMessages ==
    ASSUME Registry, MessagesInv, NEW c \in Calls, SendDrains(c)
    PROVE  MessagesInv'
<1> DEFINE a == call[c].agent
           s == index[a]
<1>0. IsCall(call[c]) /\ DOMAIN call = Calls /\ Hands /\ call[c].stage = "drain"
      BY DEF Registry, CallsSound, CallSound, MessagesInv, SendDrains
<1>1. call[c].taken = <<>>
      BY <1>0, EmptyHanded
<1>2. UNCHANGED <<accepted, prompted, dropped>>
      BY DEF SendDrains, ghosts
<1>3. CASE Present(a)
  <2>1. /\ call' = [call EXCEPT ![c].stage = "resume", ![c].taken = entries[s].inbox]
        /\ entries' = [entries EXCEPT ![s].inbox = <<>>]
        BY <1>3 DEF SendDrains, Current
  <2>2. s \in DOMAIN entries
        BY <1>3 DEF Present, Registry, IndexSound
  <2> HIDE DEF s
  <2>3. OneBox(s, <<>>) /\ Box(entries[s].inbox)
        BY <2>1, <2>2, SetBox DEF MessagesInv, Inboxes
  <2>4. /\ \A d \in Calls \ {c} : call'[d] = call[d]
        /\ call'[c].taken = entries[s].inbox /\ call'[c].stage = "resume"
        BY <1>0, <2>1 DEF IsCall
  <2>5. HandSound(call'[c])
        BY <2>3, <2>4 DEF HandSound, Launching
  <2>6. OneHand(c, entries[s].inbox)
        BY <1>0, <2>4, <2>5 DEF OneHand
  <2> QED BY <1>1, <1>2, <2>2, <2>3, <2>6, DrainKeeps
<1>4. CASE ~Present(a)
  <2>1. call' = [call EXCEPT ![c].stage = "resume"] /\ UNCHANGED entries
        BY <1>4 DEF SendDrains, Step
  <2>2. (\A d \in Calls \ {c} : call'[d] = call[d]) /\ call'[c].taken = call[c].taken
        BY <1>0, <2>1 DEF IsCall
  <2>3. HandSound(call'[c]) /\ InboxesEmptied
        BY <1>1, <2>1, <2>2, HandEmpty, BoxesStill
  <2> QED BY <1>0, <1>2, <2>2, <2>3, CallKeeps
<1> QED BY <1>3, <1>4

\* The run of a resume is not its agent's first: it keeps what it carries.
LEMMA ResumeMessages ==
    ASSUME Registry, Registry', SlotsInv, MessagesInv, NEW c \in Calls, Resume(c)
    PROVE  MessagesInv'
<1>0. IsCall(call[c]) /\ DOMAIN call = Calls /\ HandSound(call[c]) /\ call[c].stage = "resume"
      BY DEF Registry, CallsSound, CallSound, MessagesInv, Hands, Resume
<1>1. call' = [call EXCEPT ![c].stage = "submit", ![c].run = Len(owner) + 1]
      BY DEF Resume
<1>2. /\ \A d \in Calls \ {c} : call'[d] = call[d]
      /\ call'[c].taken = call[c].taken /\ call'[c].stage = "submit"
      /\ call'[c].run = Len(owner) + 1 /\ call'[c].agent = call[c].agent
      BY <1>0, <1>1 DEF IsCall
<1>3. Len(owner) + 1 # call[c].agent
      BY ResumeTakes
<1>4. HandSound(call'[c])
      BY <1>0, <1>2, <1>3 DEF HandSound, Launching
<1>5. InboxesEmptied /\ UNCHANGED <<accepted, prompted, dropped>>
      BY ResumeBoxes DEF Resume, ghosts
<1> QED BY <1>0, <1>2, <1>4, <1>5, CallKeeps

\* A submission turns all that is in hand, and the call's own message, into a prompt.
LEMMA SubmitsMessages ==
    ASSUME Registry, MessagesInv, NEW c \in Calls, SendSubmits(c)
    PROVE  MessagesInv'
<1>0. IsCall(call[c]) /\ DOMAIN call = Calls /\ Hands /\ Inboxes
      BY DEF Registry, CallsSound, CallSound, MessagesInv
<1>1. /\ call' = [call EXCEPT ![c].stage = "done", ![c].taken = <<>>]
      /\ prompted' = prompted \cup Range(call[c].taken) \cup {c}
      /\ UNCHANGED <<entries, accepted, dropped>> /\ call[c].stage = "submit"
      BY DEF SendSubmits
<1>2. /\ \A d \in Calls \ {c} : call'[d] = call[d]
      /\ call'[c].taken = <<>> /\ call'[c].stage = "done"
      BY <1>0, <1>1 DEF IsCall
<1>3. HandsEmptied
      BY <1>0, <1>1, <1>2, HandEmpty, OneLetsGo
<1>4. ASSUME NEW m \in Range(call[c].taken) \cup {c} PROVE ~Held(m)' /\ call'[m].stage = "done"
  <2>1. m \in Calls
        BY <1>0 DEF Hands, HandSound, Box, Range
  <2>2. OnePlace(m)
        BY <2>1 DEF MessagesInv
  <2>3. Holders(m)' = Holders(m)
        BY <1>1 DEF Holders
  <2>4. Carriers(m)' = Carriers(m) \ {c}
        BY <1>2, BoxEmpty DEF Carriers
  <2>5. CASE m \in Range(call[c].taken)
    <3>1. c \in Carriers(m)
          BY <2>5 DEF Carriers
    <3>2. call[m].stage = "done" /\ Holders(m) = {} /\ \A d \in Carriers(m) : d = c
          BY <2>2, <3>1 DEF OnePlace, Held
    <3> QED BY <1>1, <1>2, <2>1, <2>3, <2>4, <3>2 DEF Held
  <2>6. CASE m = c
    <3>1. Holders(m) = {} /\ Carriers(m) = {}
          BY <1>1, <2>2, <2>6 DEF OnePlace, Held
    <3> QED BY <1>2, <2>3, <2>4, <2>6, <3>1 DEF Held
  <2> QED BY <2>5, <2>6
<1>5. InboxesEmptied
      BY <1>1, BoxesStill
<1>6. \A m \in prompted' \ prompted : ~Held(m)' /\ call'[m].stage = "done"
      BY <1>1, <1>4
<1> QED BY <1>1, <1>3, <1>5, <1>6, EmptiedKeeps

\* A message goes back into its inbox, or all that are left are given up.
LEMMA RestoresMessages ==
    ASSUME Registry, MessagesInv, NEW c \in Calls, RestoreOne(c)
    PROVE  MessagesInv'
<1> DEFINE a == call[c].agent
           s == index[a]
           left == call[c].taken
<1>0. IsCall(call[c]) /\ DOMAIN call = Calls /\ Hands /\ HandSound(call[c])
      BY DEF Registry, CallsSound, CallSound, MessagesInv, Hands
<1>1. call[c].stage = "restore" /\ UNCHANGED <<accepted, prompted>>
      BY DEF RestoreOne
<1>2. CASE left # <<>> /\ Accepts(a)
  <2>1. /\ entries' = [entries EXCEPT ![s].inbox = Append(@, Head(left))]
        /\ call' = [call EXCEPT ![c].taken = Tail(@)]
        /\ UNCHANGED dropped
        BY <1>2 DEF RestoreOne, Push
  <2>2. s \in DOMAIN entries
        BY <1>2 DEF Accepts, Present, Registry, IndexSound
  <2>3. OneBox(s, Append(entries[s].inbox, Head(left)))
    <3>1. entries' = [entries EXCEPT ![s].inbox = Append(entries[s].inbox, Head(left))]
          BY <2>1, <2>2
    <3> HIDE DEF s, left
    <3> QED BY <2>2, <3>1, SetBox
  <2>4. /\ \A d \in Calls \ {c} : call'[d] = call[d]
        /\ call'[c].taken = Tail(left) /\ call'[c].stage = "restore"
        BY <1>0, <1>1, <2>1 DEF IsCall
  <2>5. HandSound(call'[c])
    <3>1. Box(Tail(left))
          BY <1>0, <1>2, BoxTail DEF HandSound
    <3> QED BY <2>4, <3>1 DEF HandSound, Launching
  <2>6. OneHand(c, Tail(left))
        BY <1>1, <2>4, <2>5 DEF OneHand
  <2> QED BY <1>1, <1>2, <2>1, <2>2, <2>3, <2>6, RestoreKeeps
<1>3. CASE ~(left # <<>> /\ Accepts(a))
  <2>1. /\ call' = [call EXCEPT ![c].stage = call[c].then, ![c].taken = <<>>]
        /\ dropped' = dropped \cup Range(left) /\ UNCHANGED entries
        BY <1>3 DEF RestoreOne
  <2>2. (\A d \in Calls \ {c} : call'[d] = call[d]) /\ call'[c].taken = <<>>
        BY <1>0, <2>1 DEF IsCall
  <2>3. HandsEmptied
        BY <1>0, <1>1, <2>1, <2>2, HandEmpty, OneLetsGo
  <2> QED BY <1>1, <2>1, <2>3, BoxesStill, EmptiedKeeps
<1> QED BY <1>2, <1>3

LEMMA QueuesMessages ==
    ASSUME Registry, MessagesInv, NEW c \in Calls, SendQueues(c)
    PROVE  MessagesInv'
<1> DEFINE a == call[c].agent
           s == index[a]
<1>0. IsCall(call[c]) /\ DOMAIN call = Calls /\ Hands
      BY DEF Registry, CallsSound, CallSound, MessagesInv
<1>1. /\ call[c].stage = "queue" /\ UNCHANGED <<prompted, dropped>>
      /\ call' = [call EXCEPT ![c].stage = "done"]
      BY DEF SendQueues, Over, Step
<1>2. call[c].taken = <<>>
      BY <1>0, <1>1, EmptyHanded
<1>3. /\ \A d \in Calls \ {c} : call'[d] = call[d]
      /\ call'[c].taken = <<>> /\ call'[c].stage = "done" /\ HandSound(call'[c])
  <2>1. /\ \A d \in Calls \ {c} : call'[d] = call[d]
        /\ call'[c].taken = <<>> /\ call'[c].stage = "done"
        BY <1>0, <1>1, <1>2 DEF IsCall
  <2> QED BY <2>1, HandEmpty
<1>4. CASE Accepts(a)
  <2>1. /\ entries' = [entries EXCEPT ![s].inbox = Append(@, c)]
        /\ accepted' = accepted \cup {c}
        BY <1>4 DEF SendQueues, Push
  <2>2. s \in DOMAIN entries
        BY <1>4 DEF Accepts, Present, Registry, IndexSound
  <2>3. OneBox(s, Append(entries[s].inbox, c))
    <3>1. entries' = [entries EXCEPT ![s].inbox = Append(entries[s].inbox, c)]
          BY <2>1, <2>2
    <3> HIDE DEF s
    <3> QED BY <2>2, <3>1, SetBox
  <2>4. OneHand(c, <<>>)
        BY <1>1, <1>3 DEF OneHand
  <2> QED BY <1>1, <1>2, <1>3, <2>1, <2>2, <2>3, <2>4, QueueKeeps
<1>5. CASE ~Accepts(a)
  <2>1. UNCHANGED <<entries, accepted>>
        BY <1>5 DEF SendQueues
  <2> QED BY <1>1, <1>2, <1>3, <2>1, BoxesStill, CallKeeps
<1> QED BY <1>4, <1>5

LEMMA InitMessages == Init => MessagesInv
<1> SUFFICES ASSUME Init PROVE MessagesInv
    OBVIOUS
<1>1. DOMAIN entries = {} /\ call = [c \in Calls |-> Waiting] /\ accepted = {} /\ prompted = {}
      BY DEF Init
<1>2. \A c \in Calls : call[c].taken = <<>>
      BY <1>1 DEF Waiting
<1>3. Hands /\ Inboxes
      BY <1>1, <1>2, HandEmpty DEF Hands, Inboxes
<1>4. \A m \in Calls : OnePlace(m)
      BY <1>1, <1>2, BoxEmpty DEF OnePlace, Held, Holders, Carriers
<1> QED BY <1>1, <1>3, <1>4 DEF MessagesInv

LEMMA NextMessages ==
    Registry /\ Registry' /\ SlotsInv /\ MessagesInv /\ [Next]_vars => MessagesInv'
<1> SUFFICES ASSUME Registry, Registry', SlotsInv, MessagesInv, [Next]_vars PROVE MessagesInv'
    OBVIOUS
<1>1. ASSUME UNCHANGED <<call, accepted, prompted>>, InboxesEmptied, dropped \subseteq dropped'
      PROVE  MessagesInv'
      BY <1>1, NoneLetsGo, EmptiedKeeps DEF MessagesInv
<1>2. CASE RegisterRoot
      BY <1>1, <1>2, RootBoxes DEF RegisterRoot, ghosts
<1>3. ASSUME NEW c \in Calls, Begins(c) PROVE MessagesInv'
      BY <1>3, BeginsMessages DEF Begins
<1>4. ASSUME NEW c \in Calls, Launches(c) PROVE MessagesInv'
      BY <1>4, LaunchesMessages
<1>5. ASSUME NEW c \in Calls, Sends(c) PROVE MessagesInv'
      BY <1>5, LooksMessages, DrainsMessages, ResumeMessages, SubmitsMessages, RestoresMessages,
         QueuesMessages DEF Sends
<1>6. ASSUME NEW c \in Calls,
             CloseTerminates(c) \/ CloseFails(c) \/ \E a \in SubIds : UserCloses(c, a)
      PROVE  MessagesInv'
      BY <1>6, ClosesMessages
<1>7. ASSUME NEW s \in SubIds, TurnEnds(s) \/ WatcherFails(s) PROVE MessagesInv'
      BY <1>1, <1>7, BoxesStill DEF TurnEnds, WatcherFails, ghosts
<1>8. ASSUME NEW s \in SubIds, CompleteTurn(s) PROVE MessagesInv'
      BY <1>1, <1>8, CompleteTurnBoxes DEF CompleteTurn
<1>9. CASE UNCHANGED vars
      BY <1>1, <1>9, BoxesStill DEF vars, ghosts
<1> QED BY <1>2, <1>3, <1>4, <1>5, <1>6, <1>7, <1>8, <1>9 DEF Next, Continues, Watches

\* What keeps the messages together holds of every state of the registry.
THEOREM MessagesInvariant == Spec => []MessagesInv
<1> QED BY InitSound, NextKeeps, InitSlots, NextSlots, InitMessages, NextMessages, PTL DEF Spec

\* MessagesKept: an accepted message is in one inbox, in one call's hands or in a
\* prompt, unless a close or a full inbox dropped it or its run was pruned
\* (drain_inbox, restore_pending_inbox, push_inbox).
THEOREM MessagesKeptHolds == Spec => []MessagesKept
<1>1. ASSUME MessagesInv, NEW m \in accepted \ dropped
      PROVE  /\ Cardinality(Holders(m)) + Cardinality(Carriers(m)) <= 1
             /\ (Holders(m) \cup Carriers(m) = {}) <=> m \in prompted
  <2>1. OnePlace(m)
        BY <1>1 DEF MessagesInv
  <2>2. Cardinality({}) = 0 /\ \A x : Cardinality({x}) = 1
        BY FS_EmptySet, FS_Singleton
  <2>3. \/ Holders(m) = {} /\ (Carriers(m) = {} \/ \E c : Carriers(m) = {c})
        \/ Carriers(m) = {} /\ \E s : Holders(m) = {s}
        BY <2>1 DEF OnePlace
  <2>4. Cardinality(Holders(m)) + Cardinality(Carriers(m)) <= 1
    <3>1. \/ Cardinality(Holders(m)) = 0 /\ Cardinality(Carriers(m)) \in {0, 1}
          \/ Cardinality(Carriers(m)) = 0 /\ Cardinality(Holders(m)) = 1
          BY <2>2, <2>3
    <3> QED BY <3>1
  <2>5. (Holders(m) \cup Carriers(m) = {}) <=> m \in prompted
        BY <1>1, <2>1 DEF OnePlace, Held
  <2> QED BY <2>4, <2>5
<1>2. MessagesInv => MessagesKept
      BY <1>1 DEF MessagesKept
<1> QED BY <1>2, MessagesInvariant, PTL

-----------------------------------------------------------------------------
\* A set of numbers has a least one.
LEMMA Least == ASSUME NEW S \in SUBSET Nat, S # {} PROVE \E n \in S : \A m \in S : n <= m
<1> DEFINE R == OpToRel(<, Nat)
<1>1. \A x, y \in Nat : x < y => <<x, y>> \in R
  BY DEF OpToRel
<1> HIDE DEF R
<1>2. IsWellFoundedOn(R, Nat)
  BY NatLessThanWellFounded DEF R
<1>3. PICK n \in S : \A m \in S : <<m, n>> \notin R
  BY <1>2, WFMin
<1>4. \A m \in S : ~(m < n)
  BY <1>1, <1>3
<1> QED BY <1>4

\* The recursive functions of the model are defined as far as they are used.  The
\* argument is the same for each of the four; it cannot be stated once for all of
\* them, because the step would be a parameter of the lemma.

\* The pairs of entries and index that a prune goes through.
PruneStep(state) == PruneOnce(state.e, state.i)

\* h has what the registry is after each of n removals.
Prunes(h, e, i, n) ==
    h = [k \in 0..n |-> IF k = 0 THEN [e |-> e, i |-> i] ELSE PruneStep(h[k - 1])]

\* There are such, by induction on their number.
LEMMA PrunesExists == ASSUME NEW e, NEW i, NEW n \in Nat PROVE \E h : Prunes(h, e, i, n)
<1> DEFINE Bad == {m \in Nat : ~ \E h : Prunes(h, e, i, m)}
<1> SUFFICES ASSUME Bad # {} PROVE FALSE
    OBVIOUS
<1>1. PICK m \in Bad : \A k \in Bad : m <= k
  <2>1. Bad \in SUBSET Nat
        OBVIOUS
  <2> HIDE DEF Bad
  <2> QED BY <2>1, Least
<1>2. CASE m = 0
  <2> DEFINE h == [k \in 0..0 |-> [e |-> e, i |-> i]]
  <2>1. h = [k \in 0..0 |-> IF k = 0 THEN [e |-> e, i |-> i] ELSE PruneStep(h[k - 1])]
        OBVIOUS
  <2>2. Prunes(h, e, i, 0)
        BY <2>1 DEF Prunes
  <2> QED BY <1>1, <1>2, <2>2
<1>3. CASE m # 0
  <2>1. m \in Nat /\ m - 1 \in Nat /\ ~(m <= m - 1)
        BY <1>1, <1>3
  <2>2. PICK g : Prunes(g, e, i, m - 1)
        BY <1>1, <2>1
  <2> DEFINE last == PruneStep(g[m - 1])
             h == [k \in 0..m |-> IF k = m THEN last ELSE g[k]]
  <2>3. /\ DOMAIN g = 0..(m - 1) /\ g[0] = [e |-> e, i |-> i]
        /\ \A k \in 1..(m - 1) : g[k] = PruneStep(g[k - 1])
        BY <2>1, <2>2 DEF Prunes
  <2>4. h[0] = [e |-> e, i |-> i] /\ h[m] = last /\ h[m - 1] = g[m - 1]
        BY <2>1, <2>3, <1>3
  <2>5. \A k \in 1..(m - 1) : h[k] = g[k] /\ h[k - 1] = g[k - 1]
        BY <2>1
  <2>6. \A k \in 0..m : h[k] = IF k = 0 THEN [e |-> e, i |-> i] ELSE PruneStep(h[k - 1])
    <3> HIDE DEF h
    <3> SUFFICES ASSUME NEW k \in 0..m
                 PROVE  h[k] = IF k = 0 THEN [e |-> e, i |-> i] ELSE PruneStep(h[k - 1])
        OBVIOUS
    <3>1. k = 0 \/ k = m \/ k \in 1..(m - 1)
          BY <2>1
    <3> QED BY <1>3, <2>3, <2>4, <2>5, <3>1
  <2>7. Prunes(h, e, i, m)
    <3>1. h = [k \in 0..m |-> h[k]]
          OBVIOUS
    <3> HIDE DEF h
    <3>2. [k \in 0..m |-> h[k]]
            = [k \in 0..m |-> IF k = 0 THEN [e |-> e, i |-> i] ELSE PruneStep(h[k - 1])]
          BY <2>6
    <3> QED BY <3>1, <3>2 DEF Prunes
  <2> QED BY <1>1, <2>7
<1> QED BY <1>2, <1>3

\* h has what a walk from each run reaches, down to each depth.
Walks(h, e, n) ==
    h = [k \in 0..n |-> IF k = 0 THEN [t \in DOMAIN e |-> <<t>>] ELSE Deeper(e, h[k - 1])]

\* There are such walks.
LEMMA WalksExists == ASSUME NEW e, NEW n \in Nat PROVE \E h : Walks(h, e, n)
<1> DEFINE Bad == {m \in Nat : ~ \E h : Walks(h, e, m)}
<1> SUFFICES ASSUME Bad # {} PROVE FALSE
    OBVIOUS
<1>1. PICK m \in Bad : \A k \in Bad : m <= k
  <2>1. Bad \in SUBSET Nat
        OBVIOUS
  <2> HIDE DEF Bad
  <2> QED BY <2>1, Least
<1>2. CASE m = 0
  <2> DEFINE h == [k \in 0..0 |-> [t \in DOMAIN e |-> <<t>>]]
  <2>1. h = [k \in 0..0 |-> IF k = 0 THEN [t \in DOMAIN e |-> <<t>>] ELSE Deeper(e, h[k - 1])]
        OBVIOUS
  <2>2. Walks(h, e, 0)
        BY <2>1 DEF Walks
  <2> QED BY <1>1, <1>2, <2>2
<1>3. CASE m # 0
  <2>1. m \in Nat /\ m - 1 \in Nat /\ ~(m <= m - 1)
        BY <1>1, <1>3
  <2>2. PICK g : Walks(g, e, m - 1)
        BY <1>1, <2>1
  <2> DEFINE last == Deeper(e, g[m - 1])
             h == [k \in 0..m |-> IF k = m THEN last ELSE g[k]]
  <2>3. /\ DOMAIN g = 0..(m - 1) /\ g[0] = [t \in DOMAIN e |-> <<t>>]
        /\ \A k \in 1..(m - 1) : g[k] = Deeper(e, g[k - 1])
        BY <2>1, <2>2 DEF Walks
  <2>4. h[0] = [t \in DOMAIN e |-> <<t>>] /\ h[m] = last /\ h[m - 1] = g[m - 1]
        BY <2>1, <2>3, <1>3
  <2>5. \A k \in 1..(m - 1) : h[k] = g[k] /\ h[k - 1] = g[k - 1]
        BY <2>1
  <2>6. \A k \in 0..m : h[k] = IF k = 0 THEN [t \in DOMAIN e |-> <<t>>] ELSE Deeper(e, h[k - 1])
    <3> HIDE DEF h
    <3> SUFFICES ASSUME NEW k \in 0..m
                 PROVE  h[k] = IF k = 0 THEN [t \in DOMAIN e |-> <<t>>] ELSE Deeper(e, h[k - 1])
        OBVIOUS
    <3>1. k = 0 \/ k = m \/ k \in 1..(m - 1)
          BY <2>1
    <3> QED BY <1>3, <2>3, <2>4, <2>5, <3>1
  <2>7. Walks(h, e, m)
    <3>1. h = [k \in 0..m |-> h[k]]
          OBVIOUS
    <3> HIDE DEF h
    <3>2. [k \in 0..m |-> h[k]]
            = [k \in 0..m |-> IF k = 0 THEN [t \in DOMAIN e |-> <<t>>] ELSE Deeper(e, h[k - 1])]
          BY <2>6
    <3> QED BY <3>1, <3>2 DEF Walks
  <2> QED BY <1>1, <2>7
<1> QED BY <1>2, <1>3

\* One level further down among the current runs.
UnderStep(e, i, level) ==
    level \cup {s \in Range(i) : e[s].parent \in DOMAIN i /\ i[e[s].parent] \in level}

\* h has the current runs down to each depth below those in top.
Climbs(h, e, i, top, n) ==
    h = [k \in 0..n |-> IF k = 0 THEN top ELSE UnderStep(e, i, h[k - 1])]

\* There are such sets.
LEMMA ClimbsExists == ASSUME NEW e, NEW i, NEW top, NEW n \in Nat PROVE \E h : Climbs(h, e, i, top, n)
<1> DEFINE Bad == {m \in Nat : ~ \E h : Climbs(h, e, i, top, m)}
<1> SUFFICES ASSUME Bad # {} PROVE FALSE
    OBVIOUS
<1>1. PICK m \in Bad : \A k \in Bad : m <= k
  <2>1. Bad \in SUBSET Nat
        OBVIOUS
  <2> HIDE DEF Bad
  <2> QED BY <2>1, Least
<1>2. CASE m = 0
  <2> DEFINE h == [k \in 0..0 |-> top]
  <2>1. h = [k \in 0..0 |-> IF k = 0 THEN top ELSE UnderStep(e, i, h[k - 1])]
        OBVIOUS
  <2>2. Climbs(h, e, i, top, 0)
        BY <2>1 DEF Climbs
  <2> QED BY <1>1, <1>2, <2>2
<1>3. CASE m # 0
  <2>1. m \in Nat /\ m - 1 \in Nat /\ ~(m <= m - 1)
        BY <1>1, <1>3
  <2>2. PICK g : Climbs(g, e, i, top, m - 1)
        BY <1>1, <2>1
  <2> DEFINE last == UnderStep(e, i, g[m - 1])
             h == [k \in 0..m |-> IF k = m THEN last ELSE g[k]]
  <2>3. /\ DOMAIN g = 0..(m - 1) /\ g[0] = top
        /\ \A k \in 1..(m - 1) : g[k] = UnderStep(e, i, g[k - 1])
        BY <2>1, <2>2 DEF Climbs
  <2>4. h[0] = top /\ h[m] = last /\ h[m - 1] = g[m - 1]
        BY <2>1, <2>3, <1>3
  <2>5. \A k \in 1..(m - 1) : h[k] = g[k] /\ h[k - 1] = g[k - 1]
        BY <2>1
  <2>6. \A k \in 0..m : h[k] = IF k = 0 THEN top ELSE UnderStep(e, i, h[k - 1])
    <3> HIDE DEF h
    <3> SUFFICES ASSUME NEW k \in 0..m
                 PROVE  h[k] = IF k = 0 THEN top ELSE UnderStep(e, i, h[k - 1])
        OBVIOUS
    <3>1. k = 0 \/ k = m \/ k \in 1..(m - 1)
          BY <2>1
    <3> QED BY <1>3, <2>3, <2>4, <2>5, <3>1
  <2>7. Climbs(h, e, i, top, m)
    <3>1. h = [k \in 0..m |-> h[k]]
          OBVIOUS
    <3> HIDE DEF h
    <3>2. [k \in 0..m |-> h[k]]
            = [k \in 0..m |-> IF k = 0 THEN top ELSE UnderStep(e, i, h[k - 1])]
          BY <2>6
    <3> QED BY <3>1, <3>2 DEF Climbs
  <2> QED BY <1>1, <2>7
<1> QED BY <1>2, <1>3

\* FlattenSeq takes one list more.
FlatStep(q, prefix, k) == prefix \o q[k + 1]

\* h has the first lists of q in a row, up to k + 1 of them.
Flats(h, q, n) ==
    h = [k \in 0..n |-> IF k = 0 THEN q[1] ELSE FlatStep(q, h[k - 1], k)]

\* There are such.
LEMMA FlatsExists == ASSUME NEW q, NEW n \in Nat PROVE \E h : Flats(h, q, n)
<1> DEFINE Bad == {m \in Nat : ~ \E h : Flats(h, q, m)}
<1> SUFFICES ASSUME Bad # {} PROVE FALSE
    OBVIOUS
<1>1. PICK m \in Bad : \A k \in Bad : m <= k
  <2>1. Bad \in SUBSET Nat
        OBVIOUS
  <2> HIDE DEF Bad
  <2> QED BY <2>1, Least
<1>2. CASE m = 0
  <2> DEFINE h == [k \in 0..0 |-> q[1]]
  <2>1. h = [k \in 0..0 |-> IF k = 0 THEN q[1] ELSE FlatStep(q, h[k - 1], k)]
        OBVIOUS
  <2>2. Flats(h, q, 0)
        BY <2>1 DEF Flats
  <2> QED BY <1>1, <1>2, <2>2
<1>3. CASE m # 0
  <2>1. m \in Nat /\ m - 1 \in Nat /\ ~(m <= m - 1)
        BY <1>1, <1>3
  <2>2. PICK g : Flats(g, q, m - 1)
        BY <1>1, <2>1
  <2> DEFINE last == FlatStep(q, g[m - 1], m)
             h == [k \in 0..m |-> IF k = m THEN last ELSE g[k]]
  <2>3. /\ DOMAIN g = 0..(m - 1) /\ g[0] = q[1]
        /\ \A k \in 1..(m - 1) : g[k] = FlatStep(q, g[k - 1], k)
        BY <2>1, <2>2 DEF Flats
  <2>4. h[0] = q[1] /\ h[m] = last /\ h[m - 1] = g[m - 1]
        BY <2>1, <2>3, <1>3
  <2>5. \A k \in 1..(m - 1) : h[k] = g[k] /\ h[k - 1] = g[k - 1]
        BY <2>1
  <2>6. \A k \in 0..m : h[k] = IF k = 0 THEN q[1] ELSE FlatStep(q, h[k - 1], k)
    <3> HIDE DEF h
    <3> SUFFICES ASSUME NEW k \in 0..m
                 PROVE  h[k] = IF k = 0 THEN q[1] ELSE FlatStep(q, h[k - 1], k)
        OBVIOUS
    <3>1. k = 0 \/ k = m \/ k \in 1..(m - 1)
          BY <2>1
    <3> QED BY <1>3, <2>3, <2>4, <2>5, <3>1
  <2>7. Flats(h, q, m)
    <3>1. h = [k \in 0..m |-> h[k]]
          OBVIOUS
    <3> HIDE DEF h
    <3>2. [k \in 0..m |-> h[k]]
            = [k \in 0..m |-> IF k = 0 THEN q[1] ELSE FlatStep(q, h[k - 1], k)]
          BY <2>6
    <3> QED BY <3>1, <3>2 DEF Flats
  <2> QED BY <1>1, <2>7
<1> QED BY <1>2, <1>3

\* What two lists in a row have is what each of them has.
LEMMA RangeJoined ==
    ASSUME NEW S, NEW a \in Seq(S), NEW b \in Seq(S)
    PROVE  a \o b \in Seq(S) /\ Range(a \o b) = Range(a) \cup Range(b)
<1>1. /\ a \o b \in Seq(S) /\ Len(a \o b) = Len(a) + Len(b)
      /\ \A k \in 1..Len(a) : (a \o b)[k] = a[k]
      /\ \A k \in 1..Len(b) : (a \o b)[Len(a) + k] = b[k]
      BY ConcatProperties
<1>2. /\ Len(a) \in Nat /\ DOMAIN a = 1..Len(a)
      /\ Len(b) \in Nat /\ DOMAIN b = 1..Len(b)
      /\ DOMAIN (a \o b) = 1..(Len(a) + Len(b))
      BY <1>1, LenProperties
<1> DEFINE r == a \o b
<1>3. /\ \A k \in 1..Len(a) : r[k] = a[k] /\ k \in DOMAIN r
      /\ \A k \in 1..Len(b) : r[Len(a) + k] = b[k] /\ Len(a) + k \in DOMAIN r
      BY <1>1, <1>2
<1>4. \A k \in DOMAIN r : k \in 1..Len(a) \/ \E j \in 1..Len(b) : k = Len(a) + j
  <2> SUFFICES ASSUME NEW k \in DOMAIN r, k \notin 1..Len(a)
               PROVE  \E j \in 1..Len(b) : k = Len(a) + j
      OBVIOUS
  <2>1. k \in 1..(Len(a) + Len(b)) /\ k - Len(a) \in 1..Len(b) /\ k = Len(a) + (k - Len(a))
        BY <1>2
  <2> QED BY <2>1
<1> HIDE DEF r
<1>5. Range(r) = {r[k] : k \in DOMAIN r} /\ Range(a) = {a[k] : k \in DOMAIN a}
      /\ Range(b) = {b[k] : k \in DOMAIN b}
      BY DEF Range
<1>6. Range(r) \subseteq Range(a) \cup Range(b)
      BY <1>2, <1>3, <1>4, <1>5
<1>7. Range(a) \subseteq Range(r) /\ Range(b) \subseteq Range(r)
      BY <1>2, <1>3, <1>5
<1> QED BY <1>1, <1>6, <1>7 DEF r

\* What FlattenSeq has is what the lists have.
LEMMA FlattenIs ==
    ASSUME NEW S, NEW n \in Nat, NEW q, q = [k \in 1..n |-> q[k]], \A k \in 1..n : q[k] \in Seq(S)
    PROVE  /\ FlattenSeq(q) \in Seq(S)
           /\ \A x : x \in Range(FlattenSeq(q)) <=> \E k \in 1..n : x \in Range(q[k])
<1>1. Len(q) = n /\ q \in Seq(Seq(S)) /\ DOMAIN q = 1..n
  <2>1. DOMAIN q = 1..n
        OBVIOUS
  <2>2. q \in [1..n -> Seq(S)]
        BY <2>1
  <2>3. q \in Seq(Seq(S))
        BY <2>2, SeqDef
  <2>4. Len(q) \in Nat /\ DOMAIN q = 1..Len(q)
        BY <2>3, LenProperties
  <2> QED BY <2>1, <2>3, <2>4
<1>2. CASE n = 0
  <2>1. FlattenSeq(q) = q
        BY <1>1, <1>2 DEF FlattenSeq
  <2>2. q = <<>>
        BY <1>1, <1>2, EmptySeq
  <2>3. Range(q) = {}
        BY <1>1, <1>2 DEF Range
  <2>4. <<>> \in Seq(S)
        BY EmptySeq
  <2>5. ~ \E k \in 1..n : TRUE
        BY <1>2
  <2> QED BY <2>1, <2>2, <2>3, <2>4, <2>5
<1>3. CASE n # 0
  <2> DEFINE Flattens(f) == f = [i \in 1..n |-> IF i = 1 THEN q[i] ELSE f[i - 1] \o q[i]]
             f == CHOOSE g : Flattens(g)
  <2>1. n - 1 \in Nat
        BY <1>3
  <2>2. PICK h : Flats(h, q, n - 1)
        BY <2>1, FlatsExists
  <2>3. h[0] = q[1] /\ \A k \in 1..(n - 1) : h[k] = h[k - 1] \o q[k + 1]
    <3>1. h[0] = q[1] /\ \A k \in 1..(n - 1) : h[k] = FlatStep(q, h[k - 1], k)
      <4>1. h = [k \in 0..(n - 1) |-> IF k = 0 THEN q[1] ELSE FlatStep(q, h[k - 1], k)]
            BY <2>2 DEF Flats
      <4>2. \A k \in 0..(n - 1) : h[k] = IF k = 0 THEN q[1] ELSE FlatStep(q, h[k - 1], k)
            BY <4>1, Zenon
      <4>3. 0 \in 0..(n - 1) /\ \A k \in 1..(n - 1) : k \in 0..(n - 1) /\ k # 0
            BY <2>1
      <4> QED BY <4>2, <4>3, Zenon
    <3> QED BY <3>1 DEF FlatStep
  <2>4. Flattens([i \in 1..n |-> h[i - 1]])
    <3> DEFINE g == [i \in 1..n |-> h[i - 1]]
    <3>1. ASSUME NEW i \in 1..n
          PROVE  g[i] = IF i = 1 THEN q[i] ELSE g[i - 1] \o q[i]
      <4>1. CASE i = 1
            BY <2>3, <4>1
      <4>2. CASE i # 1
        <5>1. i - 1 \in 1..(n - 1) /\ i - 1 \in 1..n /\ (i - 1) + 1 = i
              BY <4>2
        <5>2. g[i] = h[i - 1] /\ g[i - 1] = h[(i - 1) - 1]
              BY <5>1
        <5>3. h[i - 1] = h[(i - 1) - 1] \o q[(i - 1) + 1]
              BY <2>3, <5>1
        <5> HIDE DEF g
        <5> QED BY <4>2, <5>1, <5>2, <5>3
      <4> QED BY <4>1, <4>2
    <3>2. g = [i \in 1..n |-> g[i]]
          OBVIOUS
    <3> HIDE DEF g
    <3>3. [i \in 1..n |-> g[i]] = [i \in 1..n |-> IF i = 1 THEN q[i] ELSE g[i - 1] \o q[i]]
          BY <3>1
    <3>4. Flattens(g)
          BY <3>2, <3>3
    <3> QED BY <3>4 DEF g
  <2>5. FlattenSeq(q) = f[n]
        BY <1>1, <1>3 DEF FlattenSeq
  <2>6. Flattens(f)
    <3>1. \E g : Flattens(g)
          BY <2>4
    <3> HIDE DEF Flattens
    <3> QED BY <3>1
  <2> HIDE DEF f
  <2>7. f[1] = q[1] /\ \A i \in 1..n : i # 1 => f[i] = f[i - 1] \o q[i]
    <3>1. f = [i \in 1..n |-> IF i = 1 THEN q[i] ELSE f[i - 1] \o q[i]]
          BY <2>6
    <3> HIDE DEF Flattens
    <3>2. \A i \in 1..n : f[i] = IF i = 1 THEN q[i] ELSE f[i - 1] \o q[i]
          BY <3>1, Zenon
    <3>3. 1 \in 1..n
          BY <1>3
    <3> QED BY <3>2, <3>3, Zenon
  <2> HIDE DEF Flattens
  <2> DEFINE Good(i) == /\ f[i] \in Seq(S)
                        /\ \A x : x \in Range(f[i]) <=> \E k \in 1..i : x \in Range(q[k])
             Bad == {i \in 1..n : ~Good(i)}
  <2>8. Bad = {}
    <3> SUFFICES ASSUME Bad # {} PROVE FALSE
        OBVIOUS
    <3>1. PICK m \in Bad : \A k \in Bad : m <= k
      <4>1. Bad \in SUBSET Nat
            OBVIOUS
      <4> HIDE DEF Bad
      <4> QED BY <4>1, Least
    <3>2. m # 1
      <4>1. f[1] \in Seq(S)
        <5>1. 1 \in 1..n
              BY <1>3
        <5> QED BY <5>1, <2>7
      <4>2. \A x : x \in Range(f[1]) <=> \E k \in 1..1 : x \in Range(q[k])
            BY <2>7
      <4>3. Good(1)
            BY <4>1, <4>2
      <4> HIDE DEF Good
      <4> QED BY <3>1, <4>3
    <3>3. m \in 1..n /\ m - 1 \in 1..n /\ ~(m <= m - 1) /\ ~Good(m)
      <4> HIDE DEF Good
      <4>1. m \in 1..n /\ ~Good(m)
            BY <3>1
      <4> QED BY <4>1, <3>2
    <3>4. Good(m - 1)
      <4> HIDE DEF Good
      <4> QED BY <3>1, <3>3
    <3>5. f[m] = f[m - 1] \o q[m] /\ q[m] \in Seq(S)
          BY <2>7, <3>2, <3>3
    <3>6. f[m] \in Seq(S) /\ Range(f[m]) = Range(f[m - 1]) \cup Range(q[m])
          BY <3>4, <3>5, RangeJoined
    <3>7. \A k : k \in 1..m <=> k \in 1..(m - 1) \/ k = m
          BY <3>3
    <3>8. \A x : x \in Range(f[m]) <=> \E k \in 1..m : x \in Range(q[k])
          BY <3>4, <3>6, <3>7
    <3> QED BY <3>3, <3>6, <3>8
  <2>9. Good(n)
    <3>1. n \in 1..n
          BY <1>3
    <3> HIDE DEF Good
    <3> QED BY <3>1, <2>8
  <2> QED BY <2>5, <2>9
<1> QED BY <1>2, <1>3

\* The ranks of the places K run from 1 to their number, each once.
LEMMA Ranks ==
    ASSUME NEW n \in Nat, NEW K \in SUBSET (1..n)
    PROVE  /\ Cardinality(K) \in Nat
           /\ \A k \in K : Rank(K, k) \in 1..Cardinality(K)
           /\ \A j, k \in K : Rank(K, j) = Rank(K, k) => j = k
           /\ \A i \in 1..Cardinality(K) : \E k \in K : Rank(K, k) = i
  <1> DEFINE Upto(k) == {j \in K : j <= k}
  <1>0. IsFiniteSet(1..n)
    BY FS_Interval
  <1>1. IsFiniteSet(K) /\ Cardinality(K) \in Nat
    BY <1>0, FS_Subset, FS_CardinalityType
  <1>2. \A k \in K : IsFiniteSet(Upto(k)) /\ Cardinality(Upto(k)) \in Nat
                     /\ Cardinality(Upto(k)) <= Cardinality(K)
    <2> SUFFICES ASSUME NEW k \in K PROVE IsFiniteSet(Upto(k)) /\ Cardinality(Upto(k)) \in Nat
                     /\ Cardinality(Upto(k)) <= Cardinality(K)
      OBVIOUS
    <2>1. Upto(k) \in SUBSET K
      OBVIOUS
    <2> HIDE DEF Upto
    <2> QED
      BY <1>1, <2>1, FS_Subset, FS_CardinalityType
  <1>3. \A k \in K : Cardinality(Upto(k)) # 0
    <2> TAKE k \in K
    <2>1. k \in Upto(k)
      OBVIOUS
    <2> HIDE DEF Upto
    <2> QED
      BY <1>2, <2>1, FS_EmptySet
  <1>4. \A j, k \in K : j < k => Cardinality(Upto(j)) # Cardinality(Upto(k))
    <2> SUFFICES ASSUME NEW j \in K, NEW k \in K, j < k, Cardinality(Upto(j)) = Cardinality(Upto(k))
                 PROVE FALSE
      OBVIOUS
    <2>1. \A i \in K : i \in Int
      OBVIOUS
    <2>2. Upto(j) \subseteq Upto(k)
      <3> SUFFICES ASSUME NEW i \in K, i <= j PROVE i <= k
        OBVIOUS
      <3> QED
        BY <2>1
    <2>3. k \in Upto(k) /\ k \notin Upto(j)
      BY <2>1
    <2> HIDE DEF Upto
    <2>4. Upto(k) = Upto(j)
      BY <1>2, <2>2, FS_Subset
    <2> QED
      BY <2>3, <2>4
  <1>5. \A j, k \in K : Cardinality(Upto(j)) = Cardinality(Upto(k)) => j = k
    BY <1>4
  <1>6. \A k \in K : Rank(K, k) = Cardinality(Upto(k))
    BY DEF Rank
  <1> HIDE DEF Upto
  <1> DEFINE f == [k \in K |-> Rank(K, k)]
  <1>7. \A k \in K : Rank(K, k) \in 1..Cardinality(K)
    BY <1>1, <1>2, <1>3, <1>6
  <1>8. \A j, k \in K : Rank(K, j) = Rank(K, k) => j = k
    BY <1>5, <1>6
  <1>9. f \in Injection(K, 1..Cardinality(K))
    BY <1>7, <1>8 DEF Injection, IsInjective
  <1>10. IsFiniteSet(1..Cardinality(K)) /\ Cardinality(1..Cardinality(K)) = Cardinality(K)
    BY <1>1, FS_Interval
  <1>11. f \in Surjection(K, 1..Cardinality(K))
    BY <1>9, <1>10, FS_Injection
  <1>12. \A i \in 1..Cardinality(K) : \E k \in K : f[k] = i
    BY <1>11 DEF Surjection
  <1> QED
    BY <1>1, <1>7, <1>8, <1>12

\* Selected picks the elements at the places, each once.
LEMMA SelectedPlaces ==
    ASSUME NEW S, NEW q \in Seq(S), NEW K \in SUBSET DOMAIN q, NEW T, \A k \in K : q[k] \in T
    PROVE  /\ DOMAIN Selected(q, K) = 1..Cardinality(K) /\ Cardinality(K) \in Nat
           /\ Selected(q, K) \in Seq(T)
           /\ \A k \in K : Selected(q, K)[Rank(K, k)] = q[k] /\ Rank(K, k) \in DOMAIN Selected(q, K)
           /\ \A i \in DOMAIN Selected(q, K) : \E k \in K : Rank(K, k) = i
           /\ \A j, k \in K : Rank(K, j) = Rank(K, k) => j = k
  <1>1. DOMAIN q = 1..Len(q) /\ Len(q) \in Nat
    BY LenProperties
  <1>2. /\ Cardinality(K) \in Nat
        /\ \A k \in K : Rank(K, k) \in 1..Cardinality(K)
        /\ \A j, k \in K : Rank(K, j) = Rank(K, k) => j = k
        /\ \A i \in 1..Cardinality(K) : \E k \in K : Rank(K, k) = i
    BY <1>1, Ranks
  <1>3. DOMAIN Selected(q, K) = 1..Cardinality(K)
    BY DEF Selected
  <1>4. \A k \in K : Selected(q, K)[Rank(K, k)] = q[k]
    <2> TAKE k \in K
    <2>1. Selected(q, K)[Rank(K, k)] = q[CHOOSE j \in K : Rank(K, j) = Rank(K, k)]
      BY <1>2 DEF Selected
    <2>2. (CHOOSE j \in K : Rank(K, j) = Rank(K, k)) = k
      BY <1>2
    <2> QED
      BY <2>1, <2>2
  <1>5. \A i \in 1..Cardinality(K) : Selected(q, K)[i] \in T
    BY <1>2, <1>4
  <1>6. Selected(q, K) = [i \in 1..Cardinality(K) |-> Selected(q, K)[i]]
    BY DEF Selected
  <1>7. Selected(q, K) \in Seq(T)
    <2>1. Selected(q, K) \in [1..Cardinality(K) -> T]
      BY <1>5, <1>6
    <2> QED
      BY <1>2, <2>1, SeqDef
  <1> QED
    BY <1>2, <1>3, <1>4, <1>7

\* c lists the members of K.
Lists(c, K) == \E n \in Nat : /\ DOMAIN c = 1..n
                              /\ \A k \in 1..n : c[k] \in K
                              /\ \A t \in K : \E k \in 1..n : c[k] = t

\* The children of a run in order are those in its set that are registered.
LEMMA ChildrenAre ==
    ASSUME NEW e, DOMAIN e \subseteq SubIds, NEW s
    PROVE  Lists(Children(e, s), e[s].kids \cap DOMAIN e)
<1> DEFINE q == [t \in SubIds |-> t]
           K == e[s].kids \cap DOMAIN e
<1>1. MaxSubs \in Nat
      BY SizeAssumption DEF MaxSubs
<1>2. q \in Seq(SubIds) /\ DOMAIN q = SubIds
  <2>1. q \in [1..MaxSubs -> SubIds]
        BY DEF SubIds
  <2> HIDE DEF q
  <2> QED BY <1>1, <2>1, SeqDef DEF SubIds
<1>3. K \in SUBSET SubIds /\ \A k \in K : q[k] = k
      OBVIOUS
<1>4. Children(e, s) = Selected(q, K)
      BY DEF Children
<1> HIDE DEF q, K
<1>5. /\ DOMAIN Selected(q, K) = 1..Cardinality(K) /\ Cardinality(K) \in Nat
      /\ \A k \in K : Selected(q, K)[Rank(K, k)] = q[k] /\ Rank(K, k) \in DOMAIN Selected(q, K)
      /\ \A i \in DOMAIN Selected(q, K) : \E k \in K : Rank(K, k) = i
      BY <1>2, <1>3, SelectedPlaces
<1>6. \A k \in 1..Cardinality(K) : Selected(q, K)[k] \in K
      BY <1>3, <1>5
<1>7. \A t \in K : \E k \in 1..Cardinality(K) : Selected(q, K)[k] = t
      BY <1>3, <1>5
<1> DEFINE c == Children(e, s)
           m == Cardinality(K)
<1>8. /\ m \in Nat /\ DOMAIN c = 1..m
      /\ \A k \in 1..m : c[k] \in K
      /\ \A t \in K : \E k \in 1..m : c[k] = t
      BY <1>4, <1>5, <1>6, <1>7
<1> HIDE DEF c, m
<1>9. Lists(c, K)
      BY <1>8, Zenon DEF Lists
<1> QED BY <1>9 DEF K, c

\* A list of one.
LEMMA SingleIs == ASSUME NEW S, NEW x \in S PROVE <<x>> \in Seq(S) /\ Range(<<x>>) = {x}
<1> DEFINE q == <<x>>
<1>1. q = [k \in 1..1 |-> x]
      OBVIOUS
<1> HIDE DEF q
<1>2. DOMAIN q = 1..1 /\ q[1] = x /\ q \in [1..1 -> S]
      BY <1>1
<1>3. q \in Seq(S)
      BY <1>2, SeqDef
<1>4. Range(q) = {x}
      BY <1>2 DEF Range
<1> QED BY <1>3, <1>4 DEF q

\* A walk one level deeper: the run itself and the walks of its children.
LEMMA WalkDeeper ==
    ASSUME NEW e, DOMAIN e \subseteq SubIds, NEW level,
           \A t \in DOMAIN e : level[t] \in Seq(DOMAIN e), NEW t \in DOMAIN e
    PROVE  /\ Deeper(e, level)[t] \in Seq(DOMAIN e)
           /\ \A x : x \in Range(Deeper(e, level)[t]) <=>
                        \/ x = t
                        \/ \E k \in e[t].kids \cap DOMAIN e : x \in Range(level[k])
<1> DEFINE c == Children(e, t)
           K == e[t].kids \cap DOMAIN e
           q == [k \in DOMAIN c |-> level[c[k]]]
           one == <<t>>
<1>0. Lists(c, K)
      BY ChildrenAre
<1>2. Deeper(e, level)[t] = one \o FlattenSeq(q)
      BY DEF Deeper
<1>5. one \in Seq(DOMAIN e) /\ Range(one) = {t}
      BY SingleIs
<1> HIDE DEF c, one, K
<1>1. PICK n \in Nat : /\ DOMAIN c = 1..n
                       /\ \A k \in 1..n : c[k] \in K
                       /\ \A u \in K : \E k \in 1..n : c[k] = u
      BY <1>0, Zenon DEF Lists
<1>8. K \subseteq DOMAIN e
      BY DEF K
<1>3. q = [k \in 1..n |-> q[k]] /\ \A k \in 1..n : q[k] = level[c[k]] /\ q[k] \in Seq(DOMAIN e)
      BY <1>1, <1>8
<1> HIDE DEF q
<1>4. /\ FlattenSeq(q) \in Seq(DOMAIN e)
      /\ \A x : x \in Range(FlattenSeq(q)) <=> \E k \in 1..n : x \in Range(q[k])
      BY <1>3, FlattenIs
<1>6. /\ one \o FlattenSeq(q) \in Seq(DOMAIN e)
      /\ Range(one \o FlattenSeq(q)) = {t} \cup Range(FlattenSeq(q))
      BY <1>4, <1>5, RangeJoined
<1>7. ASSUME NEW x
      PROVE  x \in Range(FlattenSeq(q)) <=> \E k \in K : x \in Range(level[k])
  <2>1. ASSUME NEW k \in 1..n, x \in Range(q[k])
        PROVE  \E u \in K : x \in Range(level[u])
    <3>1. c[k] \in K /\ q[k] = level[c[k]]
          BY <1>1, <1>3
    <3> QED BY <2>1, <3>1
  <2>2. ASSUME NEW u \in K, x \in Range(level[u])
        PROVE  \E k \in 1..n : x \in Range(q[k])
    <3>1. PICK k \in 1..n : c[k] = u
          BY <1>1, Zenon
    <3>2. x \in Range(q[k])
          BY <1>3, <2>2, <3>1
    <3> QED BY <3>2
  <2> QED BY <1>4, <2>1, <2>2, Zenon
<1> QED BY <1>2, <1>6, <1>7 DEF K

\* What a walk is at each depth.
LEMMA WalkIs ==
    ASSUME NEW e, DOMAIN e \subseteq SubIds, NEW n \in Nat, NEW h, Walks(h, e, n)
    PROVE  /\ h[0] = [t \in DOMAIN e |-> <<t>>]
           /\ \A d \in 1..n : h[d] = Deeper(e, h[d - 1])
           /\ \A d \in 0..n, t \in DOMAIN e : h[d][t] \in Seq(DOMAIN e)
<1>1. /\ h[0] = [t \in DOMAIN e |-> <<t>>]
      /\ \A d \in 1..n : h[d] = Deeper(e, h[d - 1])
  <2>1. h = [k \in 0..n |-> IF k = 0 THEN [t \in DOMAIN e |-> <<t>>] ELSE Deeper(e, h[k - 1])]
        BY DEF Walks
  <2>2. \A k \in 0..n : h[k] = IF k = 0 THEN [t \in DOMAIN e |-> <<t>>] ELSE Deeper(e, h[k - 1])
        BY <2>1, Zenon
  <2>3. 0 \in 0..n /\ \A k \in 1..n : k \in 0..n /\ k # 0
        OBVIOUS
  <2> QED BY <2>2, <2>3, Zenon
<1> DEFINE Good(d) == \A t \in DOMAIN e : h[d][t] \in Seq(DOMAIN e)
           Bad == {d \in 0..n : ~Good(d)}
<1>2. Good(0)
      BY <1>1, SingleIs
<1>3. ASSUME NEW d \in 1..n, Good(d - 1)
      PROVE  Good(d)
      BY <1>1, <1>3, WalkDeeper
<1> HIDE DEF Good
<1>4. Bad = {}
  <2> SUFFICES ASSUME Bad # {} PROVE FALSE
      OBVIOUS
  <2>1. PICK m \in Bad : \A k \in Bad : m <= k
    <3>1. Bad \in SUBSET Nat
          OBVIOUS
    <3> HIDE DEF Bad
    <3> QED BY <3>1, Least
  <2>2. m # 0 /\ m \in 0..n /\ ~Good(m)
        BY <1>2, <2>1
  <2>3. m \in 1..n /\ m - 1 \in 0..n /\ ~(m <= m - 1)
        BY <2>2
  <2>4. Good(m - 1)
        BY <2>1, <2>3
  <2> QED BY <1>3, <2>2, <2>3, <2>4
<1> QED BY <1>1, <1>4 DEF Good

\* Below is a walk of full depth.
LEMMA BelowIs ==
    ASSUME NEW e, DOMAIN e \subseteq SubIds
    PROVE  \E h : Walks(h, e, MaxSubs) /\ \A s \in DOMAIN e : Below(e, s) = h[MaxSubs][s]
<1> DEFINE h == CHOOSE g : Walks(g, e, MaxSubs)
<1>1. MaxSubs \in Nat
      BY SizeAssumption DEF MaxSubs
<1>2. Walks(h, e, MaxSubs)
  <2>1. \E g : Walks(g, e, MaxSubs)
        BY <1>1, WalksExists
  <2> QED BY <2>1
<1>3. \A s \in DOMAIN e : Below(e, s) = h[MaxSubs][s]
      BY SMT DEF Below, Walks
<1> QED BY <1>2, <1>3

\* What a walk reaches, one level deeper it reaches too, and the children of it.
LEMMA WalkCloses ==
    ASSUME NEW e, DOMAIN e \subseteq SubIds, NEW n \in Nat, NEW h, Walks(h, e, n)
    PROVE  \A d \in 1..n : \A t \in DOMAIN e : \A u \in Range(h[d - 1][t]) :
              u \in Range(h[d][t]) /\ \A v \in e[u].kids \cap DOMAIN e : v \in Range(h[d][t])
<1>1. /\ h[0] = [t \in DOMAIN e |-> <<t>>]
      /\ \A d \in 1..n : h[d] = Deeper(e, h[d - 1])
      /\ \A d \in 0..n, t \in DOMAIN e : h[d][t] \in Seq(DOMAIN e)
      BY WalkIs
<1>2. ASSUME NEW d \in 1..n, NEW t \in DOMAIN e
      PROVE  \A x : x \in Range(h[d][t]) <=>
                       \/ x = t
                       \/ \E k \in e[t].kids \cap DOMAIN e : x \in Range(h[d - 1][k])
  <2>1. d - 1 \in 0..n
        OBVIOUS
  <2>2. \A u \in DOMAIN e : h[d - 1][u] \in Seq(DOMAIN e)
        BY <1>1, <2>1
  <2>3. h[d] = Deeper(e, h[d - 1])
        BY <1>1
  <2> DEFINE level == h[d - 1]
  <2>4. \A u \in DOMAIN e : level[u] \in Seq(DOMAIN e)
        BY <2>2
  <2> HIDE DEF level
  <2>5. \A x : x \in Range(Deeper(e, level)[t]) <=>
                  x = t \/ \E k \in e[t].kids \cap DOMAIN e : x \in Range(level[k])
        BY <2>4, WalkDeeper
  <2> QED BY <2>3, <2>5 DEF level
<1>3. ASSUME NEW t \in DOMAIN e
      PROVE  Range(h[0][t]) = {t}
      BY <1>1, SingleIs
<1> DEFINE Good(d) == \A t \in DOMAIN e : \A u \in Range(h[d - 1][t]) :
                         u \in Range(h[d][t]) /\ \A v \in e[u].kids \cap DOMAIN e : v \in Range(h[d][t])
           Bad == {d \in 1..n : ~Good(d)}
<1>4. ASSUME 1 \in 1..n
      PROVE  Good(1)
  <2> SUFFICES ASSUME NEW t \in DOMAIN e, NEW u \in Range(h[0][t])
               PROVE  u \in Range(h[1][t]) /\ \A v \in e[u].kids \cap DOMAIN e : v \in Range(h[1][t])
      OBVIOUS
  <2>1. u = t
        BY <1>3
  <2>2. \A x : x \in Range(h[1][t]) <=>
                       \/ x = t
                       \/ \E k \in e[t].kids \cap DOMAIN e : x \in Range(h[1 - 1][k])
        BY <1>2, <1>4
  <2>3. \A v \in e[t].kids \cap DOMAIN e : v \in Range(h[1 - 1][v])
        BY <1>3
  <2> QED BY <2>1, <2>2, <2>3
<1>5. ASSUME NEW d \in 2..n, Good(d - 1)
      PROVE  Good(d)
  <2> SUFFICES ASSUME NEW t \in DOMAIN e, NEW u \in Range(h[d - 1][t])
               PROVE  u \in Range(h[d][t]) /\ \A v \in e[u].kids \cap DOMAIN e : v \in Range(h[d][t])
      OBVIOUS
  <2>0. d \in 1..n /\ d - 1 \in 1..n
        OBVIOUS
  <2>1. \A x : x \in Range(h[d][t]) <=>
                  x = t \/ \E k \in e[t].kids \cap DOMAIN e : x \in Range(h[d - 1][k])
        BY <1>2, <2>0
  <2>2. u = t \/ \E k \in e[t].kids \cap DOMAIN e : u \in Range(h[(d - 1) - 1][k])
        BY <1>2, <2>0
  <2>3. CASE u = t
    <3>1. ASSUME NEW v \in e[t].kids \cap DOMAIN e PROVE v \in Range(h[d - 1][v])
          BY <1>2, <2>0
    <3> QED BY <2>1, <2>3, <3>1
  <2>4. CASE \E k \in e[t].kids \cap DOMAIN e : u \in Range(h[(d - 1) - 1][k])
    <3>1. PICK k \in e[t].kids \cap DOMAIN e : u \in Range(h[(d - 1) - 1][k])
          BY <2>4
    <3>2. u \in Range(h[d - 1][k]) /\ \A v \in e[u].kids \cap DOMAIN e : v \in Range(h[d - 1][k])
          BY <1>5, <3>1
    <3> QED BY <2>1, <3>1, <3>2
  <2> QED BY <2>2, <2>3, <2>4
<1> HIDE DEF Good
<1>6. Bad = {}
  <2> SUFFICES ASSUME Bad # {} PROVE FALSE
      OBVIOUS
  <2>1. PICK m \in Bad : \A k \in Bad : m <= k
    <3>1. Bad \in SUBSET Nat
          OBVIOUS
    <3> HIDE DEF Bad
    <3> QED BY <3>1, Least
  <2>2. m \in 1..n /\ ~Good(m)
        BY <2>1
  <2>3. m # 1
        BY <1>4, <2>2
  <2>4. m \in 2..n /\ m - 1 \in 1..n /\ ~(m <= m - 1)
        BY <2>2, <2>3
  <2>5. Good(m - 1)
        BY <2>1, <2>4
  <2> QED BY <1>5, <2>2, <2>4, <2>5
<1> QED BY <1>6 DEF Good

\* Under is a climb of full depth.
LEMMA UnderIs ==
    ASSUME NEW a
    PROVE  \E h : Climbs(h, entries, index, {index[a]}, MaxSubs) /\ Under(a) = h[MaxSubs]
<1> DEFINE h == CHOOSE g : Climbs(g, entries, index, {index[a]}, MaxSubs)
<1>1. MaxSubs \in Nat
      BY SizeAssumption DEF MaxSubs
<1>2. Climbs(h, entries, index, {index[a]}, MaxSubs)
  <2>1. \E g : Climbs(g, entries, index, {index[a]}, MaxSubs)
        BY <1>1, ClimbsExists
  <2> QED BY <2>1
<1>3. Under(a) = h[MaxSubs]
      BY SMT DEF Under, Climbs, UnderStep, Present
<1> QED BY <1>2, <1>3

\* Every current run whose parent is present is among the children of its
\* parent's current run.
Attached(e, i) == \A b \in DOMAIN i : LET up == e[i[b]].parent
                                     IN up \in DOMAIN i => i[b] \in e[i[up]].kids

\* A walk from the current run of an agent misses no current run below it.
LEMMA BelowReaches ==
    ASSUME NEW a \in DOMAIN index, DOMAIN entries \subseteq SubIds, Attached(entries, index),
           \A b \in DOMAIN index : index[b] \in DOMAIN entries
    PROVE  /\ Below(entries, index[a]) \in Seq(DOMAIN entries)
           /\ Under(a) \subseteq Range(Below(entries, index[a]))
<1>1. MaxSubs \in Nat /\ index[a] \in DOMAIN entries
      BY SizeAssumption DEF MaxSubs
<1>2. PICK w : Walks(w, entries, MaxSubs) /\ \A s \in DOMAIN entries : Below(entries, s) = w[MaxSubs][s]
      BY BelowIs
<1>3. PICK h : Climbs(h, entries, index, {index[a]}, MaxSubs) /\ Under(a) = h[MaxSubs]
      BY UnderIs
<1>4. /\ w[0] = [t \in DOMAIN entries |-> <<t>>]
      /\ \A d \in 0..MaxSubs, t \in DOMAIN entries : w[d][t] \in Seq(DOMAIN entries)
      BY <1>1, <1>2, WalkIs
<1>5. \A d \in 1..MaxSubs : \A u \in Range(w[d - 1][index[a]]) :
         /\ u \in Range(w[d][index[a]])
         /\ \A v \in entries[u].kids \cap DOMAIN entries : v \in Range(w[d][index[a]])
      BY <1>1, <1>2, WalkCloses
<1>6. h[0] = {index[a]} /\ \A d \in 1..MaxSubs : h[d] = UnderStep(entries, index, h[d - 1])
  <2>1. h = [k \in 0..MaxSubs |-> IF k = 0 THEN {index[a]} ELSE UnderStep(entries, index, h[k - 1])]
        BY <1>3 DEF Climbs
  <2>2. \A k \in 0..MaxSubs : h[k] = IF k = 0 THEN {index[a]} ELSE UnderStep(entries, index, h[k - 1])
        BY <2>1, Zenon
  <2>3. 0 \in 0..MaxSubs /\ \A k \in 1..MaxSubs : k \in 0..MaxSubs /\ k # 0
        BY <1>1
  <2> QED BY <2>2, <2>3, Zenon
<1> DEFINE Good(d) == h[d] \subseteq Range(w[d][index[a]])
           Bad == {d \in 0..MaxSubs : ~Good(d)}
<1>7. Good(0)
      BY <1>1, <1>4, <1>6, SingleIs
<1>8. ASSUME NEW d \in 1..MaxSubs, Good(d - 1)
      PROVE  Good(d)
  <2> SUFFICES ASSUME NEW s \in h[d] PROVE s \in Range(w[d][index[a]])
      OBVIOUS
  <2>1. CASE s \in h[d - 1]
        BY <1>5, <1>8, <2>1
  <2>2. CASE s \notin h[d - 1]
    <3>1. /\ s \in Range(index) /\ entries[s].parent \in DOMAIN index
          /\ index[entries[s].parent] \in h[d - 1]
          BY <1>6, <2>2 DEF UnderStep
    <3>2. PICK b \in DOMAIN index : index[b] = s
          BY <3>1 DEF Range
    <3>3. s \in entries[index[entries[s].parent]].kids \cap DOMAIN entries
          BY <3>1, <3>2 DEF Attached
    <3>4. index[entries[s].parent] \in Range(w[d - 1][index[a]])
          BY <1>8, <3>1
    <3> QED BY <1>5, <3>3, <3>4
  <2> QED BY <2>1, <2>2
<1> HIDE DEF Good
<1>9. Bad = {}
  <2> SUFFICES ASSUME Bad # {} PROVE FALSE
      OBVIOUS
  <2>1. PICK m \in Bad : \A k \in Bad : m <= k
    <3>1. Bad \in SUBSET Nat
          BY <1>1
    <3> HIDE DEF Bad
    <3> QED BY <3>1, Least
  <2>2. m # 0 /\ m \in 0..MaxSubs /\ ~Good(m)
        BY <1>7, <2>1
  <2>3. m \in 1..MaxSubs /\ m - 1 \in 0..MaxSubs /\ ~(m <= m - 1)
        BY <1>1, <2>2
  <2>4. Good(m - 1)
        BY <2>1, <2>3
  <2> QED BY <1>8, <2>2, <2>3, <2>4
<1>10. Good(MaxSubs) /\ w[MaxSubs][index[a]] \in Seq(DOMAIN entries)
  <2>1. MaxSubs \in 0..MaxSubs
        BY <1>1
  <2>2. Good(MaxSubs)
        BY <2>1, <1>9
  <2>3. w[MaxSubs][index[a]] \in Seq(DOMAIN entries)
        BY <2>1, <1>1, <1>4
  <2> QED BY <2>2, <2>3
<1> QED BY <1>1, <1>2, <1>3, <1>10 DEF Good

-----------------------------------------------------------------------------
\* The numbers of finalized runs are numbers.
Numbered(e) == \A s \in DOMAIN e : IsEntry(e[s]) /\ e[s].seq \in Nat

\* f is e without some runs: what stays has its children that stay, and what
\* left had none of them.
Lessened(e, f) ==
    /\ DOMAIN f \subseteq DOMAIN e /\ Numbered(f)
    /\ \A s \in DOMAIN f : f[s].seq = e[s].seq
    /\ \A s \in DOMAIN e \ DOMAIN f : e[s].seq # Unfinished
    /\ \A s \in DOMAIN e, k \in DOMAIN f : k \in e[s].kids => s \in DOMAIN f /\ k \in f[s].kids

\* One removal takes one leaf.
LEMMA PruneOnceIs ==
    ASSUME NEW e, NEW i, Leaves(e) # {}, Numbered(e)
    PROVE  \E g \in Leaves(e) :
              /\ DOMAIN PruneOnce(e, i).e = DOMAIN e \ {g}
              /\ \A s \in DOMAIN e \ {g} :
                    \/ PruneOnce(e, i).e[s] = e[s]
                    \/ PruneOnce(e, i).e[s] = [e[s] EXCEPT !.kids = @ \ {g}]
<1> DEFINE g == CHOOSE s \in Leaves(e) : \A t \in Leaves(e) : e[s].seq <= e[t].seq
<1>1. g \in Leaves(e)
  <2> DEFINE seqs == {e[s].seq : s \in Leaves(e)}
  <2>1. seqs \in SUBSET Nat /\ seqs # {}
        BY DEF Leaves, Finalized, Numbered
  <2> HIDE DEF seqs
  <2>2. PICK n \in seqs : \A m \in seqs : n <= m
        BY <2>1, Least
  <2>3. \E s \in Leaves(e) : \A t \in Leaves(e) : e[s].seq <= e[t].seq
        BY <2>2 DEF seqs
  <2> QED BY <2>3
<1> DEFINE up == e[g].parent
           holder == IF up \in DOMAIN i THEN i[up] ELSE NoAgent
           f == [s \in DOMAIN e \ {g} |-> IF s = holder THEN [e[s] EXCEPT !.kids = @ \ {g}] ELSE e[s]]
<1>2. PruneOnce(e, i).e = f
      BY DEF PruneOnce
<1> HIDE DEF g, holder
<1>3. /\ DOMAIN f = DOMAIN e \ {g}
      /\ \A s \in DOMAIN e \ {g} : f[s] = e[s] \/ f[s] = [e[s] EXCEPT !.kids = @ \ {g}]
      OBVIOUS
<1> HIDE DEF f
<1> QED BY <1>1, <1>2, <1>3

\* One removal more.
LEMMA PruneOnceLessens ==
    ASSUME NEW e, NEW f, Lessened(e, f), NEW i, Leaves(f) # {}
    PROVE  /\ Lessened(e, PruneOnce(f, i).e)
           /\ \E g \in DOMAIN f : DOMAIN PruneOnce(f, i).e = DOMAIN f \ {g}
<1> DEFINE p == PruneOnce(f, i).e
<1>1. PICK g \in Leaves(f) : /\ DOMAIN p = DOMAIN f \ {g}
                             /\ \A s \in DOMAIN f \ {g} :
                                   p[s] = f[s] \/ p[s] = [f[s] EXCEPT !.kids = @ \ {g}]
      BY PruneOnceIs DEF Lessened
<1> HIDE DEF p
<1>2. g \in DOMAIN f /\ f[g].kids = {} /\ f[g].seq # Unfinished
      BY DEF Leaves, Finalized
<1>3. ASSUME NEW s \in DOMAIN p
      PROVE  /\ IsEntry(p[s]) /\ p[s].seq \in Nat /\ p[s].seq = f[s].seq
             /\ \A k \in DOMAIN p : k \in f[s].kids => k \in p[s].kids
  <2>1. IsEntry(f[s]) /\ f[s].seq \in Nat
        BY <1>1 DEF Lessened, Numbered
  <2>2. CASE p[s] = f[s]
        BY <2>1, <2>2
  <2>3. CASE p[s] = [f[s] EXCEPT !.kids = @ \ {g}]
    <3>1. IsEntry(p[s]) /\ p[s].seq = f[s].seq /\ p[s].kids = f[s].kids \ {g}
          BY <2>1, <2>3 DEF IsEntry
    <3> QED BY <2>1, <3>1, <1>1
  <2> QED BY <1>1, <2>2, <2>3
<1>4. Lessened(e, p)
  <2>1. DOMAIN p \subseteq DOMAIN e /\ Numbered(p)
        BY <1>1, <1>3 DEF Lessened, Numbered
  <2>3. \A s \in DOMAIN p : p[s].seq = e[s].seq
        BY <1>1, <1>3 DEF Lessened
  <2>4. \A s \in DOMAIN e \ DOMAIN p : e[s].seq # Unfinished
        BY <1>1, <1>2 DEF Lessened
  <2>2. ASSUME NEW s \in DOMAIN e, NEW k \in DOMAIN p, k \in e[s].kids
        PROVE  s \in DOMAIN p /\ k \in p[s].kids
    <3>1. k \in DOMAIN f /\ s \in DOMAIN f /\ k \in f[s].kids
          BY <1>1, <2>2 DEF Lessened
    <3>2. s # g
          BY <1>2, <3>1
    <3> QED BY <1>1, <1>3, <3>1, <3>2
  <2> QED BY <2>1, <2>2, <2>3, <2>4 DEF Lessened
<1> QED BY <1>1, <1>2, <1>4 DEF p

\* Where more leaves than the limit are left, there is one to take.
LEMMA MoreLeaves == ASSUME NEW f, Cardinality(Leaves(f)) > RetainLimit PROVE Leaves(f) # {}
<1> SUFFICES ASSUME Leaves(f) = {} PROVE FALSE
    OBVIOUS
<1>1. Cardinality(Leaves(f)) = 0
      BY FS_EmptySet
<1> QED BY <1>1, LimitAssumption

\* What a prune leaves.
LEMMA PrunedLessens ==
    ASSUME NEW e, NEW i, DOMAIN e \subseteq SubIds, Numbered(e)
    PROVE  Lessened(e, Pruned(e, i))
<1> DEFINE h == CHOOSE g : Prunes(g, e, i, MaxSubs)
           Full(m) == Cardinality(Leaves(h[m].e)) > RetainLimit
           Small(m) == Cardinality(Leaves(h[m].e)) <= RetainLimit
           stop == CHOOSE n \in 0..MaxSubs : Small(n) /\ \A m \in 0..(n-1) : Full(m)
<1>1. MaxSubs \in Nat
      BY SizeAssumption DEF MaxSubs
<1>2. Prunes(h, e, i, MaxSubs)
  <2>1. \E g : Prunes(g, e, i, MaxSubs)
        BY <1>1, PrunesExists
  <2> QED BY <2>1
<1>3. Pruned(e, i) = h[stop].e
      BY SMT DEF Pruned, Prunes, PruneStep
<1> HIDE DEF h
<1>4. h[0] = [e |-> e, i |-> i] /\ \A d \in 1..MaxSubs : h[d] = PruneOnce(h[d - 1].e, h[d - 1].i)
  <2>1. h = [k \in 0..MaxSubs |-> IF k = 0 THEN [e |-> e, i |-> i] ELSE PruneStep(h[k - 1])]
        BY <1>2 DEF Prunes
  <2>2. \A k \in 0..MaxSubs : h[k] = IF k = 0 THEN [e |-> e, i |-> i] ELSE PruneStep(h[k - 1])
        BY <2>1, Zenon
  <2>3. 0 \in 0..MaxSubs /\ \A k \in 1..MaxSubs : k \in 0..MaxSubs /\ k # 0
        BY <1>1
  <2>4. h[0] = [e |-> e, i |-> i] /\ \A d \in 1..MaxSubs : h[d] = PruneStep(h[d - 1])
        BY <2>2, <2>3, Zenon
  <2> QED BY <2>4 DEF PruneStep
<1> DEFINE N == Cardinality(DOMAIN e)
           Good(m) == (\A k \in 0..(m-1) : Full(k)) =>
                         /\ Lessened(e, h[m].e)
                         /\ IsFiniteSet(DOMAIN h[m].e) /\ Cardinality(DOMAIN h[m].e) + m = N
           Bad == {m \in 0..MaxSubs : ~Good(m)}
<1>5. IsFiniteSet(DOMAIN e) /\ N \in Nat /\ N <= MaxSubs
  <2>1. IsFiniteSet(SubIds) /\ Cardinality(SubIds) = MaxSubs
        BY <1>1, FS_Interval DEF SubIds
  <2> QED BY <2>1, FS_Subset, FS_CardinalityType
<1>6. Good(0)
  <2>1. h[0].e = e
        BY <1>4
  <2>2. Lessened(e, e)
        BY DEF Lessened
  <2> QED BY <1>5, <2>1, <2>2
<1>7. ASSUME NEW d \in 1..MaxSubs, Good(d - 1)
      PROVE  Good(d)
  <2> SUFFICES ASSUME \A k \in 0..(d-1) : Full(k)
               PROVE  /\ Lessened(e, h[d].e)
                      /\ IsFiniteSet(DOMAIN h[d].e) /\ Cardinality(DOMAIN h[d].e) + d = N
      OBVIOUS
  <2> DEFINE f == h[d - 1].e
             j == h[d - 1].i
  <2>1. d - 1 \in 0..(d-1) /\ \A k \in 0..((d-1)-1) : k \in 0..(d-1)
        OBVIOUS
  <2>2. Full(d - 1) /\ \A k \in 0..((d-1)-1) : Full(k)
        BY <2>1
  <2>3. Lessened(e, f) /\ IsFiniteSet(DOMAIN f) /\ Cardinality(DOMAIN f) + (d - 1) = N
        BY <1>7, <2>2
  <2>4. h[d].e = PruneOnce(f, j).e
        BY <1>4
  <2>5. Cardinality(Leaves(f)) > RetainLimit
        BY <2>2
  <2> HIDE DEF f, j, Full, Good
  <2>6. Leaves(f) # {}
        BY <2>5, MoreLeaves
  <2>7. Lessened(e, h[d].e) /\ \E g \in DOMAIN f : DOMAIN h[d].e = DOMAIN f \ {g}
        BY <2>3, <2>4, <2>6, PruneOnceLessens
  <2>8. PICK g \in DOMAIN f : DOMAIN h[d].e = DOMAIN f \ {g}
        BY <2>7
  <2>9. IsFiniteSet(DOMAIN h[d].e) /\ Cardinality(DOMAIN h[d].e) = Cardinality(DOMAIN f) - 1
        BY <2>3, <2>8, FS_RemoveElement
  <2>10. Cardinality(DOMAIN f) \in Nat
        BY <2>3, FS_CardinalityType
  <2> QED BY <1>5, <2>3, <2>7, <2>9, <2>10
<1> HIDE DEF Good
<1>8. Bad = {}
  <2> SUFFICES ASSUME Bad # {} PROVE FALSE
      OBVIOUS
  <2>1. PICK m \in Bad : \A k \in Bad : m <= k
    <3>1. Bad \in SUBSET Nat
          BY <1>1
    <3> HIDE DEF Bad
    <3> QED BY <3>1, Least
  <2>2. m # 0 /\ m \in 0..MaxSubs /\ ~Good(m)
        BY <1>6, <2>1
  <2>3. m \in 1..MaxSubs /\ m - 1 \in 0..MaxSubs /\ ~(m <= m - 1)
        BY <1>1, <2>2
  <2>4. Good(m - 1)
        BY <2>1, <2>3
  <2> QED BY <1>7, <2>2, <2>3, <2>4
\* If every removal left too many, none would be left in the end.
<1>9. \E n \in 0..MaxSubs : ~Full(n)
  <2> SUFFICES ASSUME \A n \in 0..MaxSubs : Full(n) PROVE FALSE
      OBVIOUS
  <2>1. MaxSubs \in 0..MaxSubs /\ \A k \in 0..(MaxSubs-1) : k \in 0..MaxSubs
        BY <1>1
  <2>2. Good(MaxSubs)
        BY <1>8, <2>1
  <2> DEFINE f == h[MaxSubs].e
  <2>3. IsFiniteSet(DOMAIN f) /\ Cardinality(DOMAIN f) + MaxSubs = N
        BY <2>1, <2>2 DEF Good
  <2>4. Cardinality(Leaves(f)) > RetainLimit
        BY <2>1
  <2> HIDE DEF f, N
  <2>5. Leaves(f) # {} /\ Leaves(f) \subseteq DOMAIN f
        BY <2>4, MoreLeaves DEF Leaves, Finalized
  <2>6. Cardinality(DOMAIN f) \in Nat
        BY <2>3, FS_CardinalityType
  <2>7. Cardinality(DOMAIN f) = 0
        BY <1>1, <1>5, <2>3, <2>6
  <2>8. DOMAIN f = {}
        BY <2>3, <2>7, FS_EmptySet
  <2> QED BY <2>5, <2>8
<1>10. \E n \in 0..MaxSubs : Small(n) /\ \A m \in 0..(n-1) : Full(m)
  <2> DEFINE Ends == {n \in 0..MaxSubs : ~Full(n)}
  <2>1. Ends # {} /\ Ends \in SUBSET Nat
        BY <1>1, <1>9
  <2> HIDE DEF Ends
  <2>2. PICK n \in Ends : \A m \in Ends : n <= m
        BY <2>1, Least
  <2>3. n \in 0..MaxSubs /\ ~Full(n)
        BY <2>2 DEF Ends
  <2>4. \A m \in 0..(n-1) : Full(m)
    <3> SUFFICES ASSUME NEW m \in 0..(n-1), ~Full(m) PROVE FALSE
        OBVIOUS
    <3>1. m \in 0..MaxSubs /\ ~(n <= m)
          BY <1>1, <2>3
    <3>2. m \in Ends
          BY <3>1 DEF Ends
    <3> QED BY <2>2, <3>1, <3>2
  <2>5. Small(n)
    <3> DEFINE f == h[n].e
    <3>1. Good(n)
          BY <1>8, <2>3
    <3>2. IsFiniteSet(DOMAIN f)
          BY <2>4, <3>1 DEF Good
    <3> HIDE DEF f
    <3>3. Leaves(f) \subseteq DOMAIN f
          BY DEF Leaves, Finalized
    <3>4. Cardinality(Leaves(f)) \in Nat
          BY <3>2, <3>3, FS_Subset, FS_CardinalityType
    <3> QED BY <2>3, <3>4, LimitAssumption DEF f
  <2> QED BY <2>3, <2>4, <2>5
<1>11. stop \in 0..MaxSubs /\ \A m \in 0..(stop-1) : Full(m)
  <2> HIDE DEF Small, Full
  <2> QED BY <1>10
<1> HIDE DEF stop
<1>12. Good(stop)
      BY <1>8, <1>11
<1>13. Lessened(e, h[stop].e)
      BY <1>11, <1>12 DEF Good
<1> QED BY <1>3, <1>13

\* The tree by the index: current runs hang below the current run of their
\* parent, and of a root that left the registry nothing is known.
Tree(e, i) == /\ Attached(e, i)
              /\ Root \notin DOMAIN i => \A b \in DOMAIN i : e[i[b]].parent # Root

\* No more runs than the model has numbers for.
Sized == Len(owner) <= MaxSubs /\ nextSeq \in Nat \ {0}

\* No agent is its own parent, and every parent was made.
Parents == \A s \in DOMAIN entries : /\ entries[s].seq \in Nat
                                     /\ entries[s].parent \in {NoAgent} \cup DOMAIN owner
                                     /\ entries[s].parent # owner[s]

\* The inductive invariant of the tree.  That a close reaches everything is not
\* inductive, it says nothing of one state; that current runs hang below their
\* parents' current runs is, once no agent is its own parent and a root that comes
\* back finds no children left.
TreeSound == Sized /\ Parents /\ Tree(entries, index)

\* Every run has one of the numbers.
LEMMA SubsBounded ==
    ASSUME RunsOnly, Sized
    PROVE  DOMAIN owner \subseteq SubIds /\ DOMAIN entries \subseteq SubIds
<1>1. owner \in Seq(Nat) /\ DOMAIN entries \subseteq DOMAIN owner
      BY DEF RunsOnly, RunsNumbered, EntriesSound
<1>2. DOMAIN owner = 1..Len(owner) /\ Len(owner) \in Nat /\ MaxSubs \in Nat
      BY <1>1, SizeAssumption, LenProperties DEF MaxSubs
<1> QED BY <1>1, <1>2 DEF Sized, SubIds

\* A prune leaves a tree.
LEMMA PruneTree ==
    ASSUME NEW STATE e, NEW STATE i, NEW STATE cleared, PruneTo(e, i, cleared),
           DOMAIN e \subseteq SubIds, Numbered(e), Tree(e, i),
           \A b \in DOMAIN i : i[b] \in DOMAIN e /\ (owner[i[b]] = b \/ e[i[b]].seq = Unfinished),
           \A s \in DOMAIN e : e[s].seq # Unfinished /\ owner[s] = Root => s = Root,
           Root \in DOMAIN i => i[Root] = Root
    PROVE  Tree(entries, index)'
<1> DEFINE kept == Pruned(e, i)
           gone == {s \in Finalized(e) : s \notin DOMAIN kept}
<1>1. /\ entries' = [s \in DOMAIN e \ gone |-> [e[s] EXCEPT !.kids = kept[s].kids]]
      /\ index' = [a \in DOMAIN i \ {owner[s] : s \in gone} |-> i[a]]
      BY DEF PruneTo
<1>2. Lessened(e, kept)
      BY PrunedLessens
<1> HIDE DEF kept
<1>3. gone \subseteq DOMAIN e /\ DOMAIN e \ gone = DOMAIN kept /\ \A s \in gone : e[s].seq # Unfinished
      BY <1>2 DEF Finalized, Lessened
<1> HIDE DEF gone
<1>4. DOMAIN entries' = DOMAIN kept
      BY <1>1, <1>3
<1>5. ASSUME NEW s \in DOMAIN entries'
      PROVE  entries'[s].parent = e[s].parent /\ entries'[s].kids = kept[s].kids
  <2>1. entries'[s] = [e[s] EXCEPT !.kids = kept[s].kids]
        BY <1>1, <1>3, <1>4
  <2>2. IsEntry(e[s])
        BY <1>2, <1>4 DEF Lessened, Numbered
  <2> QED BY <2>1, <2>2 DEF IsEntry
<1>6. \A s \in DOMAIN e, k \in DOMAIN entries' :
         k \in e[s].kids => s \in DOMAIN entries' /\ k \in entries'[s].kids
      BY <1>2, <1>4, <1>5 DEF Lessened
<1>7. /\ DOMAIN index' = DOMAIN i \ {owner[s] : s \in gone}
      /\ \A b \in DOMAIN index' : index'[b] = i[b] /\ b \in DOMAIN i /\ i[b] \in DOMAIN entries'
      BY <1>1, <1>3, <1>4
<1>8. Attached(entries, index)'
  <2> SUFFICES ASSUME NEW b \in DOMAIN index', entries'[index'[b]].parent \in DOMAIN index'
               PROVE  index'[b] \in entries'[index'[entries'[index'[b]].parent]].kids
      BY DEF Attached
  <2> DEFINE up == e[i[b]].parent
  <2>1. /\ index'[b] = i[b] /\ entries'[index'[b]].parent = up /\ index'[up] = i[up]
        /\ i[b] \in DOMAIN entries' /\ i[up] \in DOMAIN e
        BY <1>5, <1>7
  <2>2. i[b] \in e[i[up]].kids
        BY <1>7, <2>1 DEF Tree, Attached
  <2> HIDE DEF up
  <2> QED BY <1>6, <2>1, <2>2
<1>9. ASSUME Root \notin DOMAIN index', NEW b \in DOMAIN index', entries'[index'[b]].parent = Root
      PROVE  FALSE
  <2>1. b \in DOMAIN i /\ e[i[b]].parent = Root /\ i[b] \in DOMAIN entries'
        BY <1>5, <1>7, <1>9
  <2>2. Root \in DOMAIN i
        BY <2>1 DEF Tree
  <2>3. i[Root] = Root /\ Root \in DOMAIN e /\ i[b] \in e[Root].kids
        BY <2>1, <2>2 DEF Tree, Attached
  <2>4. Root \in DOMAIN entries'
        BY <1>6, <2>1, <2>3
  <2>5. PICK s \in gone : owner[s] = Root
        BY <1>7, <1>9, <2>2
  <2>6. s = Root
        BY <1>3, <2>5
  <2> QED BY <1>3, <1>4, <2>4, <2>5, <2>6
<1> QED BY <1>8, <1>9 DEF Tree

\* The same for runs that end: no run comes, and none changes its place.
LEMMA EndsKeepTree ==
    ASSUME RunsOnly, TreeSound, UNCHANGED owner, nextSeq' \in Nat \ {0},
           NEW STATE e, NEW STATE cleared, PruneTo(e, index, cleared),
           DOMAIN e = DOMAIN entries,
           \A s \in DOMAIN e : /\ IsEntry(e[s]) /\ e[s].seq \in Nat
                               /\ e[s].parent = entries[s].parent /\ e[s].kids = entries[s].kids
    PROVE  TreeSound'
<1>1. \A b \in DOMAIN index : index[b] \in DOMAIN e /\ owner[index[b]] = b
      BY DEF RunsOnly, IndexSound
<1>2. Tree(e, index)
      BY <1>1 DEF TreeSound, Tree, Attached
<1>3. DOMAIN e \subseteq SubIds /\ Numbered(e)
      BY SubsBounded DEF TreeSound, Numbered
<1>4. \A s \in DOMAIN e : owner[s] = Root => s = Root
      BY DEF RunsOnly, RunsNumbered, EntriesSound
<1>5. Tree(entries, index)'
      BY <1>1, <1>2, <1>3, <1>4, PruneTree
<1>6. /\ DOMAIN entries' \subseteq DOMAIN e
      /\ \A s \in DOMAIN entries' : entries'[s].parent = e[s].parent /\ entries'[s].seq = e[s].seq
      BY PruneKeeps
<1>7. Parents'
      BY <1>6 DEF TreeSound, Parents
<1>8. Sized'
      BY DEF TreeSound, Sized
<1> QED BY <1>5, <1>7, <1>8 DEF TreeSound

\* What changes no place of a run and ends none.
LEMMA StillTree ==
    ASSUME TreeSound, UNCHANGED <<owner, index, nextSeq>>, DOMAIN entries' = DOMAIN entries,
           \A b \in DOMAIN index : index[b] \in DOMAIN entries,
           \A s \in DOMAIN entries : /\ entries'[s].seq = entries[s].seq
                                     /\ entries'[s].parent = entries[s].parent
                                     /\ entries'[s].kids = entries[s].kids
    PROVE  TreeSound'
<1>1. Sized' /\ Parents'
      BY DEF TreeSound, Sized, Parents
<1>2. Tree(entries, index)'
      BY DEF TreeSound, Tree, Attached
<1> QED BY <1>1, <1>2 DEF TreeSound

\* A new inbox or a new status moves no run.
LEMMA FieldTree ==
    ASSUME RunsOnly, TreeSound, UNCHANGED <<owner, index, nextSeq>>, NEW a \in DOMAIN index,
           NEW STATE v, \/ entries' = [entries EXCEPT ![index[a]].inbox = v]
                        \/ entries' = [entries EXCEPT ![index[a]].status = v]
    PROVE  TreeSound'
<1>1. \A s \in DOMAIN entries : IsEntry(entries[s])
      BY DEF RunsOnly, EntriesSound
<1>2. DOMAIN entries' = DOMAIN entries
      OBVIOUS
<1>3. ASSUME NEW s \in DOMAIN entries
      PROVE  /\ entries'[s].seq = entries[s].seq /\ entries'[s].parent = entries[s].parent
             /\ entries'[s].kids = entries[s].kids
  <2>1. \/ entries'[s] = entries[s]
        \/ entries'[s] = [entries[s] EXCEPT !.inbox = v]
        \/ entries'[s] = [entries[s] EXCEPT !.status = v]
        OBVIOUS
  <2> QED BY <1>1, <2>1 DEF IsEntry
<1> QED BY <1>2, <1>3, StillTree DEF RunsOnly, IndexSound

\* Nor does a step of another part.
LEMMA SameTree ==
    ASSUME RunsOnly, TreeSound, UNCHANGED <<owner, entries, index, nextSeq>> PROVE TreeSound'
<1> QED BY StillTree DEF RunsOnly, IndexSound

-----------------------------------------------------------------------------
\* The root comes back without children, and none are waiting for it.
LEMMA RootTree == ASSUME Registry, TreeSound, RegisterRoot PROVE TreeSound'
<1>1. /\ entries' = [s \in DOMAIN entries \cup {Root} |->
                       IF s = Root THEN NewEntry(NoAgent, 0, {}, "Running") ELSE entries[s]]
      /\ index' = [a \in DOMAIN index \cup {Root} |-> IF a = Root THEN Root ELSE index[a]]
      /\ owner' = owner /\ nextSeq' = nextSeq /\ Root \notin DOMAIN index
      BY DEF RegisterRoot, Present
<1>2. Root \in DOMAIN owner /\ owner[Root] = Root
      BY DEF Registry, RunsNumbered, Root
<1>3. \A b \in DOMAIN index : b # Root /\ index[b] # Root /\ index[b] \in DOMAIN entries
      BY <1>1, <1>2 DEF Registry, IndexSound
<1>4. LET new == NewEntry(NoAgent, 0, {}, "Running")
      IN new.seq = 0 /\ new.parent = NoAgent
      BY DEF NewEntry, Unfinished
<1>5. /\ DOMAIN entries' = DOMAIN entries \cup {Root}
      /\ entries'[Root].seq = 0 /\ entries'[Root].parent = NoAgent
      /\ \A s \in DOMAIN entries \ {Root} : entries'[s] = entries[s]
      BY <1>1, <1>4
<1>6. Parents'
      BY <1>1, <1>2, <1>5 DEF TreeSound, Parents, NoAgent, Root
<1>7. /\ DOMAIN index' = DOMAIN index \cup {Root} /\ index'[Root] = Root
      /\ \A b \in DOMAIN index : index'[b] = index[b] /\ entries'[index[b]] = entries[index[b]]
                                 /\ entries[index[b]].parent # Root
      BY <1>1, <1>3, <1>5 DEF TreeSound, Tree
<1>8. NoAgent \notin DOMAIN index'
  <2>1. \A b \in DOMAIN index : b \in Nat /\ b # NoAgent
        BY <1>3 DEF Registry, IndexSound, EntriesSound, RunsNumbered, NoAgent
  <2> QED BY <1>7, <2>1 DEF NoAgent, Root
<1>9. Tree(entries, index)'
  <2> SUFFICES ASSUME NEW b \in DOMAIN index', entries'[index'[b]].parent \in DOMAIN index'
               PROVE  index'[b] \in entries'[index'[entries'[index'[b]].parent]].kids
      BY <1>7 DEF Tree, Attached
  <2>1. b # Root
        BY <1>5, <1>7, <1>8
  <2>2. /\ b \in DOMAIN index /\ index'[b] = index[b] /\ entries'[index[b]] = entries[index[b]]
        /\ entries[index[b]].parent \in DOMAIN index
        BY <1>7, <2>1
  <2>3. index[b] \in entries[index[entries[index[b]].parent]].kids
        BY <2>2 DEF TreeSound, Tree, Attached
  <2> QED BY <1>7, <2>2, <2>3
<1> QED BY <1>1, <1>6, <1>9 DEF TreeSound, Sized

\* A child is hung below the current run of its parent.
LEMMA SpawnTree ==
    ASSUME Registry, TreeSound, NEW c \in Calls, NEW p \in SubIds, Spawn(c, p)
    PROVE  TreeSound'
<1> DEFINE n == Len(owner) + 1
           e == [t \in DOMAIN entries \cup {n} |->
                  IF t = n THEN NewEntry(p, Current(p).depth + 1, {}, "Pending")
                  ELSE IF t = index[p] THEN [entries[t] EXCEPT !.kids = @ \cup {n}]
                  ELSE entries[t]]
           i == [a \in DOMAIN index \cup {n} |-> IF a = n THEN n ELSE index[a]]
<1>1. owner \in Seq(Nat) /\ n \in Nat /\ n > 1 /\ n \notin DOMAIN owner /\ DOMAIN owner = 1..Len(owner)
      BY DEF Registry, RunsNumbered
<1>2. /\ owner' = Append(owner, n) /\ nextSeq' = nextSeq /\ n \in SubIds /\ p \in DOMAIN index
      /\ PruneTo(e, i, {})
      BY DEF Spawn, RoomForOne, MaySpawn, Present
<1>3. /\ Len(owner') = n /\ DOMAIN owner' = DOMAIN owner \cup {n}
      /\ owner'[n] = n /\ \A s \in DOMAIN owner : owner'[s] = owner[s]
      BY <1>1, <1>2
<1>4. /\ \A s \in DOMAIN owner : owner[s] \in DOMAIN owner /\ (owner[s] = Root => s = Root)
      /\ \A b \in DOMAIN index : /\ index[b] \in DOMAIN entries /\ owner[index[b]] = b
                                 /\ b \in DOMAIN owner
      BY <1>1 DEF Registry, RunsNumbered, IndexSound, EntriesSound
<1>5. \A s \in DOMAIN entries : IsEntry(entries[s]) /\ s # n /\ s \in DOMAIN owner
      BY <1>1 DEF Registry, EntriesSound
<1>6. /\ DOMAIN e = DOMAIN entries \cup {n}
      /\ IsEntry(e[n]) /\ e[n].seq = Unfinished /\ e[n].parent = p
  <2>1. DOMAIN e = DOMAIN entries \cup {n} /\ e[n] = NewEntry(p, Current(p).depth + 1, {}, "Pending")
        OBVIOUS
  <2> QED BY <2>1 DEF IsEntry, NewEntry
<1>7. ASSUME NEW s \in DOMAIN entries
      PROVE  /\ IsEntry(e[s]) /\ e[s].seq = entries[s].seq /\ e[s].parent = entries[s].parent
             /\ e[s].kids = IF s = index[p] THEN entries[s].kids \cup {n} ELSE entries[s].kids
  <2>1. e[s] = IF s = index[p] THEN [entries[s] EXCEPT !.kids = @ \cup {n}] ELSE entries[s]
        BY <1>5
  <2>2. IsEntry(entries[s])
        BY <1>5
  <2> HIDE DEF e
  <2> QED BY <2>1, <2>2 DEF IsEntry
<1>8. /\ DOMAIN i = DOMAIN index \cup {n} /\ i[n] = n /\ n \notin DOMAIN index
      /\ \A b \in DOMAIN index : i[b] = index[b] /\ b # n
      BY <1>1, <1>4
<1> HIDE DEF e, i, n
<1>9. \A s \in DOMAIN entries : /\ entries[s].seq \in Nat
                                /\ entries[s].parent \in {NoAgent} \cup DOMAIN owner
                                /\ entries[s].parent # owner[s]
      BY DEF TreeSound, Parents
<1>same. \A s \in DOMAIN entries : e[s].seq = entries[s].seq /\ e[s].parent = entries[s].parent
      BY <1>7
<1>hung. /\ \A s \in DOMAIN entries : entries[s].kids \subseteq e[s].kids
      /\ n \in e[index[p]].kids
  <2>1. \A s \in DOMAIN entries :
           e[s].kids = IF s = index[p] THEN entries[s].kids \cup {n} ELSE entries[s].kids
        BY <1>7
  <2>2. index[p] \in DOMAIN entries
        BY <1>2, <1>4
  <2> QED BY <2>1, <2>2
<1>10. Tree(e, i)
  <2>1. \A s \in DOMAIN entries : e[s].parent # n
    <3>1. n # NoAgent /\ n \notin DOMAIN owner
          BY <1>1 DEF NoAgent
    <3> QED BY <1>same, <1>9, <3>1
  <2>2. ASSUME NEW b \in DOMAIN i, e[i[b]].parent \in DOMAIN i
        PROVE  i[b] \in e[i[e[i[b]].parent]].kids
    <3>1. CASE b = n
      <4>1. i[b] = n /\ e[i[b]].parent = p /\ i[p] = index[p]
            BY <1>2, <1>6, <1>8, <3>1
      <4> QED BY <1>hung, <4>1
    <3>2. CASE b # n
      <4>1. /\ b \in DOMAIN index /\ i[b] = index[b] /\ index[b] \in DOMAIN entries
            /\ e[index[b]].parent = entries[index[b]].parent
            BY <1>4, <1>7, <1>8, <3>2
      <4>2. entries[index[b]].parent \in DOMAIN index
            BY <1>8, <2>1, <2>2, <4>1
      <4>3. index[b] \in entries[index[entries[index[b]].parent]].kids
            BY <4>1, <4>2 DEF TreeSound, Tree, Attached
      <4>4. i[entries[index[b]].parent] = index[entries[index[b]].parent]
            /\ index[entries[index[b]].parent] \in DOMAIN entries
            BY <1>4, <1>8, <4>2
      <4>5. index[b] \in e[index[entries[index[b]].parent]].kids
            BY <1>hung, <4>3, <4>4
      <4> QED BY <4>1, <4>4, <4>5
    <3> QED BY <3>1, <3>2
  <2>3. ASSUME Root \notin DOMAIN i, NEW b \in DOMAIN i
        PROVE  e[i[b]].parent # Root
    <3>1. Root \notin DOMAIN index /\ p # Root
          BY <1>2, <1>8, <2>3
    <3> QED BY <1>4, <1>6, <1>7, <1>8, <3>1 DEF TreeSound, Tree
  <2> QED BY <2>2, <2>3 DEF Tree, Attached
<1>11. DOMAIN e \subseteq SubIds /\ Numbered(e)
  <2>1. DOMAIN entries \subseteq SubIds
        BY SubsBounded DEF Registry, RunsOnly, TreeSound
  <2>2. \A s \in DOMAIN entries : IsEntry(e[s])
        BY <1>7
  <2>3. \A s \in DOMAIN e : e[s].seq \in Nat
        BY <1>6, <1>same, <1>9 DEF Unfinished
  <2> QED BY <1>2, <1>6, <2>1, <2>2, <2>3 DEF Numbered
<1>12. Tree(entries, index)'
  <2>1. \A b \in DOMAIN i : i[b] \in DOMAIN e /\ (owner[i[b]] = b \/ e[i[b]].seq = Unfinished)
        BY <1>4, <1>6, <1>8
  <2>2. \A s \in DOMAIN e : e[s].seq # Unfinished /\ owner[s] = Root => s = Root
        BY <1>4, <1>5, <1>6
  <2>3. Root \in DOMAIN i => i[Root] = Root
        BY <1>1, <1>4, <1>5, <1>8 DEF Root
  <2> QED BY <1>2, <1>10, <1>11, <2>1, <2>2, <2>3, PruneTree
<1>13. /\ DOMAIN entries' \subseteq DOMAIN e
       /\ \A s \in DOMAIN entries' : entries'[s].parent = e[s].parent /\ entries'[s].seq = e[s].seq
      BY <1>2, <1>11, PruneKeeps DEF Numbered
<1>14. Parents'
  <2>1. p \in DOMAIN owner
        BY <1>2, <1>4
  <2>2. ASSUME NEW s \in DOMAIN entries'
        PROVE  /\ entries'[s].seq \in Nat /\ entries'[s].parent \in {NoAgent} \cup DOMAIN owner'
               /\ entries'[s].parent # owner'[s]
    <3>1. s \in DOMAIN e /\ entries'[s].parent = e[s].parent /\ entries'[s].seq = e[s].seq
          BY <1>13
    <3>2. CASE s = n
          BY <1>1, <1>3, <1>6, <2>1, <3>1, <3>2 DEF Unfinished
    <3>3. CASE s # n
          BY <1>3, <1>5, <1>6, <1>same, <1>9, <3>1, <3>3
    <3> QED BY <3>2, <3>3
  <2> QED BY <2>2 DEF Parents
<1>15. Sized'
      BY <1>1, <1>2, <1>3 DEF TreeSound, Sized, SubIds
<1> QED BY <1>12, <1>14, <1>15 DEF TreeSound

\* A resume puts the new run in the place of the old one.
LEMMA ResumeTree ==
    ASSUME Registry, TreeSound, NEW c \in Calls, Resume(c)
    PROVE  TreeSound'
<1> DEFINE a == call[c].agent
           old == index[a]
           n == Len(owner) + 1
           up == entries[old].parent
           holder == IF up \in DOMAIN index THEN index[up] ELSE NoAgent
<1>1. /\ owner' = Append(owner, a) /\ index' = [index EXCEPT ![a] = n] /\ n \in SubIds
      /\ nextSeq' = nextSeq /\ a \in DOMAIN index
      /\ entries' = [t \in DOMAIN entries \cup {n} |->
                     IF t = n THEN Successor(a)
                     ELSE IF t = holder
                     THEN [entries[t] EXCEPT !.kids = (@ \ {old}) \cup {n}]
                     ELSE entries[t]]
      BY DEF Resume, Resumable, Present, Current, RoomForOne
<1>2. owner \in Seq(Nat) /\ n \in Nat /\ n > 1 /\ n \notin DOMAIN owner /\ DOMAIN owner = 1..Len(owner)
      BY DEF Registry, RunsNumbered
<1>3. \A b \in DOMAIN index : /\ index[b] \in DOMAIN entries /\ owner[index[b]] = b
                              /\ b \in DOMAIN owner
      BY <1>2 DEF Registry, RunsNumbered, IndexSound, EntriesSound
<1>4. /\ Len(owner') = n /\ DOMAIN owner' = DOMAIN owner \cup {n}
      /\ owner'[n] = a /\ \A s \in DOMAIN owner : owner'[s] = owner[s]
  <2>1. a \in Nat
        BY <1>1, <1>2, <1>3
  <2> QED BY <1>1, <1>2, <2>1
<1>5. \A s \in DOMAIN entries : IsEntry(entries[s]) /\ s # n /\ s \in DOMAIN owner
      BY <1>2 DEF Registry, EntriesSound
<1>6. /\ old \in DOMAIN entries /\ up # a /\ holder # old /\ holder # n
      /\ \A s \in DOMAIN entries : /\ entries[s].seq \in Nat
                                   /\ entries[s].parent \in {NoAgent} \cup DOMAIN owner
                                   /\ entries[s].parent # owner[s]
  <2>1. old \in DOMAIN entries /\ owner[old] = a /\ old \in DOMAIN owner
        BY <1>1, <1>3, <1>5
  <2>2. \A s \in DOMAIN entries : /\ entries[s].seq \in Nat
                                  /\ entries[s].parent \in {NoAgent} \cup DOMAIN owner
                                  /\ entries[s].parent # owner[s]
        BY DEF TreeSound, Parents
  <2>3. up # a
        BY <2>1, <2>2
  <2>4. NoAgent \notin DOMAIN owner /\ n # NoAgent
        BY <1>2 DEF NoAgent
  <2>5. holder # old
        BY <1>3, <2>1, <2>3, <2>4
  <2>6. holder # n
        BY <1>3, <1>5, <2>4
  <2> QED BY <2>1, <2>2, <2>3, <2>5, <2>6
<1> HIDE DEF holder
<1>7. /\ DOMAIN entries' = DOMAIN entries \cup {n}
      /\ entries'[n].seq = 0 /\ entries'[n].parent = up /\ entries'[n].kids = entries[old].kids
  <2>1. entries'[n] = Successor(a) /\ DOMAIN entries' = DOMAIN entries \cup {n}
        BY <1>1
  <2> QED BY <2>1 DEF Successor, NewEntry, Current, Unfinished
<1>8. ASSUME NEW s \in DOMAIN entries
      PROVE  /\ entries'[s].seq = entries[s].seq /\ entries'[s].parent = entries[s].parent
             /\ entries'[s].kids = IF s = holder THEN (entries[s].kids \ {old}) \cup {n}
                                   ELSE entries[s].kids
  <2>1. entries'[s] = IF s = holder THEN [entries[s] EXCEPT !.kids = (@ \ {old}) \cup {n}] ELSE entries[s]
        BY <1>1, <1>5
  <2>2. IsEntry(entries[s])
        BY <1>5
  <2> QED BY <2>1, <2>2 DEF IsEntry
<1>9. /\ DOMAIN index' = DOMAIN index /\ index'[a] = n
      /\ \A b \in DOMAIN index \ {a} : index'[b] = index[b] /\ index[b] # old
      BY <1>1, <1>3
<1> HIDE DEF old, up, n, a
<1>10. /\ n \notin DOMAIN entries /\ a \in DOMAIN index /\ old = index[a] /\ up = entries[old].parent
       /\ up \in DOMAIN index => holder = index[up]
      BY <1>1, <1>5 DEF old, up, a, holder
<1>11. Tree(entries, index)'
  <2>1. ASSUME NEW b \in DOMAIN index', entries'[index'[b]].parent \in DOMAIN index'
        PROVE  index'[b] \in entries'[index'[entries'[index'[b]].parent]].kids
    <3>1. CASE b = a
      <4>1. index'[b] = n /\ entries'[index'[b]].parent = up /\ up \in DOMAIN index /\ up # a
            BY <1>6, <1>7, <1>9, <2>1, <3>1
      <4>2. index'[up] = index[up] /\ index[up] = holder /\ index[up] \in DOMAIN entries
            BY <1>3, <1>9, <1>10, <4>1
      <4>3. n \in entries'[holder].kids
            BY <1>8, <4>2
      <4> QED BY <4>1, <4>2, <4>3
    <3>2. CASE b # a
      <4> DEFINE s == index[b]
                 q == entries[s].parent
      <4>1. /\ b \in DOMAIN index /\ index'[b] = s /\ s \in DOMAIN entries /\ s # old
            /\ entries'[s].parent = q /\ q \in DOMAIN index
            BY <1>3, <1>8, <1>9, <2>1, <3>2
      <4>2. s \in entries[index[q]].kids
            BY <4>1 DEF TreeSound, Tree, Attached
      <4> HIDE DEF s, q
      <4>3. CASE q = a
            BY <1>7, <1>9, <1>10, <4>1, <4>2, <4>3
      <4>4. CASE q # a
        <5>1. index'[q] = index[q] /\ index[q] \in DOMAIN entries
              BY <1>3, <1>9, <4>1, <4>4
        <5>2. s \in entries'[index[q]].kids
              BY <1>8, <4>1, <4>2, <5>1
        <5> QED BY <4>1, <5>1, <5>2
      <4> QED BY <4>3, <4>4
    <3> QED BY <3>1, <3>2
  <2>2. ASSUME Root \notin DOMAIN index', NEW b \in DOMAIN index'
        PROVE  entries'[index'[b]].parent # Root
    <3>1. \A d \in DOMAIN index : entries[index[d]].parent # Root
          BY <1>9, <2>2 DEF TreeSound, Tree
    <3>2. CASE b = a
          BY <1>7, <1>9, <1>10, <3>1, <3>2
    <3>3. CASE b # a
          BY <1>3, <1>8, <1>9, <2>2, <3>1, <3>3
    <3> QED BY <3>2, <3>3
  <2> QED BY <2>1, <2>2 DEF Tree, Attached
<1>12. Parents'
  <2>1. \A s \in DOMAIN entries : entries'[s].seq = entries[s].seq /\ entries'[s].parent = entries[s].parent
        BY <1>8
  <2>2. up \in {NoAgent} \cup DOMAIN owner /\ up # a
        BY <1>6, <1>10
  <2>3. ASSUME NEW s \in DOMAIN entries'
        PROVE  /\ entries'[s].seq \in Nat /\ entries'[s].parent \in {NoAgent} \cup DOMAIN owner'
               /\ entries'[s].parent # owner'[s]
    <3>1. CASE s = n
          BY <1>4, <1>7, <2>2, <3>1
    <3>2. CASE s # n
          BY <1>4, <1>5, <1>6, <1>7, <2>1, <3>2
    <3> QED BY <3>1, <3>2
  <2> QED BY <2>3 DEF Parents
<1>13. Sized'
  <2>1. MaxSubs \in Nat /\ n \in 1..MaxSubs
        BY <1>1, SizeAssumption DEF SubIds, MaxSubs
  <2>2. n <= MaxSubs /\ nextSeq' = nextSeq
        BY <1>1, <2>1
  <2> QED BY <1>4, <2>2 DEF TreeSound, Sized
<1> QED BY <1>11, <1>12, <1>13 DEF TreeSound

\* The numbers that a termination hands out.
LEMMA NumbersHandedOut ==
    ASSUME NEW first \in Nat \ {0}, NEW n \in Nat
    PROVE  /\ \A k \in 1..n : first + k - 1 \in Nat
           /\ first + n \in Nat \ {0}
OBVIOUS

\* What a termination does: the runs it walks to are finalized.
LEMMA TerminateWalks ==
    ASSUME RunsOnly, TreeSound, NEW a \in DOMAIN index, Terminate(a)
    PROVE  \E e, cleared :
              /\ DOMAIN e = DOMAIN entries
              /\ PruneTo(e, index, cleared)
              /\ nextSeq' \in Nat \ {0}
              /\ \A s \in DOMAIN e : /\ IsEntry(e[s]) /\ e[s].seq \in Nat
                                     /\ e[s].parent = entries[s].parent /\ e[s].kids = entries[s].kids
              /\ \A s \in Under(a) \cap DOMAIN e : e[s].status = "Terminated"
<1>1. PICK order \in {Below(entries, index[a])} :
         /\ nextSeq' = nextSeq + Len(order)
         /\ PruneTo([s \in DOMAIN entries |->
                  IF s \in Range(order)
                  THEN [entries[s] EXCEPT !.status = "Terminated", !.inbox = <<>>,
                           !.seq = nextSeq + (CHOOSE k \in DOMAIN order : order[k] = s) - 1]
                  ELSE entries[s]],
               index, UNION {Range(entries[s].inbox) : s \in Range(order)})
      BY DEF Terminate
<1> DEFINE rank(s) == CHOOSE k \in DOMAIN order : order[k] = s
           e == [s \in DOMAIN entries |->
                  IF s \in Range(order)
                  THEN [entries[s] EXCEPT !.status = "Terminated", !.inbox = <<>>,
                                          !.seq = nextSeq + rank(s) - 1]
                  ELSE entries[s]]
<1>2. /\ \A b \in DOMAIN index : index[b] \in DOMAIN entries
      /\ \A s \in DOMAIN entries : IsEntry(entries[s]) /\ entries[s].seq \in Nat
      /\ nextSeq \in Nat \ {0}
      BY DEF RunsOnly, IndexSound, EntriesSound, TreeSound, Parents, Sized
<1>3. /\ order \in Seq(DOMAIN entries)
      /\ Under(a) \subseteq Range(order)
  <2>1. DOMAIN entries \subseteq SubIds /\ Attached(entries, index)
        BY SubsBounded DEF TreeSound, Tree
  <2> QED BY <1>1, <1>2, <2>1, BelowReaches
<1>4. Len(order) \in Nat /\ DOMAIN order = 1..Len(order)
      BY <1>3, LenProperties
<1>5. ASSUME NEW s \in Range(order) PROVE \E q \in Nat : q = nextSeq + rank(s) - 1
  <2>1. \E k \in DOMAIN order : order[k] = s
        BY DEF Range
  <2>2. rank(s) \in DOMAIN order
        BY <2>1
  <2> HIDE DEF rank
  <2>3. nextSeq + rank(s) - 1 \in Nat
        BY <1>2, <1>4, <2>2, NumbersHandedOut
  <2> QED BY <2>3
<1>6. DOMAIN e = DOMAIN entries
      OBVIOUS
<1>7. ASSUME NEW s \in DOMAIN entries
      PROVE  /\ IsEntry(e[s]) /\ e[s].seq \in Nat
             /\ e[s].parent = entries[s].parent /\ e[s].kids = entries[s].kids
             /\ s \in Range(order) => e[s].status = "Terminated"
  <2>1. CASE s \in Range(order)
    <3>1. PICK q \in Nat : q = nextSeq + rank(s) - 1
          BY <1>5, <2>1
    <3>2. e[s] = [entries[s] EXCEPT !.status = "Terminated", !.inbox = <<>>, !.seq = q]
          BY <2>1, <3>1
    <3> HIDE DEF e
    <3> QED BY <1>2, <3>1, <3>2 DEF IsEntry
  <2>2. CASE s \notin Range(order)
    <3>1. e[s] = entries[s]
          BY <2>2
    <3> HIDE DEF e
    <3> QED BY <1>2, <2>2, <3>1
  <2> QED BY <2>1, <2>2
<1>8. PruneTo(e, index, UNION {Range(entries[s].inbox) : s \in Range(order)})
      BY <1>1
<1>9. nextSeq' \in Nat \ {0}
      BY <1>1, <1>2, <1>4, NumbersHandedOut
<1> HIDE DEF e
<1>10. \A s \in Under(a) \cap DOMAIN e : e[s].status = "Terminated"
      BY <1>3, <1>6, <1>7
<1> QED BY <1>6, <1>7, <1>8, <1>9, <1>10

\* A termination leaves a tree.
LEMMA TerminateTree ==
    ASSUME RunsOnly, TreeSound, UNCHANGED owner, NEW a \in DOMAIN index, Terminate(a)
    PROVE  TreeSound'
<1>1. PICK e, cleared :
              /\ DOMAIN e = DOMAIN entries
              /\ PruneTo(e, index, cleared)
              /\ nextSeq' \in Nat \ {0}
              /\ \A s \in DOMAIN e : /\ IsEntry(e[s]) /\ e[s].seq \in Nat
                                     /\ e[s].parent = entries[s].parent /\ e[s].kids = entries[s].kids
      BY TerminateWalks
<1> QED BY <1>1, EndsKeepTree

\* A termination reaches the current runs below the agent.
LEMMA TerminateReaches ==
    ASSUME RunsOnly, TreeSound, NEW a \in DOMAIN index, Terminate(a)
    PROVE  \A s \in Under(a) \cap DOMAIN entries' : entries'[s].status = "Terminated"
<1>1. PICK e, cleared :
              /\ DOMAIN e = DOMAIN entries
              /\ PruneTo(e, index, cleared)
              /\ \A s \in DOMAIN e : IsEntry(e[s])
              /\ \A s \in Under(a) \cap DOMAIN e : e[s].status = "Terminated"
      BY TerminateWalks
<1>2. /\ DOMAIN entries' \subseteq DOMAIN e
      /\ \A s \in DOMAIN entries' : entries'[s].status = e[s].status
      BY <1>1, PruneKeeps
<1> QED BY <1>1, <1>2

\* A finished turn finalizes the current run of its agent.
LEMMA CompleteTurnTree ==
    ASSUME RunsOnly, TreeSound, NEW s \in SubIds, CompleteTurn(s)
    PROVE  TreeSound'
<1> DEFINE a == owner[s]
           e == [entries EXCEPT ![index[a]].status = "Idle", ![index[a]].seq = nextSeq]
<1>0. owner' = owner /\ nextSeq' = nextSeq + 1 /\ nextSeq \in Nat \ {0}
      BY DEF CompleteTurn, TreeSound, Sized
<1>1. CASE Present(a)
  <2>1. PruneTo(e, index, {})
        BY <1>1 DEF CompleteTurn
  <2>2. DOMAIN e = DOMAIN entries
        OBVIOUS
  <2>3. ASSUME NEW t \in DOMAIN entries
        PROVE  /\ IsEntry(e[t]) /\ e[t].seq \in Nat
               /\ e[t].parent = entries[t].parent /\ e[t].kids = entries[t].kids
    <3>1. \/ e[t] = entries[t]
          \/ e[t] = [entries[t] EXCEPT !.status = "Idle", !.seq = nextSeq]
          OBVIOUS
    <3>2. IsEntry(entries[t]) /\ entries[t].seq \in Nat
          BY DEF RunsOnly, EntriesSound, TreeSound, Parents
    <3> HIDE DEF e
    <3> QED BY <1>0, <3>1, <3>2 DEF IsEntry
  <2>4. nextSeq' \in Nat \ {0}
        BY <1>0
  <2> HIDE DEF e
  <2> QED BY <1>0, <2>1, <2>2, <2>3, <2>4, EndsKeepTree
<1>2. CASE ~Present(a)
  <2>1. UNCHANGED <<owner, entries, index>>
        BY <1>2 DEF CompleteTurn
  <2>2. Parents' /\ Tree(entries, index)'
        BY <2>1 DEF TreeSound, Parents, Tree, Attached
  <2>3. Sized'
        BY <1>0 DEF TreeSound, Sized
  <2> QED BY <2>2, <2>3 DEF TreeSound
<1> QED BY <1>1, <1>2

\* The steps of a message leave the tree alone, but for the resume.
LEMMA SendsTree ==
    ASSUME Registry, TreeSound, NEW c \in Calls, Sends(c)
    PROVE  TreeSound'
<1>0. RunsOnly
      BY DEF Registry, RunsOnly
<1> DEFINE a == call[c].agent
<1>1. CASE Resume(c)
      BY <1>1, ResumeTree
<1>2. CASE SendReads(c) \/ ResumeRefused(c) \/ SendSubmits(c) \/ SendNotSubmitted(c)
  <2>1. UNCHANGED <<owner, entries, index, nextSeq>>
        BY <1>2 DEF SendReads, ResumeRefused, SendSubmits, SendNotSubmitted
  <2> QED BY <1>0, <2>1, SameTree
<1>3. CASE SendDrains(c) \/ RestoreOne(c) \/ SendQueues(c)
  <2>1. UNCHANGED <<owner, index, nextSeq>>
        BY <1>3 DEF SendDrains, RestoreOne, SendQueues
  <2>2. \/ entries' = entries
        \/ a \in DOMAIN index /\ \E v : entries' = [entries EXCEPT ![index[a]].inbox = v]
    <3>1. CASE SendDrains(c)
          BY <3>1 DEF SendDrains, Present
    <3>2. CASE RestoreOne(c)
          BY <3>2 DEF RestoreOne, Accepts, Present, Push
    <3>3. CASE SendQueues(c)
          BY <3>3 DEF SendQueues, Accepts, Present, Push
    <3> QED BY <1>3, <3>1, <3>2, <3>3
  <2> QED BY <1>0, <2>1, <2>2, SameTree, FieldTree
<1> QED BY <1>1, <1>2, <1>3 DEF Sends

\* Nothing is registered at first.
LEMMA InitTree == Init => TreeSound
<1> SUFFICES ASSUME Init PROVE TreeSound
    OBVIOUS
<1>1. DOMAIN entries = {} /\ DOMAIN index = {} /\ Len(owner) = 1 /\ nextSeq = 1
      BY DEF Init
<1>2. MaxSubs \in Nat \ {0}
      BY SizeAssumption DEF MaxSubs
<1> QED BY <1>1, <1>2 DEF TreeSound, Sized, Parents, Tree, Attached

\* One case for each action.
LEMMA NextTree == Registry /\ TreeSound /\ [Next]_vars => TreeSound'
<1> SUFFICES ASSUME Registry, TreeSound, [Next]_vars PROVE TreeSound'
    OBVIOUS
<1>0. RunsOnly
      BY DEF Registry, RunsOnly
<1>1. CASE RegisterRoot
      BY <1>1, RootTree
<1>2. ASSUME NEW c \in Calls, NEW p \in SubIds, Spawn(c, p) PROVE TreeSound'
      BY <1>2, SpawnTree
<1>3. ASSUME NEW c \in Calls, NEW p \in SubIds,
             \/ SpawnRefused(c, p) \/ \E a \in SubIds : CloseFinds(c, p, a)
             \/ \E a \in SubIds : SendFinds(c, p, a)
      PROVE  TreeSound'
  <2>1. UNCHANGED <<owner, entries, index, nextSeq>>
        BY <1>3 DEF SpawnRefused, CloseFinds, SendFinds
  <2> QED BY <1>0, <2>1, SameTree
<1>4. ASSUME NEW c \in Calls, MarkRunning(c) PROVE TreeSound'
  <2>1. UNCHANGED <<owner, index, nextSeq>>
        BY <1>4 DEF MarkRunning
  <2>2. \/ entries' = entries
        \/ call[c].agent \in DOMAIN index
           /\ entries' = [entries EXCEPT ![index[call[c].agent]].status = "Running"]
        BY <1>4 DEF MarkRunning, Present
  <2> QED BY <1>0, <2>1, <2>2, SameTree, FieldTree
<1>5. ASSUME NEW c \in Calls, LaunchSubmits(c) \/ LaunchFails(c) PROVE TreeSound'
  <2>1. UNCHANGED <<owner, entries, index, nextSeq>>
        BY <1>5 DEF LaunchSubmits, LaunchFails
  <2> QED BY <1>0, <2>1, SameTree
<1>6. ASSUME NEW c \in Calls, Sends(c) PROVE TreeSound'
      BY <1>6, SendsTree
<1>7. ASSUME NEW c \in Calls, CloseTerminates(c) \/ CloseFails(c) PROVE TreeSound'
  <2>1. /\ UNCHANGED owner
        /\ \/ call[c].agent \in DOMAIN index /\ Terminate(call[c].agent)
           \/ UNCHANGED <<entries, index, nextSeq>>
        BY <1>7 DEF CloseTerminates, CloseFails, Present
  <2> QED BY <1>0, <2>1, TerminateTree, SameTree
<1>8. ASSUME NEW c \in Calls, NEW a \in SubIds, UserCloses(c, a) PROVE TreeSound'
  <2>1. UNCHANGED owner /\ a \in DOMAIN index /\ Terminate(a)
        BY <1>8 DEF UserCloses
  <2> QED BY <1>0, <2>1, TerminateTree
<1>9. ASSUME NEW s \in SubIds, TurnEnds(s) \/ Watches(s) PROVE TreeSound'
  <2>1. CASE TurnEnds(s) \/ WatcherFails(s)
    <3>1. UNCHANGED <<owner, entries, index, nextSeq>>
          BY <2>1 DEF TurnEnds, WatcherFails
    <3> QED BY <1>0, <3>1, SameTree
  <2> QED BY <1>0, <1>9, <2>1, CompleteTurnTree DEF Watches
<1>10. CASE UNCHANGED vars
  <2>1. UNCHANGED <<owner, entries, index, nextSeq>>
        BY <1>10 DEF vars
  <2> QED BY <1>0, <2>1, SameTree
<1> QED BY <1>1, <1>2, <1>3, <1>4, <1>5, <1>6, <1>7, <1>8, <1>9, <1>10
        DEF Next, Begins, Continues, Launches

\* The current runs form a tree in every state of the registry.
THEOREM TreeInvariant == Spec => []TreeSound
<1> QED BY InitSound, NextKeeps, InitTree, NextTree, PTL DEF Spec

\* A call is over from one step to the next only by a close of its agent, or by
\* a launch that was refused.
LEMMA ClosesTerminate ==
    ASSUME Registry, [Next]_vars, NEW c \in Calls, Closes(c)
    PROVE  Terminate(call'[c].agent) /\ call'[c].agent \in DOMAIN index
<1>0. DOMAIN call = Calls /\ IsCall(call[c]) /\ \A d \in Calls : IsCall(call[d])
      BY DEF Registry, CallsSound, CallSound
<1>over. call'[c].stage = "done" /\ call[c].stage \in {"idle", "closing"} /\ call'[c].agent \in DOMAIN index
      BY DEF Closes, Present
<1>1. ASSUME NEW d \in Calls, d # c, Begins(d) \/ Continues(d) \/ \E a \in SubIds : UserCloses(d, a)
      PROVE  FALSE
  <2>1. call'[c] = call[c]
    <3>1. CASE Begins(d)
          BY <1>0, <1>1, <3>1 DEF Begins, Spawn, SpawnRefused, SendFinds, CloseFinds, Start
    <3>2. CASE Launches(d) \/ CloseTerminates(d) \/ CloseFails(d)
          BY <1>0, <1>1, <3>2 DEF Launches, MarkRunning, LaunchSubmits, LaunchFails, CloseTerminates,
             CloseFails, Over, Step
    <3>3. CASE Sends(d)
          BY <1>0, <1>1, <3>3 DEF Sends, SendReads, SendDrains, Resume, ResumeRefused, SendSubmits,
             SendNotSubmitted, RestoreOne, SendQueues, Over, Step
    <3>4. CASE \E a \in SubIds : UserCloses(d, a)
          BY <1>0, <1>1, <3>4 DEF UserCloses, Start
    <3> QED BY <1>1, <3>1, <3>2, <3>3, <3>4 DEF Continues
  <2> QED BY <1>over, <2>1
<1>2. ASSUME UNCHANGED call PROVE FALSE
      BY <1>over, <1>2
<1>3. ASSUME NEW p \in SubIds, Spawn(c, p) PROVE FALSE
      BY <1>0, <1>over, <1>3 DEF Spawn, Start, IsCall
<1>4. ASSUME NEW p \in SubIds, SpawnRefused(c, p) PROVE FALSE
  <2>1. call'[c].agent = NoAgent
        BY <1>0, <1>4 DEF SpawnRefused, Start, IsCall
  <2>2. NoAgent \notin DOMAIN index
        BY DEF Registry, IndexSound, EntriesSound, RunsNumbered, NoAgent
  <2> QED BY <1>over, <2>1, <2>2
<1>5. ASSUME NEW p \in SubIds, NEW a \in SubIds, SendFinds(c, p, a) \/ CloseFinds(c, p, a) PROVE FALSE
  <2>1. call'[c].stage \in {"found", "closing"}
        BY <1>0, <1>5 DEF SendFinds, CloseFinds, Start, IsCall
  <2> QED BY <1>over, <2>1
<1>6. ASSUME Launches(c) \/ Sends(c) PROVE FALSE
  <2>1. call[c].stage \notin {"idle", "closing"}
        BY <1>6 DEF Launches, MarkRunning, LaunchSubmits, LaunchFails, Sends, SendReads, SendDrains,
           Resume, ResumeRefused, SendSubmits, SendNotSubmitted, RestoreOne, SendQueues
  <2> QED BY <1>over, <2>1
<1>7. ASSUME CloseTerminates(c) PROVE Terminate(call'[c].agent)
  <2>1. call'[c].agent = call[c].agent
        BY <1>0, <1>7 DEF CloseTerminates, Over, Step, IsCall
  <2> QED BY <1>over, <1>7, <2>1 DEF CloseTerminates, Present
<1>8. ASSUME NEW a \in SubIds, UserCloses(c, a) PROVE Terminate(call'[c].agent)
  <2>1. call'[c].agent = a
        BY <1>0, <1>8 DEF UserCloses, Start, IsCall
  <2> QED BY <1>8, <2>1 DEF UserCloses
<1>9. ASSUME RegisterRoot \/ (\E s \in SubIds : TurnEnds(s) \/ Watches(s)) \/ UNCHANGED vars
      PROVE FALSE
  <2>1. UNCHANGED call
        BY <1>9 DEF RegisterRoot, TurnEnds, Watches, CompleteTurn, WatcherFails, vars
  <2> QED BY <1>2, <2>1
<1>10. ASSUME CloseFails(c) PROVE FALSE
  <2>1. call'[c].agent = NoAgent
        BY <1>0, <1>10 DEF CloseFails, IsCall
  <2>2. NoAgent \notin DOMAIN index
        BY DEF Registry, IndexSound, EntriesSound, RunsNumbered, NoAgent
  <2> QED BY <1>over, <2>1, <2>2
<1> QED BY <1>over, <1>1, <1>3, <1>4, <1>5, <1>6, <1>7, <1>8, <1>9, <1>10 DEF Next, Begins, Continues

\* The step that ends a close.
LEMMA CloseReachesStep ==
    ASSUME Registry, TreeSound, [Next]_vars, NEW c \in Calls, Closes(c)
    PROVE  \A s \in Under(call'[c].agent) \cap DOMAIN entries' : entries'[s].status = "Terminated"
<1>1. PICK a : a = call'[c].agent
      OBVIOUS
<1>2. a \in DOMAIN index /\ Terminate(a)
      BY <1>1, ClosesTerminate
<1>3. RunsOnly
      BY DEF Registry, RunsOnly
<1> QED BY <1>1, <1>2, <1>3, TerminateReaches

\* CloseReaches: when a close is over, no run that the index knows below the
\* closed agent is left running, whatever spawns, resumes and prunes have made of
\* the tree (terminate_subtree, traverse_tree).
THEOREM CloseReachesHolds == Spec => CloseReaches
<1>1. Registry /\ TreeSound /\ [Next]_vars =>
        [\A c \in Calls : Closes(c) =>
          \A s \in Under(call'[c].agent) \cap DOMAIN entries' : entries'[s].status = "Terminated"]_vars
      BY CloseReachesStep
<1> QED BY <1>1, RegistrySound, TreeInvariant, PTL DEF Spec, CloseReaches
=============================================================================
