------------------------ MODULE ExternalSurfaceProofs ------------------------
(***************************************************************************)
(* For any servers, declarations, callers, requests and failures: no       *)
(* connection to an MCP server is overwritten by another, except by a      *)
(* caller whose request another one has overlapped; a request that ran     *)
(* alone puts the connections, the surface and the plugins right; and a    *)
(* reload that ran alone and failed leaves the plugins as they were.       *)
(***************************************************************************)
EXTENDS ExternalSurface, TLAPS

Fields == {"pc", "kind", "restoring", "configs", "disconnect", "connect", "opening", "listed",
           "tools", "place", "saved", "kept", "gen", "clash", "staged", "retired", "alone", "clean",
           "before"}

Shape == /\ connections = [s \in Servers |-> connections[s]]
         /\ ops = [a \in Callers |-> ops[a]]
         /\ \A a \in Callers : ops[a] = [f \in Fields |-> ops[a][f]]

\* Two callers that work at the same time know that they are not alone.
AloneSound ==
    \A a, b \in Callers : a # b /\ Busy(a) /\ Busy(b) => ~ ops[a].alone

Early == {"load", "declare", "compare"}
OfReload == {"capture", "list", "identify", "keep", "stage", "commit", "hooks", "install", "retire"}
Plain == Early \cup OfReload \cup {"survey", "apply"}

\* A caller that runs alone: what it has in hand belongs to the steps that use
\* it, and a server it is about to connect has no connection, or one that it is
\* about to close.  Its servers are in hand once, for the transport of a second
\* would overwrite that of the first.
InHand(a) ==
    /\ ops[a].pc \in Plain \cup {"connect", "recheck"}
    /\ ops[a].pc # "connect" => ops[a].connect = {} /\ ops[a].opening = {}
    /\ ops[a].pc \in Plain => ops[a].disconnect = {}
    /\ ops[a].pc \in OfReload => ops[a].kind = "governance"
    /\ ops[a].connect \subseteq Servers
    /\ \A t \in ops[a].opening :
           /\ t.server \in Servers /\ t.server \notin ops[a].connect
           /\ \A u \in ops[a].opening : t.server = u.server => t = u
Unconnected(a) ==
    /\ ops[a].kind = "warmup" /\ ops[a].pc \in Early =>
           \A s \in Servers : connections[s] = NoConnection
    /\ ops[a].pc = "recheck" =>
           \A s \in Servers : ops[a].configs[s] # NoConfig =>
               connections[s] = NoConnection \/ s \in ops[a].disconnect
    /\ \A s \in ops[a].connect : connections[s] = NoConnection \/ s \in ops[a].disconnect
    /\ \A t \in ops[a].opening : connections[t.server] = NoConnection
    /\ ops[a].opening # {} => ops[a].disconnect = {}
OpSound(a) == Busy(a) /\ ops[a].alone => InHand(a) /\ Unconnected(a)

SurfaceInv == Shape /\ AloneSound /\ \A a \in Callers : OpSound(a)

-----------------------------------------------------------------------------
LEMMA IdleShape ==
    /\ Idle = [f \in Fields |-> Idle[f]]
    /\ Idle.pc = "idle" /\ Idle.alone = TRUE /\ Idle.connect = {} /\ Idle.opening = {}
    /\ Idle.disconnect = {} /\ Idle.configs = [s \in Servers |-> NoConfig]
  BY DEF Idle, Fields

\* A record stays one when a field gets another value.
LEMMA FieldChanged ==
    ASSUME NEW r, r = [f \in Fields |-> r[f]], NEW x \in Fields, NEW v
    PROVE  /\ [r EXCEPT ![x] = v] = [f \in Fields |-> [r EXCEPT ![x] = v][f]]
           /\ [r EXCEPT ![x] = v][x] = v
           /\ \A f \in Fields \ {x} : [r EXCEPT ![x] = v][f] = r[f]
  OBVIOUS

\* Caller a makes a step of its request; the others stand still.
Moves(a, o) == /\ ops' = [ops EXCEPT ![a] = o]
               /\ o = [f \in Fields |-> o[f]]

LEMMA Moved ==
    ASSUME Shape, NEW a \in Callers, NEW o, Moves(a, o), UNCHANGED connections
    PROVE  /\ Shape' /\ ops'[a] = o
           /\ \A b \in Callers \ {a} : ops'[b] = ops[b]
  BY DEF Shape, Moves

\* Whoever else is busy is not alone, so a step of one caller has to keep its
\* own part of the invariant only.
LEMMA OthersKeep ==
    ASSUME SurfaceInv, NEW a \in Callers, Busy(a), Shape',
           \A b \in Callers \ {a} : ops'[b] = ops[b],
           Busy(a)' => (ops'[a].alone <=> ops[a].alone),
           OpSound(a)'
    PROVE  SurfaceInv'
  <1>1. AloneSound'
    BY DEF SurfaceInv, AloneSound, Busy
  <1>2. ASSUME NEW b \in Callers \ {a} PROVE OpSound(b)'
    BY <1>2 DEF SurfaceInv, AloneSound, OpSound, Busy
  <1> QED
    BY <1>1, <1>2 DEF SurfaceInv

\* A request ends.
LEMMA EndKeeps ==
    ASSUME SurfaceInv, NEW a \in Callers, Busy(a), NEW ok, End(a, ok), UNCHANGED connections
    PROVE  SurfaceInv'
  <1>1. ops' = [ops EXCEPT ![a] = Idle]
    BY DEF End
  <1>2. Shape' /\ ops'[a] = Idle /\ \A b \in Callers \ {a} : ops'[b] = ops[b]
    BY <1>1, IdleShape, Moved DEF Moves, SurfaceInv
  <1>3. ~ Busy(a)'
    BY <1>2, IdleShape DEF Busy
  <1> QED
    BY <1>2, <1>3, OthersKeep DEF OpSound

\* A step that has nothing to do with connections.
LEMMA PlainKeeps ==
    ASSUME SurfaceInv, NEW a \in Callers, NEW o, Moves(a, o), UNCHANGED connections,
           ops[a].pc \in Plain, o.pc \in Plain, o.alone = ops[a].alone, o.kind = ops[a].kind,
           o.connect = ops[a].connect, o.opening = ops[a].opening,
           o.disconnect = ops[a].disconnect,
           o.pc \in OfReload => o.kind = "governance" \/ ops[a].pc \in OfReload,
           o.pc \in Early /\ o.kind = "warmup" => ops[a].pc \in Early \cup OfReload
    PROVE  SurfaceInv'
  <1>1. Shape' /\ ops'[a] = o /\ \A b \in Callers \ {a} : ops'[b] = ops[b]
    BY Moved DEF SurfaceInv
  <1>2. Busy(a) /\ ops[a].pc \notin {"connect", "recheck"} /\ o.pc \notin {"connect", "recheck"}
    BY DEF Busy, Plain, Early, OfReload
  <1>3. ASSUME ops[a].alone PROVE InHand(a)' /\ Unconnected(a)'
    <2>1. InHand(a) /\ Unconnected(a)
      BY <1>2, <1>3 DEF SurfaceInv, OpSound
    <2>2. o.connect = {} /\ o.opening = {} /\ o.disconnect = {}
      BY <1>2, <2>1 DEF InHand
    <2>3. InHand(a)'
      BY <1>1, <1>2, <2>1, <2>2 DEF InHand
    <2>4. o.pc \in Early /\ o.kind = "warmup" => ops[a].pc \in Early
      BY <2>1 DEF InHand
    <2>5. Unconnected(a)'
      BY <1>1, <1>2, <2>1, <2>2, <2>4 DEF Unconnected
    <2> QED
      BY <2>3, <2>5
  <1> QED
    BY <1>1, <1>2, <1>3, OthersKeep DEF OpSound

Untouched == {"alone", "kind", "connect", "opening", "disconnect"}

LEMMA LoadKeeps ==
    ASSUME SurfaceInv, NEW a \in Callers, Load(a) \/ Declare(a)
    PROVE  SurfaceInv'
  <1>1. ops[a] = [f \in Fields |-> ops[a][f]]
    BY DEF SurfaceInv, Shape
  <1>2. UNCHANGED connections
    BY DEF Load, Declare, mcpVars
  <1>3. CASE Load(a)
    <2>1. PICK configs, clean :
             ops' = [ops EXCEPT ![a] = [ops[a] EXCEPT !["pc"] = "declare", !["configs"] = configs,
                                                      !["clean"] = clean]]
      BY <1>3 DEF Load, Continue
    <2> DEFINE o == [ops[a] EXCEPT !["pc"] = "declare", !["configs"] = configs, !["clean"] = clean]
    <2>2. o = [f \in Fields |-> o[f]] /\ o.pc = "declare" /\ \A f \in Untouched : o[f] = ops[a][f]
      BY <1>1 DEF Fields, Untouched
    <2>3. Moves(a, o)
      BY <2>1, <2>2 DEF Moves
    <2>4. ops[a].pc = "load"
      BY <1>3 DEF Load
    <2> QED
      BY <1>2, <2>2, <2>3, <2>4, PlainKeeps DEF Plain, Early, OfReload, Untouched
  <1>4. CASE Declare(a)
    <2> DEFINE o == [ops[a] EXCEPT !["pc"] = "compare"]
    <2>1. ops' = [ops EXCEPT ![a] = o]
      BY <1>4 DEF Declare, Continue
    <2>2. o = [f \in Fields |-> o[f]] /\ o.pc = "compare" /\ \A f \in Untouched : o[f] = ops[a][f]
      BY <1>1 DEF Fields, Untouched
    <2>3. Moves(a, o)
      BY <2>1, <2>2 DEF Moves
    <2>4. ops[a].pc = "declare"
      BY <1>4 DEF Declare
    <2> QED
      BY <1>2, <2>2, <2>3, <2>4, PlainKeeps DEF Plain, Early, OfReload, Untouched
  <1> QED
    BY <1>3, <1>4

LEMMA CaptureKeeps ==
    ASSUME SurfaceInv, NEW a \in Callers, Capture(a) \/ Identify(a) \/ Keep(a)
    PROVE  SurfaceInv'
  <1>1. ops[a] = [f \in Fields |-> ops[a][f]]
    BY DEF SurfaceInv, Shape
  <1>2. UNCHANGED connections /\ ops[a].pc \in {"capture", "identify", "keep"}
    BY DEF Capture, Identify, Keep, mcpVars
  <1>3. CASE Capture(a)
    <2> DEFINE o == [ops[a] EXCEPT !["pc"] = "list", !["saved"] = declared]
    <2>1. ops' = [ops EXCEPT ![a] = o]
      BY <1>3 DEF Capture, Continue
    <2>2. o = [f \in Fields |-> o[f]] /\ o.pc = "list" /\ \A f \in Untouched : o[f] = ops[a][f]
      BY <1>1 DEF Fields, Untouched
    <2>3. Moves(a, o)
      BY <2>1, <2>2 DEF Moves
    <2> QED
      BY <1>2, <2>2, <2>3, PlainKeeps DEF Plain, Early, OfReload, Untouched
  <1>4. CASE Identify(a)
    <2>1. PICK tools, listed :
             ops' = [ops EXCEPT ![a] = [ops[a] EXCEPT !["pc"] = "keep", !["tools"] = tools,
                                                      !["listed"] = listed]]
      BY <1>4 DEF Identify, Continue
    <2> DEFINE o == [ops[a] EXCEPT !["pc"] = "keep", !["tools"] = tools, !["listed"] = listed]
    <2>2. o = [f \in Fields |-> o[f]] /\ o.pc = "keep" /\ \A f \in Untouched : o[f] = ops[a][f]
      BY <1>1 DEF Fields, Untouched
    <2>3. Moves(a, o)
      BY <2>1, <2>2 DEF Moves
    <2> QED
      BY <1>2, <2>2, <2>3, PlainKeeps DEF Plain, Early, OfReload, Untouched
  <1>5. CASE Keep(a)
    <2>1. PICK tools, kept :
             ops' = [ops EXCEPT ![a] = [ops[a] EXCEPT !["pc"] = "declare", !["tools"] = tools,
                                                      !["kept"] = kept]]
      BY <1>5 DEF Keep, Continue
    <2> DEFINE o == [ops[a] EXCEPT !["pc"] = "declare", !["tools"] = tools, !["kept"] = kept]
    <2>2. o = [f \in Fields |-> o[f]] /\ o.pc = "declare" /\ \A f \in Untouched : o[f] = ops[a][f]
      BY <1>1 DEF Fields, Untouched
    <2>3. Moves(a, o)
      BY <2>1, <2>2 DEF Moves
    <2> QED
      BY <1>2, <2>2, <2>3, PlainKeeps DEF Plain, Early, OfReload, Untouched
  <1> QED
    BY <1>3, <1>4, <1>5

\* Prepare may end the reload.
LEMMA PrepareKeeps == ASSUME SurfaceInv, NEW a \in Callers, Prepare(a) PROVE SurfaceInv'
  <1>1. ops[a].pc = "load" /\ ops[a].kind = "governance" /\ Busy(a) /\ UNCHANGED connections
    BY DEF Prepare, mcpVars, Busy
  <1>2. CASE End(a, FALSE)
    BY <1>1, <1>2, EndKeeps
  <1>3. CASE ~ End(a, FALSE)
    <2>0. PICK missing \in SUBSET Servers, clash \in BOOLEAN :
             Continue(a, [ops[a] EXCEPT !.pc = "capture", !.configs = Loaded(missing),
                             !.gen = born', !.clash = clash,
                             !.clean = @ /\ missing = {} /\ ~ clash])
      BY <1>3, Zenon DEF Prepare
    <2>1. PICK configs, gen, clean :
             ops' = [ops EXCEPT ![a] = [ops[a] EXCEPT !.pc = "capture", !.configs = configs,
                        !.gen = gen, !.clash = clash, !.clean = clean]]
      BY <2>0, Zenon DEF Continue
    <2> DEFINE o == [ops[a] EXCEPT !.pc = "capture", !.configs = configs,
                        !.gen = gen, !.clash = clash, !.clean = clean]
    <2>2. ops[a] = [f \in Fields |-> ops[a][f]]
      BY DEF SurfaceInv, Shape
    <2>3. o = [f \in Fields |-> o[f]] /\ o.pc = "capture" /\ \A f \in Untouched : o[f] = ops[a][f]
      BY <2>2 DEF Fields, Untouched
    <2>4. Moves(a, o)
      BY <2>1, <2>3 DEF Moves
    <2> QED
      BY <1>1, <2>3, <2>4, PlainKeeps DEF Plain, Early, OfReload, Untouched
  <1> QED
    BY <1>2, <1>3

\* The way back of a reload.
LEMMA RestoreKeeps ==
    ASSUME SurfaceInv, NEW a \in Callers, Restore(a), UNCHANGED connections,
           ops[a].pc \in OfReload \/ (ops[a].pc = "apply" /\ ops[a].kind = "governance")
    PROVE  SurfaceInv'
  <1>1. Busy(a) /\ ops[a].pc \in Plain
    BY DEF Busy, Plain, OfReload
  <1>2. CASE ops[a].restoring
    BY <1>1, <1>2, EndKeeps DEF Restore
  <1>3. CASE ~ ops[a].restoring
    <2> DEFINE o == [ops[a] EXCEPT !["pc"] = "declare", !["restoring"] = TRUE,
                                   !["configs"] = ops[a].saved, !["clean"] = FALSE]
    <2>1. ops' = [ops EXCEPT ![a] = o]
      BY <1>3 DEF Restore, Continue
    <2>2. ops[a] = [f \in Fields |-> ops[a][f]]
      BY DEF SurfaceInv, Shape
    <2>3. o = [f \in Fields |-> o[f]] /\ o.pc = "declare" /\ \A f \in Untouched : o[f] = ops[a][f]
      BY <2>2 DEF Fields, Untouched
    <2>4. Moves(a, o)
      BY <2>1, <2>3 DEF Moves
    <2>5. o.pc \in Plain /\ o.pc \notin OfReload
      BY <2>3 DEF Plain, Early, OfReload
    <2>6. o.kind = "warmup" => ops[a].pc \in OfReload
      BY <2>3 DEF Untouched
    <2> HIDE DEF o
    <2> QED
      BY <1>1, <2>3, <2>4, <2>5, <2>6, PlainKeeps DEF Untouched
  <1> QED
    BY <1>2, <1>3

LEMMA StageKeeps == ASSUME SurfaceInv, NEW a \in Callers, Stage(a) PROVE SurfaceInv'
  <1>1. ops[a].pc = "stage" /\ UNCHANGED connections
    BY DEF Stage, mcpVars
  <1>2. CASE Restore(a)
    BY <1>1, <1>2, RestoreKeeps DEF OfReload
  <1>3. CASE ~ Restore(a)
    <2>1. PICK staged : ops' = [ops EXCEPT ![a] = [ops[a] EXCEPT !["pc"] = "apply",
                                                                !["staged"] = staged]]
      BY <1>3 DEF Stage, Continue
    <2> DEFINE o == [ops[a] EXCEPT !["pc"] = "apply", !["staged"] = staged]
    <2>2. ops[a] = [f \in Fields |-> ops[a][f]]
      BY DEF SurfaceInv, Shape
    <2>3. o = [f \in Fields |-> o[f]] /\ o.pc = "apply" /\ \A f \in Untouched : o[f] = ops[a][f]
      BY <2>2 DEF Fields, Untouched
    <2>4. Moves(a, o)
      BY <2>1, <2>3 DEF Moves
    <2> QED
      BY <1>1, <2>3, <2>4, PlainKeeps DEF Plain, Early, OfReload, Untouched
  <1> QED
    BY <1>2, <1>3

LEMMA ApplyKeeps == ASSUME SurfaceInv, NEW a \in Callers, Apply(a) \/ Refuse(a) PROVE SurfaceInv'
  <1>1. ops[a].pc = "apply" /\ Busy(a) /\ UNCHANGED connections
    BY DEF Apply, Refuse, mcpVars, Busy
  <1>2. CASE \E ok : End(a, ok)
    BY <1>1, <1>2, EndKeeps
  <1>3. CASE Restore(a) /\ ops[a].kind = "governance"
    BY <1>1, <1>3, RestoreKeeps
  <1>4. CASE Continue(a, [ops[a] EXCEPT !.place = @ + 1])
    <2> DEFINE o == [ops[a] EXCEPT !["place"] = ops[a].place + 1]
    <2>1. ops' = [ops EXCEPT ![a] = o]
      BY <1>4 DEF Continue
    <2>2. ops[a] = [f \in Fields |-> ops[a][f]]
      BY DEF SurfaceInv, Shape
    <2>3. o = [f \in Fields |-> o[f]] /\ o.pc = ops[a].pc /\ \A f \in Untouched : o[f] = ops[a][f]
      BY <2>2 DEF Fields, Untouched
    <2>4. Moves(a, o)
      BY <2>1, <2>3 DEF Moves
    <2> QED
      BY <1>1, <2>3, <2>4, PlainKeeps DEF Plain, Early, OfReload, Untouched
  <1>5. CASE Continue(a, [ops[a] EXCEPT !.pc = "commit"]) /\ ops[a].kind = "governance"
    <2> DEFINE o == [ops[a] EXCEPT !["pc"] = "commit"]
    <2>1. ops' = [ops EXCEPT ![a] = o]
      BY <1>5 DEF Continue
    <2>2. ops[a] = [f \in Fields |-> ops[a][f]]
      BY DEF SurfaceInv, Shape
    <2>3. o = [f \in Fields |-> o[f]] /\ o.pc = "commit" /\ \A f \in Untouched : o[f] = ops[a][f]
      BY <2>2 DEF Fields, Untouched
    <2>4. Moves(a, o)
      BY <2>1, <2>3 DEF Moves
    <2> QED
      BY <1>1, <1>5, <2>3, <2>4, PlainKeeps DEF Plain, Early, OfReload, Untouched
  <1> QED
    BY <1>2, <1>3, <1>4, <1>5 DEF Apply, Refuse

LEMMA CommitKeeps ==
    ASSUME SurfaceInv, NEW a \in Callers, Commit(a) \/ Hooks(a)
    PROVE  SurfaceInv'
  <1>1. ops[a].pc \in {"commit", "hooks"} /\ UNCHANGED connections
    BY DEF Commit, Hooks, mcpVars
  <1>2. CASE Restore(a)
    BY <1>1, <1>2, RestoreKeeps DEF OfReload
  <1>3. CASE ~ Restore(a)
    <2>1. PICK pc \in {"hooks", "install"} : Continue(a, [ops[a] EXCEPT !.pc = pc])
      BY <1>3 DEF Commit, Hooks
    <2> DEFINE o == [ops[a] EXCEPT !["pc"] = pc]
    <2>2. ops' = [ops EXCEPT ![a] = o]
      BY <2>1 DEF Continue
    <2>3. ops[a] = [f \in Fields |-> ops[a][f]]
      BY DEF SurfaceInv, Shape
    <2>4. o = [f \in Fields |-> o[f]] /\ o.pc = pc /\ \A f \in Untouched : o[f] = ops[a][f]
      BY <2>3 DEF Fields, Untouched
    <2>5. Moves(a, o)
      BY <2>2, <2>4 DEF Moves
    <2>6. o.pc \in OfReload /\ o.pc \notin Early
      BY <2>4 DEF OfReload, Early
    <2>7. ops[a].pc \in OfReload
      BY <1>1 DEF OfReload
    <2> HIDE DEF o
    <2> QED
      BY <1>1, <2>4, <2>5, <2>6, <2>7, PlainKeeps DEF Plain, Untouched
  <1> QED
    BY <1>2, <1>3

LEMMA InstallKeeps == ASSUME SurfaceInv, NEW a \in Callers, Install(a) PROVE SurfaceInv'
  <1>1. ops[a].pc = "install" /\ UNCHANGED connections
    BY DEF Install, mcpVars
  <1>2. PICK retired, saved, kept, tools :
           ops' = [ops EXCEPT ![a] = [ops[a] EXCEPT !["pc"] = "retire", !["retired"] = retired,
                      !["saved"] = saved, !["kept"] = kept, !["tools"] = tools]]
    BY DEF Install, Continue
  <1> DEFINE o == [ops[a] EXCEPT !["pc"] = "retire", !["retired"] = retired,
                      !["saved"] = saved, !["kept"] = kept, !["tools"] = tools]
  <1>3. ops[a] = [f \in Fields |-> ops[a][f]]
    BY DEF SurfaceInv, Shape
  <1>4. o = [f \in Fields |-> o[f]] /\ o.pc = "retire" /\ \A f \in Untouched : o[f] = ops[a][f]
    BY <1>3 DEF Fields, Untouched
  <1>5. Moves(a, o)
    BY <1>2, <1>4 DEF Moves
  <1> QED
    BY <1>1, <1>4, <1>5, PlainKeeps DEF Plain, Early, OfReload, Untouched

LEMMA RetireKeeps == ASSUME SurfaceInv, NEW a \in Callers, Retire(a) PROVE SurfaceInv'
  <1>1. Busy(a) /\ End(a, TRUE) /\ UNCHANGED connections
    BY DEF Retire, mcpVars, Busy
  <1> QED
    BY <1>1, EndKeeps

-----------------------------------------------------------------------------
\* The steps that choose, close and make connections.
LEMMA CompareKeeps == ASSUME SurfaceInv, NEW a \in Callers, Compare(a) PROVE SurfaceInv'
  <1>1. ops[a].pc = "compare" /\ Busy(a) /\ UNCHANGED connections
    BY DEF Compare, mcpVars, Busy
  <1> DEFINE close == IF ops[a].kind = "warmup" THEN {} ELSE Outdated(ops[a])
             o == [ops[a] EXCEPT !["pc"] = "connect", !["connect"] = Wanted(ops[a]),
                                 !["disconnect"] = close]
  <1>2. ops' = [ops EXCEPT ![a] = o]
    BY DEF Compare, Continue
  <1>3. ops[a] = [f \in Fields |-> ops[a][f]]
    BY DEF SurfaceInv, Shape
  <1> HIDE DEF close
  <1>4. /\ o = [f \in Fields |-> o[f]] /\ o.pc = "connect" /\ o.connect = Wanted(ops[a])
        /\ o.disconnect = close /\ o.alone = ops[a].alone /\ o.opening = ops[a].opening
    BY <1>3 DEF Fields
  <1> HIDE DEF o
  <1>5. Shape' /\ ops'[a] = o /\ \A b \in Callers \ {a} : ops'[b] = ops[b]
    BY <1>1, <1>2, <1>4, Moved DEF Moves, SurfaceInv
  <1>6. ASSUME ops[a].alone PROVE InHand(a)' /\ Unconnected(a)'
    <2>1. InHand(a) /\ Unconnected(a)
      BY <1>1, <1>6 DEF SurfaceInv, OpSound
    <2>2. o.opening = {}
      BY <1>1, <1>4, <2>1 DEF InHand
    <2>3. o.connect \subseteq Servers
      BY <1>4 DEF Wanted
    <2>4. InHand(a)'
      BY <1>4, <1>5, <2>2, <2>3 DEF InHand, Plain, Early, OfReload
    <2>5. ASSUME NEW s \in o.connect PROVE connections[s] = NoConnection \/ s \in o.disconnect
      <3>1. CASE ops[a].kind = "warmup"
        BY <1>1, <2>1, <2>3, <3>1 DEF Unconnected, Early
      <3>2. CASE ops[a].kind # "warmup"
        BY <1>4, <3>2 DEF Wanted, Outdated, close
      <3> QED
        BY <3>1, <3>2
    <2>6. Unconnected(a)'
      BY <1>1, <1>4, <1>5, <2>2, <2>5 DEF Unconnected, Early
    <2> QED
      BY <2>4, <2>6
  <1> QED
    BY <1>1, <1>4, <1>5, <1>6, OthersKeep DEF OpSound

LEMMA RecheckKeeps == ASSUME SurfaceInv, NEW a \in Callers, Recheck(a) PROVE SurfaceInv'
  <1>1. ops[a].pc = "recheck" /\ ops[a].disconnect = {} /\ Busy(a) /\ UNCHANGED connections
    BY DEF Recheck, mcpVars, Busy
  <1> DEFINE want == {s \in Servers : ShouldConnect(s, ops[a].configs[s])}
             o == [ops[a] EXCEPT !["pc"] = "connect", !["connect"] = want]
  <1>2. ops' = [ops EXCEPT ![a] = o]
    BY DEF Recheck, Continue
  <1>3. ops[a] = [f \in Fields |-> ops[a][f]]
    BY DEF SurfaceInv, Shape
  <1>4. \A s \in want : s \in Servers /\ ops[a].configs[s] # NoConfig
    BY DEF ShouldConnect
  <1> HIDE DEF want
  <1>5. /\ o = [f \in Fields |-> o[f]] /\ o.pc = "connect" /\ o.connect = want
        /\ o.disconnect = {} /\ o.alone = ops[a].alone /\ o.opening = ops[a].opening
    BY <1>1, <1>3 DEF Fields
  <1> HIDE DEF o
  <1>6. Shape' /\ ops'[a] = o /\ \A b \in Callers \ {a} : ops'[b] = ops[b]
    BY <1>1, <1>2, <1>5, Moved DEF Moves, SurfaceInv
  <1>7. ASSUME ops[a].alone PROVE InHand(a)' /\ Unconnected(a)'
    <2>1. InHand(a) /\ Unconnected(a)
      BY <1>1, <1>7 DEF SurfaceInv, OpSound
    <2>2. o.opening = {}
      BY <1>1, <1>5, <2>1 DEF InHand
    <2>3. InHand(a)'
      BY <1>4, <1>5, <1>6, <2>2 DEF InHand, Plain, Early, OfReload
    <2>4. \A s \in want : connections[s] = NoConnection
      BY <1>1, <1>4, <2>1 DEF Unconnected
    <2>5. Unconnected(a)'
      BY <1>1, <1>5, <1>6, <2>2, <2>4 DEF Unconnected, Early
    <2> QED
      BY <2>3, <2>5
  <1> QED
    BY <1>1, <1>5, <1>6, <1>7, OthersKeep DEF OpSound

LEMMA ListKeeps == ASSUME SurfaceInv, NEW a \in Callers, List(a) PROVE SurfaceInv'
  <1>1. Busy(a) /\ UNCHANGED connections /\ ops[a] = [f \in Fields |-> ops[a][f]]
    BY DEF List, mcpVars, Busy, SurfaceInv, Shape
  <1>2. CASE ops[a].pc = "list"
    <2> DEFINE o == [ops[a] EXCEPT !["pc"] = "identify", !["listed"] = DeclaredServers]
    <2>1. ops' = [ops EXCEPT ![a] = o]
      BY <1>2 DEF List, Continue
    <2>2. o = [f \in Fields |-> o[f]] /\ o.pc = "identify" /\ \A f \in Untouched : o[f] = ops[a][f]
      BY <1>1 DEF Fields, Untouched
    <2>3. Moves(a, o)
      BY <2>1, <2>2 DEF Moves
    <2> QED
      BY <1>1, <1>2, <2>2, <2>3, PlainKeeps DEF Plain, Early, OfReload, Untouched
  <1>3. CASE ops[a].pc # "list"
    <2>1. /\ ops[a].pc = "connect"
          /\ ops[a].disconnect = {} /\ ops[a].connect = {} /\ ops[a].opening = {}
      BY <1>3 DEF List
    <2> DEFINE o == [ops[a] EXCEPT !["pc"] = "survey", !["listed"] = DeclaredServers,
                                   !["configs"] = Idle.configs]
    <2>2. ops' = [ops EXCEPT ![a] = o]
      BY <1>3 DEF List, Continue
    <2>3. o = [f \in Fields |-> o[f]] /\ o.pc = "survey" /\ \A f \in Untouched : o[f] = ops[a][f]
      BY <1>1 DEF Fields, Untouched
    <2>4. Shape' /\ ops'[a] = o /\ \A b \in Callers \ {a} : ops'[b] = ops[b]
      BY <1>1, <2>2, <2>3, Moved DEF Moves, SurfaceInv
    <2> HIDE DEF o
    <2>5. InHand(a)'
      BY <2>1, <2>3, <2>4 DEF InHand, Untouched, Plain, Early, OfReload
    <2>6. Unconnected(a)'
      BY <2>1, <2>3, <2>4 DEF Unconnected, Untouched, Early
    <2> QED
      BY <1>1, <2>3, <2>4, <2>5, <2>6, OthersKeep DEF OpSound, Untouched, Busy
  <1> QED
    BY <1>2, <1>3

LEMMA SurveyKeeps == ASSUME SurfaceInv, NEW a \in Callers, Survey(a) PROVE SurfaceInv'
  <1>1. ops[a].pc = "survey" /\ UNCHANGED connections
    BY DEF Survey, mcpVars
  <1> DEFINE to == IF ops[a].kind = "governance" /\ ~ ops[a].restoring THEN "stage" ELSE "apply"
  <1>2. PICK tools :
           ops' = [ops EXCEPT ![a] = [ops[a] EXCEPT !["tools"] = tools, !["place"] = 1,
                                                    !["listed"] = {}, !["pc"] = to]]
    BY DEF Survey, Continue
  <1> DEFINE o == [ops[a] EXCEPT !["tools"] = tools, !["place"] = 1,
                                 !["listed"] = {}, !["pc"] = to]
  <1>3. to \in {"stage", "apply"} /\ (to = "stage" => ops[a].kind = "governance")
    OBVIOUS
  <1> HIDE DEF to
  <1>4. ops[a] = [f \in Fields |-> ops[a][f]]
    BY DEF SurfaceInv, Shape
  <1>5. o = [f \in Fields |-> o[f]] /\ o.pc = to /\ \A f \in Untouched : o[f] = ops[a][f]
    BY <1>4 DEF Fields, Untouched
  <1>6. Moves(a, o)
    BY <1>2, <1>5 DEF Moves
  <1> HIDE DEF o
  <1>7. o.pc \in Plain /\ o.pc \notin Early /\ (o.pc \in OfReload => o.kind = "governance")
    BY <1>3, <1>5 DEF Plain, Early, OfReload, Untouched
  <1> QED
    BY <1>1, <1>5, <1>6, <1>7, PlainKeeps DEF Plain, Untouched

LEMMA DisconnectKeeps ==
    ASSUME SurfaceInv, NEW a \in Callers, Disconnect(a) PROVE SurfaceInv'
  <1>1. PICK s \in ops[a].disconnect :
           /\ connections' = [connections EXCEPT ![s] = NoConnection]
           /\ Continue(a, [ops[a] EXCEPT !.disconnect = @ \ {s}])
    BY DEF Disconnect
  <1>0. Busy(a)
    BY DEF Disconnect, Busy
  <1> DEFINE o == [ops[a] EXCEPT !["disconnect"] = ops[a].disconnect \ {s}]
  <1>2. ops' = [ops EXCEPT ![a] = o]
    BY <1>1 DEF Continue
  <1>3. ops[a] = [f \in Fields |-> ops[a][f]]
    BY DEF SurfaceInv, Shape
  <1>4. /\ o = [f \in Fields |-> o[f]] /\ o.disconnect = ops[a].disconnect \ {s}
        /\ \A f \in Fields \ {"disconnect"} : o[f] = ops[a][f]
    BY <1>3 DEF Fields
  <1> HIDE DEF o
  <1>5. ops'[a] = o /\ \A b \in Callers \ {a} : ops'[b] = ops[b]
    BY <1>2 DEF SurfaceInv, Shape
  <1>6. \A r \in Servers : connections'[r] = IF r = s THEN NoConnection ELSE connections[r]
    BY <1>1 DEF SurfaceInv, Shape
  <1>7. Shape'
    BY <1>1, <1>2, <1>4, <1>5 DEF SurfaceInv, Shape
  <1>8. ASSUME ops[a].alone PROVE InHand(a)' /\ Unconnected(a)'
    <2>1. InHand(a) /\ Unconnected(a)
      BY <1>0, <1>8 DEF SurfaceInv, OpSound
    <2>2. ops[a].pc \in {"connect", "recheck"} /\ ops[a].opening = {}
      BY <2>1 DEF InHand, Unconnected
    <2>3. o.pc = ops[a].pc /\ o.connect = ops[a].connect /\ o.opening = {}
             /\ o.configs = ops[a].configs /\ o.kind = ops[a].kind
      BY <1>4, <2>2 DEF Fields
    <2>4. InHand(a)'
      BY <1>5, <2>1, <2>2, <2>3 DEF InHand, Plain, Early, OfReload
    <2>5. \A r \in Servers : connections[r] = NoConnection \/ r \in ops[a].disconnect
                => connections'[r] = NoConnection \/ r \in o.disconnect
      BY <1>4, <1>6
    <2>6. ops[a].connect \subseteq Servers
      BY <2>1 DEF InHand
    <2>7. Unconnected(a)'
      BY <1>5, <2>1, <2>2, <2>3, <2>5, <2>6 DEF Unconnected, Early
    <2> QED
      BY <2>4, <2>7
  <1>9. o.alone = ops[a].alone
    BY <1>4 DEF Fields
  <1> QED
    BY <1>0, <1>5, <1>7, <1>8, <1>9, OthersKeep DEF OpSound

\* Less is left to connect, and nothing is connected.
LEMMA LessInHand ==
    ASSUME SurfaceInv, NEW a \in Callers, Busy(a), NEW o, Moves(a, o), UNCHANGED connections,
           o.pc = ops[a].pc, o.alone = ops[a].alone, o.kind = ops[a].kind,
           o.configs = ops[a].configs, o.disconnect = ops[a].disconnect,
           o.connect \subseteq ops[a].connect, o.opening \subseteq ops[a].opening
    PROVE  SurfaceInv'
  <1>1. Shape' /\ ops'[a] = o /\ \A b \in Callers \ {a} : ops'[b] = ops[b]
    BY Moved DEF SurfaceInv
  <1>2. ASSUME ops[a].alone PROVE InHand(a)' /\ Unconnected(a)'
    <2>1. InHand(a) /\ Unconnected(a)
      BY <1>2 DEF SurfaceInv, OpSound
    <2>2. InHand(a)'
      BY <1>1, <2>1 DEF InHand
    <2>3. Unconnected(a)'
      BY <1>1, <2>1 DEF Unconnected
    <2> QED
      BY <2>2, <2>3
  <1> QED
    BY <1>1, <1>2, OthersKeep DEF OpSound

LEMMA UnreachableKeeps ==
    ASSUME SurfaceInv, NEW a \in Callers, Busy(a), NEW s, Unreachable(a, s),
           UNCHANGED connections
    PROVE  SurfaceInv'
  <1>1. CASE End(a, FALSE)
    BY <1>1, EndKeeps
  <1>2. CASE ~ End(a, FALSE)
    <2> DEFINE open == {t \in ops[a].opening : t.server # s}
               o == [ops[a] EXCEPT !["clean"] = FALSE, !["connect"] = ops[a].connect \ {s},
                                   !["opening"] = open]
    <2>1. ops' = [ops EXCEPT ![a] = o]
      BY <1>2 DEF Unreachable, Continue
    <2>2. open \subseteq ops[a].opening
      OBVIOUS
    <2> HIDE DEF open
    <2>3. ops[a] = [f \in Fields |-> ops[a][f]]
      BY DEF SurfaceInv, Shape
    <2>4. /\ o = [f \in Fields |-> o[f]] /\ o.connect = ops[a].connect \ {s} /\ o.opening = open
          /\ \A f \in Fields \ {"clean", "connect", "opening"} : o[f] = ops[a][f]
      BY <2>3 DEF Fields
    <2> HIDE DEF o
    <2>5. /\ o.pc = ops[a].pc /\ o.alone = ops[a].alone /\ o.kind = ops[a].kind
          /\ o.configs = ops[a].configs /\ o.disconnect = ops[a].disconnect
      BY <2>4 DEF Fields
    <2> QED
      BY <2>1, <2>2, <2>4, <2>5, LessInHand DEF Moves
  <1> QED
    BY <1>1, <1>2

LEMMA ConnectKeeps == ASSUME SurfaceInv, NEW a \in Callers, Connect(a) PROVE SurfaceInv'
  <1>1. ops[a].pc = "connect" /\ ops[a].disconnect = {} /\ Busy(a) /\ UNCHANGED connections
    BY DEF Connect, Busy
  <1>2. PICK s \in ops[a].connect :
           \/ Continue(a, [ops[a] EXCEPT !.connect = @ \ {s},
                              !.opening = @ \cup {[server |-> s, id |-> made + 1]}])
           \/ Unreachable(a, s)
    BY Zenon DEF Connect
  <1>3. CASE Unreachable(a, s)
    BY <1>1, <1>3, UnreachableKeeps
  <1>4. CASE ~ Unreachable(a, s)
    <2> DEFINE new == [server |-> s, id |-> made + 1]
               o == [ops[a] EXCEPT !["connect"] = ops[a].connect \ {s},
                                   !["opening"] = ops[a].opening \cup {new}]
    <2>1. ops' = [ops EXCEPT ![a] = o]
      BY <1>2, <1>4 DEF Continue
    <2>2. new.server = s
      OBVIOUS
    <2> HIDE DEF new
    <2>3. ops[a] = [f \in Fields |-> ops[a][f]]
      BY DEF SurfaceInv, Shape
    <2>4. /\ o = [f \in Fields |-> o[f]] /\ o.connect = ops[a].connect \ {s}
          /\ o.opening = ops[a].opening \cup {new} /\ o.pc = "connect" /\ o.disconnect = {}
          /\ o.alone = ops[a].alone
      BY <1>1, <2>3 DEF Fields
    <2> HIDE DEF o
    <2>5. Shape' /\ ops'[a] = o /\ \A b \in Callers \ {a} : ops'[b] = ops[b]
      BY <1>1, <2>1, <2>4, Moved DEF Moves, SurfaceInv
    <2>6. ASSUME ops[a].alone PROVE InHand(a)' /\ Unconnected(a)'
      <3>1. InHand(a) /\ Unconnected(a)
        BY <1>1, <2>6 DEF SurfaceInv, OpSound
      <3>2. InHand(a)'
        BY <1>1, <1>2, <2>2, <2>4, <2>5, <3>1 DEF InHand, Plain, Early, OfReload
      <3>3. Unconnected(a)'
        BY <1>1, <1>2, <2>2, <2>4, <2>5, <3>1 DEF Unconnected, Early
      <3> QED
        BY <3>2, <3>3
    <2> QED
      BY <1>1, <2>4, <2>5, <2>6, OthersKeep DEF OpSound
  <1> QED
    BY <1>3, <1>4

\* A caller that is alone puts its connection where there is none.
LEMMA EstablishesNew ==
    ASSUME SurfaceInv, NEW a \in Callers, Busy(a), ops[a].alone, NEW t \in ops[a].opening
    PROVE  ops[a].pc = "connect" /\ connections[t.server] = NoConnection
  BY DEF SurfaceInv, OpSound, InHand, Unconnected

LEMMA EstablishKeeps == ASSUME SurfaceInv, NEW a \in Callers, Establish(a) PROVE SurfaceInv'
  <1>0. Busy(a)
    BY DEF Establish, Busy
  <1>1. PICK t \in ops[a].opening :
           \/ /\ connections' = [connections EXCEPT ![t.server] =
                                    [config |-> ops[a].configs[t.server], id |-> t.id]]
              /\ Continue(a, [ops[a] EXCEPT !.opening = @ \ {t}])
           \/ Unreachable(a, t.server) /\ UNCHANGED connections
    BY Zenon DEF Establish
  <1>2. CASE Unreachable(a, t.server) /\ UNCHANGED connections
    BY <1>0, <1>2, UnreachableKeeps
  <1>3. CASE ~ (Unreachable(a, t.server) /\ UNCHANGED connections)
    <2> DEFINE o == [ops[a] EXCEPT !["opening"] = ops[a].opening \ {t}]
    <2>1. ops' = [ops EXCEPT ![a] = o]
      BY <1>1, <1>3 DEF Continue
    <2>2. ops[a] = [f \in Fields |-> ops[a][f]]
      BY DEF SurfaceInv, Shape
    <2>3. /\ o = [f \in Fields |-> o[f]] /\ o.opening = ops[a].opening \ {t}
          /\ \A f \in Fields \ {"opening"} : o[f] = ops[a][f]
      BY <2>2 DEF Fields
    <2> HIDE DEF o
    <2>4. ops'[a] = o /\ \A b \in Callers \ {a} : ops'[b] = ops[b]
      BY <2>1 DEF SurfaceInv, Shape
    <2>5. Shape'
      BY <1>1, <1>3, <2>1, <2>3, <2>4 DEF SurfaceInv, Shape
    <2>6. \A s \in Servers \ {t.server} : connections'[s] = connections[s]
      BY <1>1, <1>3 DEF SurfaceInv, Shape
    <2>7. /\ o.pc = ops[a].pc /\ o.alone = ops[a].alone /\ o.kind = ops[a].kind
          /\ o.connect = ops[a].connect /\ o.disconnect = ops[a].disconnect
      BY <2>3 DEF Fields
    <2>8. ASSUME ops[a].alone PROVE InHand(a)' /\ Unconnected(a)'
      <3>1. InHand(a) /\ Unconnected(a)
        BY <1>0, <2>8 DEF SurfaceInv, OpSound
      <3>2. ops[a].pc = "connect" /\ ops[a].disconnect = {}
        BY <3>1 DEF InHand, Unconnected
      <3>3. InHand(a)'
        BY <2>3, <2>4, <2>7, <3>1, <3>2 DEF InHand
      <3>4. \A s \in ops[a].connect : connections'[s] = connections[s]
        BY <2>6, <3>1 DEF InHand
      <3>5. \A u \in ops[a].opening \ {t} : connections'[u.server] = connections[u.server]
        BY <2>6, <3>1 DEF InHand
      <3>6. Unconnected(a)'
        BY <2>3, <2>4, <2>7, <3>1, <3>2, <3>4, <3>5 DEF Unconnected, Early
      <3> QED
        BY <3>3, <3>6
    <2> QED
      BY <1>0, <2>4, <2>5, <2>7, <2>8, OthersKeep DEF OpSound
  <1> QED
    BY <1>2, <1>3

-----------------------------------------------------------------------------
\* Who is busy when a request begins is not alone any more, nor is the request.
LEMMA BeginKeeps ==
    ASSUME SurfaceInv, NEW a \in Callers, NEW o, Begin(a, o), UNCHANGED connections,
           o = [f \in Fields |-> o[f]], o.connect = {}, o.opening = {},
           \/ o.pc = "load" /\ o.disconnect = {} /\ o.kind # "warmup"
           \/ /\ o.pc = "recheck"
              /\ \A s \in Servers : o.configs[s] # NoConfig => s \in o.disconnect
    PROVE  SurfaceInv'
  <1> DEFINE others == {b \in Callers \ {a} : Busy(b)}
             mine(b) == IF b = a THEN o ELSE ops[b]
             joined(b) == [mine(b) EXCEPT !["alone"] = FALSE, !["before"] = Idle.before]
  <1>1. ~ Busy(a)
    BY DEF Begin
  <1>2. \A b \in Callers : ops'[b] = IF others = {} \/ b \notin others \cup {a} THEN mine(b)
                                   ELSE joined(b)
    BY DEF Begin
  <1>3. \A b \in Callers : mine(b) = [f \in Fields |-> mine(b)[f]]
    BY DEF SurfaceInv, Shape
  <1>4. \A b \in Callers : /\ joined(b) = [f \in Fields |-> joined(b)[f]]
                           /\ joined(b).alone = FALSE /\ joined(b).pc = mine(b).pc
    BY <1>3 DEF Fields
  <1>5. ops' = [b \in Callers |-> ops'[b]]
    BY DEF Begin
  <1>6. Shape'
    <2>1. connections' = [s \in Servers |-> connections'[s]]
      BY DEF SurfaceInv, Shape
    <2>2. \A b \in Callers : ops'[b] = mine(b) \/ ops'[b] = joined(b)
      BY <1>2
    <2> HIDE DEF mine, joined
    <2>3. \A b \in Callers : ops'[b] = [f \in Fields |-> ops'[b][f]]
      BY <1>3, <1>4, <2>2
    <2> QED
      BY <1>5, <2>1, <2>3 DEF Shape
  <1> HIDE DEF joined
  <1>7. ASSUME others # {}, NEW b \in Callers, Busy(b)' PROVE ~ ops'[b].alone
    <2>1. ops'[b].pc # "idle"
      BY <1>7 DEF Busy
    <2>2. b \in others \cup {a}
      BY <1>2, <1>7, <2>1 DEF Busy
    <2> QED
      BY <1>2, <1>4, <1>7, <2>2
  <1>8. ASSUME others = {}, NEW b \in Callers \ {a} PROVE ~ Busy(b)'
    <2>1. ops'[b] = ops[b]
      BY <1>2, <1>8
    <2> QED
      BY <1>8, <2>1 DEF Busy
  <1>9. AloneSound'
    BY <1>7, <1>8 DEF AloneSound
  <1>10. ASSUME others = {} PROVE OpSound(a)'
    <2>1. ops'[a] = o
      BY <1>2, <1>10
    <2>2. InHand(a)'
      BY <2>1 DEF InHand, Plain, Early, OfReload
    <2>3. Unconnected(a)'
      BY <2>1 DEF Unconnected, Early
    <2> QED
      BY <2>2, <2>3 DEF OpSound
  <1>11. \A b \in Callers : OpSound(b)'
    BY <1>7, <1>8, <1>10 DEF OpSound
  <1> QED
    BY <1>6, <1>9, <1>11 DEF SurfaceInv

LEMMA RequestsKeep == ASSUME SurfaceInv, NEW a \in Callers, Requests(a) PROVE SurfaceInv'
  <1> USE IdleShape
  <1>1. CASE Change(a)
    <2> DEFINE o == [Idle EXCEPT !["pc"] = "load", !["kind"] = "change"]
    <2>1. Begin(a, o) /\ UNCHANGED connections
      BY <1>1 DEF Change, mcpVars
    <2>2. /\ o = [f \in Fields |-> o[f]] /\ o.connect = {} /\ o.opening = {}
          /\ o.pc = "load" /\ o.disconnect = {} /\ o.kind = "change"
      BY DEF Fields
    <2> HIDE DEF o
    <2> QED
      BY <2>1, <2>2, BeginKeeps
  <1>2. CASE Reload(a)
    <2> DEFINE o == [Idle EXCEPT !["pc"] = "load", !["kind"] = "governance", !["before"] = Plugins]
    <2>1. Begin(a, o) /\ UNCHANGED connections
      BY <1>2 DEF Reload, mcpVars
    <2>2. /\ o = [f \in Fields |-> o[f]] /\ o.connect = {} /\ o.opening = {}
          /\ o.pc = "load" /\ o.disconnect = {} /\ o.kind = "governance"
      BY DEF Fields
    <2> HIDE DEF o
    <2> QED
      BY <2>1, <2>2, BeginKeeps
  <1>3. CASE Reconnect(a)
    <2>1. PICK s \in Servers :
             Begin(a, [Idle EXCEPT !.pc = "recheck", !.kind = "reconnect",
                                   !.disconnect = {s}, !.configs[s] = declared[s]])
      BY <1>3 DEF Reconnect
    <2> DEFINE configs == [Idle.configs EXCEPT ![s] = declared[s]]
               o == [Idle EXCEPT !["pc"] = "recheck", !["kind"] = "reconnect",
                                 !["disconnect"] = {s}, !["configs"] = configs]
    <2>2. Begin(a, o) /\ UNCHANGED connections
      BY <1>3, <2>1 DEF Reconnect, mcpVars
    <2>3. \A r \in Servers : configs[r] # NoConfig => r \in {s}
      OBVIOUS
    <2> HIDE DEF configs
    <2>4. /\ o = [f \in Fields |-> o[f]] /\ o.connect = {} /\ o.opening = {}
          /\ o.pc = "recheck" /\ o.disconnect = {s} /\ o.configs = configs
      BY DEF Fields
    <2> HIDE DEF o
    <2> QED
      BY <2>2, <2>3, <2>4, BeginKeeps
  <1> QED
    BY <1>1, <1>2, <1>3 DEF Requests

LEMMA InitHolds == Init => SurfaceInv
  <1> SUFFICES ASSUME Init PROVE SurfaceInv
    OBVIOUS
  <1>1. \A s \in Servers : connections[s] = NoConnection
    BY DEF Init
  <1>2. PICK w \in Callers :
           ops = [a \in Callers |->
                     IF a = w THEN [Idle EXCEPT !.pc = "load", !.kind = "warmup", !.gen = 1]
                     ELSE Idle]
    BY DEF Init
  <1> DEFINE o == [Idle EXCEPT !["pc"] = "load", !["kind"] = "warmup", !["gen"] = 1]
  <1>3. /\ o = [f \in Fields |-> o[f]] /\ o.connect = {} /\ o.opening = {}
        /\ o.pc = "load" /\ o.disconnect = {} /\ o.kind = "warmup"
    BY IdleShape DEF Fields
  <1>4. ops[w] = o /\ \A a \in Callers \ {w} : ops[a] = Idle
    BY <1>2
  <1> HIDE DEF o
  <1>5. Shape
    <2>1. connections = [s \in Servers |-> connections[s]] /\ ops = [a \in Callers |-> ops[a]]
      BY <1>2 DEF Init
    <2>2. \A a \in Callers : ops[a] = [f \in Fields |-> ops[a][f]]
      BY <1>3, <1>4, IdleShape
    <2> QED
      BY <2>1, <2>2 DEF Shape
  <1>6. \A a \in Callers \ {w} : ~ Busy(a)
    BY <1>4, IdleShape DEF Busy
  <1>7. InHand(w)
    BY <1>3, <1>4 DEF InHand, Plain, Early, OfReload
  <1>8. Unconnected(w)
    BY <1>1, <1>3, <1>4 DEF Unconnected
  <1> QED
    BY <1>5, <1>6, <1>7, <1>8 DEF SurfaceInv, AloneSound, OpSound

LEMMA NextKeeps == ASSUME SurfaceInv, [Next]_vars PROVE SurfaceInv'
  <1>1. CASE UNCHANGED vars
    BY <1>1 DEF vars, mcpVars, SurfaceInv, Shape, AloneSound, OpSound, InHand, Unconnected, Busy
  <1>2. ASSUME NEW a \in Callers, Requests(a) PROVE SurfaceInv'
    BY <1>2, RequestsKeep
  <1>3. ASSUME NEW a \in Callers, Governance(a) PROVE SurfaceInv'
    BY <1>3, PrepareKeeps, CaptureKeeps, StageKeeps, CommitKeeps, InstallKeeps, RetireKeeps
       DEF Governance
  <1>4. ASSUME NEW a \in Callers, Mcp(a) PROVE SurfaceInv'
    BY <1>4, LoadKeeps, CompareKeeps, DisconnectKeeps, RecheckKeeps, ConnectKeeps,
       EstablishKeeps, ListKeeps, SurveyKeeps, ApplyKeeps DEF Mcp
  <1> QED
    BY <1>1, <1>2, <1>3, <1>4 DEF Next

\* What a caller that runs alone has in hand is sound, and two callers at work
\* know that they are not alone (adapter-mcp/src/manager/mod.rs).
THEOREM SurfaceIsSound == Spec => []SurfaceInv
  BY InitHolds, NextKeeps, PTL DEF Spec

\* A connection is overwritten only by a caller that was overlapped.
THEOREM ReplacedOnlyByOverlapHolds == Spec => ReplacedOnlyByOverlap
  <1> DEFINE OverlapOnly(s) ==
         /\ connections[s] # NoConnection
         /\ connections'[s] \notin {NoConnection, connections[s]}
         => \E a \in Callers : Busy(a) /\ ~ ops[a].alone /\ ops'[a] # ops[a]
  <1>1. ASSUME SurfaceInv, [Next]_vars, NEW s \in Servers PROVE OverlapOnly(s)
    <2> SUFFICES ASSUME connections[s] # NoConnection,
                        connections'[s] \notin {NoConnection, connections[s]}
                 PROVE  \E a \in Callers : Busy(a) /\ ~ ops[a].alone /\ ops'[a] # ops[a]
      OBVIOUS
    <2>1. PICK a \in Callers : Disconnect(a) \/ Establish(a)
      BY <1>1 DEF vars, mcpVars, Next, Requests, Mcp, Governance, Change, Reconnect, Reload,
         Load, Declare, Compare, Recheck, Connect, List, Survey, Apply, Refuse, Prepare, Capture,
         Identify, Keep, Stage, Commit, Hooks, Install, Retire
    <2>2. ~ Disconnect(a)
      BY <1>1 DEF Disconnect, SurfaceInv, Shape
    <2>3. PICK t \in ops[a].opening :
             /\ connections' = [connections EXCEPT ![t.server] =
                                   [config |-> ops[a].configs[t.server], id |-> t.id]]
             /\ Continue(a, [ops[a] EXCEPT !.opening = @ \ {t}])
      BY <2>1, <2>2 DEF Establish
    <2>4. t.server = s
      BY <1>1, <2>3 DEF SurfaceInv, Shape
    <2>5. Busy(a)
      BY <2>1, <2>2 DEF Establish, Busy
    <2>6. ~ ops[a].alone
      BY <1>1, <2>4, <2>5, EstablishesNew
    <2>7. ops' = [ops EXCEPT ![a] = [ops[a] EXCEPT !["opening"] = ops[a].opening \ {t}]]
      BY <2>3 DEF Continue
    <2>8. ops'[a].opening = ops[a].opening \ {t}
      BY <1>1, <2>7 DEF SurfaceInv, Shape, Fields
    <2>9. ops'[a] # ops[a]
      BY <2>3, <2>8
    <2> QED
      BY <2>5, <2>6, <2>9
  <1>2. SurfaceInv /\ [Next]_vars => [\A s \in Servers : OverlapOnly(s)]_vars
    BY <1>1
  <1> QED
    BY SurfaceIsSound, <1>2, PTL DEF Spec, ReplacedOnlyByOverlap

-----------------------------------------------------------------------------
\* What a caller that runs alone has reached.  The servers that it wants are
\* those declared in the files, and they are connected as they are declared, or
\* about to be.
Alone(a) == Busy(a) /\ ops[a].alone
Wants(s) == ShouldConnect(s, source[s])
ConnectedAs(s) == connections[s] # NoConnection /\ connections[s].config = source[s]
InOpening(a, s) == \E t \in ops[a].opening : t.server = s
Late == {"survey", "stage", "apply", "commit", "hooks", "install", "retire"}
Done == {"commit", "hooks", "install", "retire"}

Stages(a) ==
    /\ ops[a].kind \in {"warmup", "change", "reconnect", "governance"}
    /\ ops[a].restoring => /\ ops[a].kind = "governance" /\ ~ ops[a].clean
                           /\ ops[a].pc \in {"declare", "compare", "connect", "survey", "apply"}
    /\ ops[a].kind = "reconnect" => ops[a].pc \in {"recheck", "connect", "survey", "apply"}
    /\ ops[a].pc = "recheck" => ops[a].kind = "reconnect"

FromFiles(a) == ops[a].kind # "reconnect" /\ ops[a].clean

Connecting(a) == FromFiles(a) =>
    /\ ops[a].pc \in {"capture", "list", "identify", "keep", "declare", "compare", "connect"} =>
           \A s \in Servers : ops[a].configs[s] = source[s]
    /\ ops[a].pc = "connect" =>
           \A s \in Servers :
               /\ Wants(s) => \/ s \in ops[a].connect \/ InOpening(a, s)
                              \/ s \notin ops[a].disconnect /\ ConnectedAs(s)
               /\ ~ Wants(s) => /\ s \notin ops[a].connect /\ ~ InOpening(a, s)
                                /\ s \in ops[a].disconnect \/ connections[s] = NoConnection
    /\ ops[a].pc \in Late =>
           \A s \in Servers : IF Wants(s) THEN ConnectedAs(s) ELSE connections[s] = NoConnection

\* What it has listed are the declared servers, and what it has identified are
\* tools of MCP servers.
Listing(a) ==
    /\ ops[a].pc \in {"identify", "survey"} => ops[a].listed = DeclaredServers
    /\ ops[a].pc = "keep" => \A t \in ops[a].tools : t.from = "mcp"

\* The tools it has surveyed are still those of the connections, and they are
\* in the places it has written; its plugins are alive.
Serving(a) ==
    /\ ops[a].pc \in {"stage", "apply"} => ops[a].tools = McpTools \cup Added(ops[a])
    /\ ops[a].pc = "stage" => ops[a].place = 1
    /\ ops[a].pc = "apply" => /\ ops[a].place \in 1..3
                              /\ ops[a].place >= 2 => surface["router"] = ops[a].tools
                              /\ ops[a].place = 3 => surface["index"] = ops[a].tools
    /\ ops[a].pc \in Done =>
           \A p \in Places : surface[p] = McpTools \cup {PluginTool(ops[a].gen)}

Alive(a) ==
    /\ ops[a].kind = "warmup" => ops[a].gen = 1 /\ dead = {}
    /\ ops[a].kind = "governance" /\ ops[a].pc # "load" =>
           /\ ops[a].gen \notin dead
           /\ ops[a].pc # "retire" => runtime.components # ops[a].gen
           /\ ops[a].pc = "retire" => ops[a].retired # ops[a].gen

\* The candidate of a reload is its own, and what follows the commit is its own.
Committing(a) == ops[a].kind = "governance" /\ ~ ops[a].restoring =>
    /\ ops[a].pc \in {"apply", "commit"} => registry.candidate = ops[a].staged /\ ops[a].staged # 0
    /\ ops[a].pc \in {"hooks", "install", "retire"} => registry.active = ops[a].staged
    /\ ops[a].pc \in {"install", "retire"} => runtime.hooks = ops[a].staged
    /\ ops[a].pc = "retire" => /\ runtime.catalogs = ops[a].gen /\ runtime.components = ops[a].gen
                               /\ runtime.capabilities = surface["router"]

\* Up to the commit nothing of the plugins has been replaced but what the
\* router serves, and what it served has been captured.
Captured(a) == ops[a].kind = "governance" =>
    /\ ops[a].pc \notin {"hooks", "install", "retire"} =>
           ops[a].before.active = registry.active /\ ops[a].before.runtime = runtime
    /\ ops[a].pc \in {"load", "capture", "list", "identify", "keep"} =>
           PluginTools(surface["record"]) = ops[a].before.record
    /\ ops[a].pc \notin {"load", "capture", "list", "identify", "keep", "retire"} =>
           PluginTools(ops[a].kept) = ops[a].before.record
    /\ \/ ops[a].pc \in {"load", "capture", "list", "identify", "keep", "declare", "compare",
                         "connect", "survey", "stage"}
       \/ ops[a].pc = "apply" /\ ops[a].place = 1
       => PluginTools(surface["router"]) = ops[a].before.router

Settling(a) == /\ Stages(a) /\ Connecting(a) /\ Listing(a) /\ Serving(a)
               /\ Alive(a) /\ Committing(a) /\ Captured(a)

RegistryFields == {"active", "candidate", "revision"}
RuntimeFields == {"hooks", "catalogs", "components", "capabilities"}
Numbers ==
    /\ registry = [f \in RegistryFields |-> registry[f]] /\ registry.revision \in Nat
    /\ runtime = [f \in RuntimeFields |-> runtime[f]]
    /\ surface = [p \in Places |-> surface[p]]
    /\ born \in Nat /\ dead \subseteq 0..born /\ runtime.components \in 0..born
    /\ \A a \in Callers : ops[a].gen \in 0..born /\ ops[a].retired \in 0..born

\* Only a request that ran alone leaves an outcome, and none while one runs.
Quiet == outcome = NoOutcome \/ \A a \in Callers : ~ Busy(a)
Good == SettledSurface /\ FailedReloadKeeps

SettlingInv == /\ SurfaceInv /\ Numbers /\ Quiet /\ Good
               /\ \A a \in Callers : Alone(a) => Settling(a)

-----------------------------------------------------------------------------
LEMMA NoOutcomeIsGood == ASSUME outcome = NoOutcome PROVE Good
  BY DEF Good, SettledSurface, FailedReloadKeeps, NoOutcome, None

LEMMA NoOutcomeIsGoodNext == ASSUME outcome' = NoOutcome PROVE Good'
  BY DEF Good, SettledSurface, FailedReloadKeeps, NoOutcome, None

LEMMA WantsSame == ASSUME UNCHANGED <<source, approved>> PROVE \A s : Wants(s)' <=> Wants(s)
  BY DEF Wants, ShouldConnect, Approved

LEMMA ToolsSame == ASSUME UNCHANGED mcpVars PROVE McpTools' = McpTools
  BY DEF mcpVars, McpTools, McpToolsOf, DeclaredServers

\* Whoever is busy beside a caller is not alone.
LEMMA OthersNotAlone ==
    ASSUME SurfaceInv, NEW a \in Callers, Busy(a), NEW b \in Callers \ {a}
    PROVE  ~ Alone(b)
  BY DEF SurfaceInv, AloneSound, Alone

LEMMA OthersNotAloneNext ==
    ASSUME SurfaceInv', NEW a \in Callers, Busy(a)', NEW b \in Callers \ {a}
    PROVE  ~ Alone(b)'
  BY DEF SurfaceInv, AloneSound, Alone

\* A step within a request: only the caller's own part is in question.
LEMMA StepSettles ==
    ASSUME SettlingInv, NEW a \in Callers, Busy(a), SurfaceInv', Numbers',
           UNCHANGED outcome, Busy(a)', ops'[a].alone = ops[a].alone, Alone(a) => Settling(a)'
    PROVE  SettlingInv'
  <1>1. outcome' = NoOutcome
    BY DEF SettlingInv, Quiet
  <1>2. \A b \in Callers : Alone(b)' => Settling(b)'
    BY OthersNotAloneNext DEF Alone
  <1> QED
    BY <1>1, <1>2, NoOutcomeIsGoodNext DEF SettlingInv, Quiet

\* The end of a request.
LEMMA EndSettles ==
    ASSUME SettlingInv, NEW a \in Callers, Busy(a), SurfaceInv', Numbers',
           NEW ok, End(a, ok), Alone(a) => Good'
    PROVE  SettlingInv'
  <1>1. ops'[a] = Idle /\ \A b \in Callers \ {a} : ops'[b] = ops[b]
    BY DEF End, SettlingInv, SurfaceInv, Shape
  <1>2. ~ Busy(a)'
    BY <1>1, IdleShape DEF Busy
  <1>3. \A b \in Callers \ {a} : Alone(b)' => Alone(b)
    BY <1>1 DEF Alone, Busy
  <1>4. \A b \in Callers : ~ Alone(b)'
    BY <1>2, <1>3, OthersNotAlone DEF Alone, SettlingInv
  <1>5. CASE ~ ops[a].alone
    <2>1. outcome' = NoOutcome
      BY <1>5 DEF End
    <2> QED
      BY <1>4, <2>1, NoOutcomeIsGoodNext DEF SettlingInv, Quiet
  <1>6. CASE ops[a].alone
    <2>1. \A b \in Callers \ {a} : ~ Busy(b)
      BY <1>6 DEF SettlingInv, SurfaceInv, AloneSound
    <2>2. Quiet'
      BY <1>1, <1>2, <2>1 DEF Quiet, Busy
    <2> QED
      BY <1>4, <1>6, <2>2 DEF SettlingInv, Alone
  <1> QED
    BY <1>5, <1>6

\* The numbers stay what they are when a step changes none of them.
LEMMA NumbersKept ==
    ASSUME SettlingInv, NEW a \in Callers, UNCHANGED <<surface, registry, runtime, dead, born>>,
           \A b \in Callers \ {a} : ops'[b] = ops[b],
           ops'[a].gen = ops[a].gen, ops'[a].retired = ops[a].retired
    PROVE  Numbers'
  BY DEF SettlingInv, Numbers

\* Caller a goes on with o.
LEMMA GoesOn ==
    ASSUME SettlingInv, NEW a \in Callers, NEW o, ops' = [ops EXCEPT ![a] = o]
    PROVE  ops'[a] = o /\ \A b \in Callers \ {a} : ops'[b] = ops[b]
  BY DEF SettlingInv, SurfaceInv, Shape

LEMMA LoadSettles ==
    ASSUME SettlingInv, SurfaceInv', NEW a \in Callers, Load(a) PROVE SettlingInv'
  <1>1. /\ ops[a].pc = "load" /\ ops[a].kind # "governance" /\ Busy(a)
        /\ UNCHANGED <<source, outcome, surface, registry, runtime, dead, born>>
    BY DEF Load, Continue, reloadVars, Busy
  <1>2. PICK missing \in SUBSET Servers :
           ops' = [ops EXCEPT ![a] = [ops[a] EXCEPT !.pc = "declare", !.configs = Loaded(missing),
                                                    !.clean = @ /\ missing = {}]]
    BY DEF Load, Continue
  <1>3. PICK clean : clean = (ops[a].clean /\ missing = {})
    OBVIOUS
  <1> DEFINE o == [ops[a] EXCEPT !["pc"] = "declare", !["configs"] = Loaded(missing),
                                 !["clean"] = clean]
  <1>4. ops' = [ops EXCEPT ![a] = o]
    BY <1>2, <1>3
  <1>5. ops[a] = [f \in Fields |-> ops[a][f]]
    BY DEF SettlingInv, SurfaceInv, Shape
  <1>6. /\ o.pc = "declare" /\ o.configs = Loaded(missing) /\ o.clean = clean
        /\ \A f \in Fields \ {"pc", "configs", "clean"} : o[f] = ops[a][f]
    BY <1>5 DEF Fields
  <1> HIDE DEF o
  <1>7. ops'[a] = o /\ \A b \in Callers \ {a} : ops'[b] = ops[b]
    BY <1>4, GoesOn
  <1>8. /\ o.kind = ops[a].kind /\ o.restoring = ops[a].restoring /\ o.gen = ops[a].gen
        /\ o.retired = ops[a].retired /\ o.alone = ops[a].alone
    BY <1>6 DEF Fields
  <1>9. ASSUME Alone(a) PROVE Settling(a)'
    <2>1. Settling(a)
      BY <1>9 DEF SettlingInv
    <2>2. Stages(a)'
      BY <1>1, <1>6, <1>7, <1>8, <2>1 DEF Settling, Stages
    <2>3. Connecting(a)'
      <3>1. SUFFICES ASSUME clean, NEW s \in Servers PROVE o.configs[s] = source[s]
        BY <1>1, <1>6, <1>7 DEF Connecting, FromFiles, Late
      <3> QED
        BY <1>3, <1>6, <3>1 DEF Loaded
    <2>4. Listing(a)' /\ Serving(a)'
      BY <1>6, <1>7 DEF Listing, Serving, Done
    <2>5. Alive(a)' /\ Committing(a)' /\ Captured(a)'
      BY <1>1, <1>7, <1>8, <2>1 DEF Settling, Alive, Committing, Captured
    <2> QED
      BY <2>2, <2>3, <2>4, <2>5 DEF Settling
  <1>10. Numbers'
    BY <1>1, <1>7, <1>8, NumbersKept
  <1>11. Busy(a)'
    BY <1>6, <1>7 DEF Busy
  <1> QED
    BY <1>1, <1>7, <1>8, <1>9, <1>10, <1>11, StepSettles

LEMMA DeclareSettles ==
    ASSUME SettlingInv, SurfaceInv', NEW a \in Callers, Declare(a) PROVE SettlingInv'
  <1>1. /\ ops[a].pc = "declare" /\ Busy(a)
        /\ UNCHANGED <<source, outcome, surface, registry, runtime, dead, born>>
    BY DEF Declare, Continue, reloadVars, Busy
  <1> DEFINE o == [ops[a] EXCEPT !["pc"] = "compare"]
  <1>2. ops' = [ops EXCEPT ![a] = o]
    BY DEF Declare, Continue
  <1>3. ops[a] = [f \in Fields |-> ops[a][f]]
    BY DEF SettlingInv, SurfaceInv, Shape
  <1>4. o.pc = "compare" /\ \A f \in Fields \ {"pc"} : o[f] = ops[a][f]
    BY <1>3 DEF Fields
  <1> HIDE DEF o
  <1>5. ops'[a] = o /\ \A b \in Callers \ {a} : ops'[b] = ops[b]
    BY <1>2, GoesOn
  <1>6. /\ o.kind = ops[a].kind /\ o.restoring = ops[a].restoring /\ o.gen = ops[a].gen
        /\ o.retired = ops[a].retired /\ o.alone = ops[a].alone /\ o.clean = ops[a].clean
        /\ o.configs = ops[a].configs /\ o.kept = ops[a].kept /\ o.before = ops[a].before
    BY <1>4 DEF Fields
  <1>7. ASSUME Alone(a) PROVE Settling(a)'
    <2>1. Settling(a)
      BY <1>7 DEF SettlingInv
    <2>2. Stages(a)'
      BY <1>1, <1>4, <1>5, <1>6, <2>1 DEF Settling, Stages
    <2>3. Connecting(a)'
      BY <1>1, <1>4, <1>5, <1>6, <2>1 DEF Settling, Connecting, FromFiles, Late
    <2>4. Listing(a)' /\ Serving(a)'
      BY <1>4, <1>5 DEF Listing, Serving, Done
    <2>5. Alive(a)' /\ Committing(a)' /\ Captured(a)'
      BY <1>1, <1>4, <1>5, <1>6, <2>1 DEF Settling, Alive, Committing, Captured
    <2> QED
      BY <2>2, <2>3, <2>4, <2>5 DEF Settling
  <1>8. Numbers'
    BY <1>1, <1>5, <1>6, NumbersKept
  <1>9. Busy(a)'
    BY <1>4, <1>5 DEF Busy
  <1> QED
    BY <1>1, <1>5, <1>6, <1>7, <1>8, <1>9, StepSettles

\* What a caller carries from its beginning to its end.
Carried == {"kind", "restoring", "gen", "retired", "alone", "before"}

LEMMA CarriedFields ==
    ASSUME NEW o, NEW a, \A f \in Carried : o[f] = ops[a][f]
    PROVE  /\ o.kind = ops[a].kind /\ o.restoring = ops[a].restoring /\ o.gen = ops[a].gen
           /\ o.retired = ops[a].retired /\ o.alone = ops[a].alone /\ o.before = ops[a].before
  BY DEF Carried

Capturing == {"capture", "list", "identify", "keep"}

\* A step of the capture: what it keeps are, in the end, the plugins' tools.
LEMMA CapturingSettles ==
    ASSUME SettlingInv, SurfaceInv', NEW a \in Callers, NEW o, ops' = [ops EXCEPT ![a] = o],
           ops[a].pc \in Capturing, o.pc \in {"list", "identify", "keep", "declare"},
           \A f \in Carried : o[f] = ops[a][f],
           o.clean = ops[a].clean, o.configs = ops[a].configs,
           UNCHANGED <<source, outcome, surface, registry, runtime, dead, born>>,
           Alone(a) => Listing(a)',
           Alone(a) /\ o.pc = "declare" => PluginTools(o.kept) = PluginTools(surface["record"])
    PROVE  SettlingInv'
  <1>1. ops'[a] = o /\ \A b \in Callers \ {a} : ops'[b] = ops[b]
    BY GoesOn
  <1>2. /\ o.kind = ops[a].kind /\ o.restoring = ops[a].restoring /\ o.gen = ops[a].gen
        /\ o.retired = ops[a].retired /\ o.alone = ops[a].alone /\ o.before = ops[a].before
    BY CarriedFields
  <1>3. ASSUME Alone(a) PROVE Settling(a)'
    <2>1. Settling(a) /\ InHand(a)
      BY <1>3 DEF SettlingInv, SurfaceInv, OpSound, Alone
    <2>2. ops[a].kind = "governance" /\ ~ ops[a].restoring
      BY <2>1 DEF InHand, OfReload, Capturing, Settling, Stages
    <2>3. Stages(a)'
      BY <1>1, <1>2, <2>2 DEF Stages
    <2>4. Connecting(a)'
      BY <1>1, <1>2, <2>1 DEF Settling, Connecting, FromFiles, Late, Capturing
    <2>5. Serving(a)'
      BY <1>1 DEF Serving, Done
    <2>6. Alive(a)' /\ Committing(a)'
      BY <1>1, <1>2, <2>1 DEF Settling, Alive, Committing, Capturing
    <2>7. PluginTools(surface["record"])' = PluginTools(surface["record"])
          /\ PluginTools(surface["router"])' = PluginTools(surface["router"])
          /\ PluginTools(ops[a].kept)' = PluginTools(o.kept)
      BY <1>1 DEF PluginTools
    <2>8. Captured(a)'
      BY <1>1, <1>2, <1>3, <2>1, <2>7 DEF Settling, Captured, Capturing
    <2> QED
      BY <1>3, <2>3, <2>4, <2>5, <2>6, <2>8 DEF Settling
  <1>4. Numbers'
    BY <1>1, <1>2, NumbersKept
  <1>5. Busy(a) /\ Busy(a)'
    BY <1>1 DEF Busy, Capturing
  <1> QED
    BY <1>1, <1>2, <1>3, <1>4, <1>5, StepSettles

LEMMA CaptureSettles ==
    ASSUME SettlingInv, SurfaceInv', NEW a \in Callers, Capture(a) PROVE SettlingInv'
  <1>1. /\ ops[a].pc = "capture"
        /\ UNCHANGED <<source, outcome, surface, registry, runtime, dead, born>>
    BY DEF Capture, Continue, reloadVars
  <1> DEFINE o == [ops[a] EXCEPT !["pc"] = "list", !["saved"] = declared]
  <1>2. ops' = [ops EXCEPT ![a] = o]
    BY DEF Capture, Continue
  <1>3. ops[a] = [f \in Fields |-> ops[a][f]]
    BY DEF SettlingInv, SurfaceInv, Shape
  <1>4. /\ o.pc = "list" /\ o.clean = ops[a].clean /\ o.configs = ops[a].configs
        /\ \A f \in Carried : o[f] = ops[a][f]
    BY <1>3 DEF Fields, Carried
  <1> HIDE DEF o
  <1>5. Listing(a)'
    BY <1>2, <1>4, GoesOn DEF Listing
  <1> QED
    BY <1>1, <1>2, <1>4, <1>5, CapturingSettles DEF Capturing

LEMMA IdentifySettles ==
    ASSUME SettlingInv, SurfaceInv', NEW a \in Callers, Identify(a) PROVE SettlingInv'
  <1>1. /\ ops[a].pc = "identify"
        /\ UNCHANGED <<source, outcome, surface, registry, runtime, dead, born>>
    BY DEF Identify, Continue, reloadVars
  <1> DEFINE tools == McpToolsOf(ops[a].listed)
             o == [ops[a] EXCEPT !["pc"] = "keep", !["tools"] = tools, !["listed"] = {}]
  <1>2. ops' = [ops EXCEPT ![a] = o]
    BY DEF Identify, Continue
  <1>3. \A t \in tools : t.from = "mcp"
    BY DEF McpToolsOf
  <1> HIDE DEF tools
  <1>4. ops[a] = [f \in Fields |-> ops[a][f]]
    BY DEF SettlingInv, SurfaceInv, Shape
  <1>5. /\ o.pc = "keep" /\ o.clean = ops[a].clean /\ o.configs = ops[a].configs
        /\ o.tools = tools /\ \A f \in Carried : o[f] = ops[a][f]
    BY <1>4 DEF Fields, Carried
  <1> HIDE DEF o
  <1>6. Listing(a)'
    BY <1>2, <1>3, <1>5, GoesOn DEF Listing
  <1> QED
    BY <1>1, <1>2, <1>5, <1>6, CapturingSettles DEF Capturing

\* The names of the tools tell those of the plugins from those of MCP servers.
LEMMA KeptArePlugins ==
    ASSUME NEW tools, \A u \in tools : u.from = "mcp",
           NEW kept, kept = {t \in surface["record"] : NameOf(t) \notin {NameOf(u) : u \in tools}}
    PROVE  PluginTools(kept) = PluginTools(surface["record"])
  <1>1. ASSUME NEW t, t.from = "plugin" PROVE NameOf(t) \notin {NameOf(u) : u \in tools}
    BY <1>1 DEF NameOf
  <1> QED
    BY <1>1 DEF PluginTools

LEMMA KeepSettles ==
    ASSUME SettlingInv, SurfaceInv', NEW a \in Callers, Keep(a) PROVE SettlingInv'
  <1>1. /\ ops[a].pc = "keep"
        /\ UNCHANGED <<source, outcome, surface, registry, runtime, dead, born>>
    BY DEF Keep, Continue, reloadVars
  <1> DEFINE kept == {t \in surface["record"] : NameOf(t) \notin {NameOf(u) : u \in ops[a].tools}}
             o == [ops[a] EXCEPT !["pc"] = "declare", !["tools"] = {}, !["kept"] = kept]
  <1>2. ops' = [ops EXCEPT ![a] = o]
    BY DEF Keep, Continue
  <1>3. ASSUME Alone(a) PROVE PluginTools(kept) = PluginTools(surface["record"])
    <2>1. \A u \in ops[a].tools : u.from = "mcp"
      BY <1>1, <1>3 DEF SettlingInv, Settling, Listing
    <2> QED
      BY <2>1, KeptArePlugins
  <1> HIDE DEF kept
  <1>4. ops[a] = [f \in Fields |-> ops[a][f]]
    BY DEF SettlingInv, SurfaceInv, Shape
  <1>5. /\ o.pc = "declare" /\ o.clean = ops[a].clean /\ o.configs = ops[a].configs
        /\ o.kept = kept /\ \A f \in Carried : o[f] = ops[a][f]
    BY <1>4 DEF Fields, Carried
  <1> HIDE DEF o
  <1>6. Listing(a)'
    BY <1>2, <1>5, GoesOn DEF Listing
  <1> QED
    BY <1>1, <1>2, <1>3, <1>5, <1>6, CapturingSettles DEF Capturing

\* Before the surface is written, what a step does to the connections leaves
\* the plugins alone.
LEMMA PluginsUntouched ==
    ASSUME NEW a \in Callers, NEW o, ops'[a] = o, Settling(a),
           UNCHANGED <<surface, registry, runtime, dead, born>>,
           \A f \in Carried : o[f] = ops[a][f], o.kept = ops[a].kept,
           ops[a].pc \in {"compare", "connect", "recheck"},
           o.pc \in {"connect", "recheck"}
    PROVE  Listing(a)' /\ Serving(a)' /\ Alive(a)' /\ Committing(a)' /\ Captured(a)'
  <1>1. /\ o.kind = ops[a].kind /\ o.restoring = ops[a].restoring /\ o.gen = ops[a].gen
        /\ o.retired = ops[a].retired /\ o.before = ops[a].before
    BY CarriedFields
  <1>2. Listing(a)' /\ Serving(a)'
    BY DEF Listing, Serving, Done
  <1>3. Alive(a)' /\ Committing(a)'
    BY <1>1 DEF Settling, Alive, Committing
  <1>4. PluginTools(ops[a].kept)' = PluginTools(ops[a].kept)
        /\ PluginTools(surface["router"])' = PluginTools(surface["router"])
    BY DEF PluginTools
  <1>5. Captured(a)'
    BY <1>1, <1>4 DEF Settling, Captured, Stages
  <1> QED
    BY <1>2, <1>3, <1>5

LEMMA CompareSettles ==
    ASSUME SettlingInv, SurfaceInv', NEW a \in Callers, Compare(a) PROVE SettlingInv'
  <1>1. /\ ops[a].pc = "compare" /\ Busy(a)
        /\ UNCHANGED <<source, approved, connections, outcome, surface, registry, runtime, dead, born>>
    BY DEF Compare, Continue, reloadVars, mcpVars, Busy
  <1> DEFINE close == IF ops[a].kind = "warmup" THEN {} ELSE Outdated(ops[a])
             o == [ops[a] EXCEPT !["pc"] = "connect", !["connect"] = Wanted(ops[a]),
                                 !["disconnect"] = close]
  <1>2. ops' = [ops EXCEPT ![a] = o]
    BY DEF Compare, Continue
  <1>3. ops[a] = [f \in Fields |-> ops[a][f]]
    BY DEF SettlingInv, SurfaceInv, Shape
  <1> HIDE DEF close
  <1>4. /\ o.pc = "connect" /\ o.connect = Wanted(ops[a]) /\ o.disconnect = close
        /\ \A f \in Carried : o[f] = ops[a][f]
        /\ o.clean = ops[a].clean /\ o.configs = ops[a].configs /\ o.kept = ops[a].kept
        /\ o.opening = ops[a].opening
    BY <1>3 DEF Fields, Carried
  <1> HIDE DEF o
  <1>5. ops'[a] = o /\ \A b \in Callers \ {a} : ops'[b] = ops[b]
    BY <1>2, GoesOn
  <1>6. /\ o.kind = ops[a].kind /\ o.restoring = ops[a].restoring /\ o.gen = ops[a].gen
        /\ o.retired = ops[a].retired /\ o.alone = ops[a].alone
    BY <1>4, CarriedFields
  <1>7. ASSUME Alone(a) PROVE Settling(a)'
    <2>1. Settling(a) /\ InHand(a) /\ Unconnected(a)
      BY <1>7 DEF SettlingInv, SurfaceInv, OpSound, Alone
    <2>2. Stages(a)'
      BY <1>1, <1>4, <1>5, <1>6, <2>1 DEF Settling, Stages
    <2>3. o.opening = {}
      BY <1>1, <1>4, <2>1 DEF InHand
    <2>4. Connecting(a)'
      <3>1. SUFFICES ASSUME ops[a].kind # "reconnect", ops[a].clean, NEW s \in Servers
                     PROVE  /\ o.configs[s] = source[s]
                            /\ Wants(s) => s \in o.connect \/ (s \notin o.disconnect /\ ConnectedAs(s))
                            /\ ~ Wants(s) => /\ s \notin o.connect
                                             /\ s \in o.disconnect \/ connections[s] = NoConnection
        BY <1>1, <1>4, <1>5, <1>6, <2>3, WantsSame
           DEF Connecting, FromFiles, Late, InOpening, ConnectedAs
      <3>2. ops[a].configs[s] = source[s]
        BY <1>1, <2>1, <3>1 DEF Settling, Connecting, FromFiles
      <3>3. Wants(s) <=> ShouldConnect(s, ops[a].configs[s])
        BY <3>2 DEF Wants
      <3>4. ops[a].kind = "warmup" => connections[s] = NoConnection /\ close = {}
        BY <1>1, <2>1 DEF Unconnected, Early, close
      <3>5. ops[a].kind # "warmup" => close = Outdated(ops[a])
        BY DEF close
      <3>6. s \in o.connect <=> /\ Wants(s)
                                /\ \/ ops[a].kind = "warmup"
                                   \/ connections[s] = NoConnection
                                   \/ connections[s].config # source[s]
        BY <1>4, <3>2, <3>3 DEF Wanted
      <3>7. s \in Outdated(ops[a]) <=> /\ connections[s] # NoConnection
                                       /\ \/ connections[s].config # source[s]
                                          \/ ~ Wants(s)
        BY <3>2, <3>3 DEF Outdated
      <3> QED
        BY <1>4, <3>2, <3>4, <3>5, <3>6, <3>7 DEF ConnectedAs
    <2>5. Listing(a)' /\ Serving(a)' /\ Alive(a)' /\ Committing(a)' /\ Captured(a)'
      BY <1>1, <1>4, <1>5, <2>1, PluginsUntouched
    <2> QED
      BY <2>2, <2>4, <2>5 DEF Settling
  <1>8. Numbers'
    BY <1>1, <1>5, <1>6, NumbersKept
  <1>9. Busy(a)'
    BY <1>4, <1>5 DEF Busy
  <1> QED
    BY <1>1, <1>5, <1>6, <1>7, <1>8, <1>9, StepSettles

LEMMA DisconnectSettles ==
    ASSUME SettlingInv, SurfaceInv', NEW a \in Callers, Disconnect(a) PROVE SettlingInv'
  <1>1. /\ ops[a].pc \in {"recheck", "connect"} /\ Busy(a)
        /\ UNCHANGED <<source, approved, outcome, surface, registry, runtime, dead, born>>
    BY DEF Disconnect, Continue, reloadVars, Busy
  <1>2. PICK s \in ops[a].disconnect :
           /\ connections' = [connections EXCEPT ![s] = NoConnection]
           /\ Continue(a, [ops[a] EXCEPT !.disconnect = @ \ {s}])
    BY DEF Disconnect
  <1> DEFINE o == [ops[a] EXCEPT !["disconnect"] = ops[a].disconnect \ {s}]
  <1>3. ops' = [ops EXCEPT ![a] = o]
    BY <1>2 DEF Continue
  <1>4. ops[a] = [f \in Fields |-> ops[a][f]]
    BY DEF SettlingInv, SurfaceInv, Shape
  <1>5. /\ o.disconnect = ops[a].disconnect \ {s} /\ o.pc = ops[a].pc
        /\ \A f \in Carried : o[f] = ops[a][f]
        /\ o.clean = ops[a].clean /\ o.configs = ops[a].configs /\ o.kept = ops[a].kept
        /\ o.opening = ops[a].opening /\ o.connect = ops[a].connect
    BY <1>4 DEF Fields, Carried
  <1> HIDE DEF o
  <1>6. ops'[a] = o /\ \A b \in Callers \ {a} : ops'[b] = ops[b]
    BY <1>3, GoesOn
  <1>7. /\ o.kind = ops[a].kind /\ o.restoring = ops[a].restoring /\ o.gen = ops[a].gen
        /\ o.retired = ops[a].retired /\ o.alone = ops[a].alone
    BY <1>5, CarriedFields
  <1>8. \A r \in Servers : connections'[r] = IF r = s THEN NoConnection ELSE connections[r]
    BY <1>2 DEF SettlingInv, SurfaceInv, Shape
  <1>9. ASSUME Alone(a) PROVE Settling(a)'
    <2>1. Settling(a)
      BY <1>9 DEF SettlingInv
    <2>2. Stages(a)'
      BY <1>5, <1>6, <1>7, <2>1 DEF Settling, Stages
    <2>3. Connecting(a)'
      <3>1. SUFFICES ASSUME ops[a].kind # "reconnect", ops[a].clean, ops[a].pc = "connect",
                            NEW r \in Servers
                     PROVE  /\ o.configs[r] = source[r]
                            /\ Wants(r) => \/ r \in o.connect \/ InOpening(a, r)
                                           \/ r \notin o.disconnect /\ ConnectedAs(r)'
                            /\ ~ Wants(r) => /\ r \notin o.connect /\ ~ InOpening(a, r)
                                             /\ r \in o.disconnect \/ connections'[r] = NoConnection
        BY <1>1, <1>5, <1>6, <1>7, WantsSame DEF Connecting, FromFiles, Late, InOpening
      <3>2. /\ ops[a].configs[r] = source[r]
            /\ Wants(r) => \/ r \in ops[a].connect \/ InOpening(a, r)
                           \/ r \notin ops[a].disconnect /\ ConnectedAs(r)
            /\ ~ Wants(r) => /\ r \notin ops[a].connect /\ ~ InOpening(a, r)
                             /\ r \in ops[a].disconnect \/ connections[r] = NoConnection
        BY <2>1, <3>1 DEF Settling, Connecting, FromFiles
      <3> QED
        BY <1>1, <1>2, <1>5, <1>8, <3>2 DEF ConnectedAs
    <2>4. Listing(a)' /\ Serving(a)' /\ Alive(a)' /\ Committing(a)' /\ Captured(a)'
      BY <1>1, <1>5, <1>6, <2>1, PluginsUntouched
    <2> QED
      BY <2>2, <2>3, <2>4 DEF Settling
  <1>10. Numbers'
    BY <1>1, <1>6, <1>7, NumbersKept
  <1>11. Busy(a)'
    BY <1>1, <1>5, <1>6 DEF Busy
  <1> QED
    BY <1>1, <1>6, <1>7, <1>9, <1>10, <1>11, StepSettles

LEMMA RecheckSettles ==
    ASSUME SettlingInv, SurfaceInv', NEW a \in Callers, Recheck(a) PROVE SettlingInv'
  <1>1. /\ ops[a].pc = "recheck" /\ Busy(a)
        /\ UNCHANGED <<source, outcome, surface, registry, runtime, dead, born>>
    BY DEF Recheck, Continue, reloadVars, Busy
  <1> DEFINE want == {s \in Servers : ShouldConnect(s, ops[a].configs[s])}
             o == [ops[a] EXCEPT !["pc"] = "connect", !["connect"] = want]
  <1>2. ops' = [ops EXCEPT ![a] = o]
    BY DEF Recheck, Continue
  <1>3. ops[a] = [f \in Fields |-> ops[a][f]]
    BY DEF SettlingInv, SurfaceInv, Shape
  <1> HIDE DEF want
  <1>4. o.pc = "connect" /\ o.kept = ops[a].kept /\ \A f \in Carried : o[f] = ops[a][f]
    BY <1>3 DEF Fields, Carried
  <1> HIDE DEF o
  <1>5. ops'[a] = o /\ \A b \in Callers \ {a} : ops'[b] = ops[b]
    BY <1>2, GoesOn
  <1>6. /\ o.kind = ops[a].kind /\ o.restoring = ops[a].restoring /\ o.gen = ops[a].gen
        /\ o.retired = ops[a].retired /\ o.alone = ops[a].alone
    BY <1>4, CarriedFields
  <1>7. ASSUME Alone(a) PROVE Settling(a)'
    <2>1. Settling(a)
      BY <1>7 DEF SettlingInv
    <2>2. ops[a].kind = "reconnect"
      BY <1>1, <2>1 DEF Settling, Stages
    <2>3. Stages(a)' /\ Connecting(a)'
      BY <1>1, <1>4, <1>5, <1>6, <2>1, <2>2 DEF Settling, Stages, Connecting, FromFiles
    <2>4. Listing(a)' /\ Serving(a)' /\ Alive(a)' /\ Committing(a)' /\ Captured(a)'
      BY <1>1, <1>4, <1>5, <2>1, PluginsUntouched
    <2> QED
      BY <2>3, <2>4 DEF Settling
  <1>8. Numbers'
    BY <1>1, <1>5, <1>6, NumbersKept
  <1>9. Busy(a)'
    BY <1>4, <1>5 DEF Busy
  <1> QED
    BY <1>1, <1>5, <1>6, <1>7, <1>8, <1>9, StepSettles

\* An end that returns an error and is not that of a reload needs no more.
LEMMA FailureIsGood ==
    ASSUME NEW a \in Callers, End(a, FALSE),
           ops[a].alone /\ ops[a].kind = "governance" => Kept(ops[a].before)
    PROVE  Good'
  <1>1. CASE ~ ops[a].alone
    <2>1. outcome' = NoOutcome
      BY <1>1 DEF End
    <2> QED
      BY <2>1, NoOutcomeIsGoodNext
  <1>2. CASE ops[a].alone
    <2>1. outcome' = [kind |-> ops[a].kind, ok |-> FALSE, clean |-> ops[a].clean,
                      kept |-> ops[a].kind = "governance" /\ Kept(ops[a].before)]
      BY <1>2 DEF End
    <2> QED
      BY <1>2, <2>1 DEF Good, SettledSurface, FailedReloadKeeps
  <1> QED
    BY <1>1, <1>2

\* The end of a request leaves no number behind.
LEMMA NumbersAtEnd ==
    ASSUME SettlingInv, NEW a \in Callers, NEW ok, End(a, ok),
           UNCHANGED <<surface, registry, runtime, dead, born>>
    PROVE  Numbers'
  <1>1. ops'[a] = Idle /\ \A b \in Callers \ {a} : ops'[b] = ops[b]
    BY DEF End, SettlingInv, SurfaceInv, Shape
  <1>2. ops'[a].gen = 0 /\ ops'[a].retired = 0
    BY <1>1 DEF Idle
  <1> QED
    BY <1>1, <1>2 DEF SettlingInv, Numbers

LEMMA UnreachableSettles ==
    ASSUME SettlingInv, SurfaceInv', NEW a \in Callers, NEW s, Unreachable(a, s),
           ops[a].pc = "connect",
           UNCHANGED <<source, approved, connections, surface, registry, runtime, dead, born>>
    PROVE  SettlingInv'
  <1>0. Busy(a)
    BY DEF Busy
  <1>1. CASE ops[a].kind = "reconnect"
    <2>1. End(a, FALSE)
      BY <1>1 DEF Unreachable
    <2>2. Good' /\ Numbers'
      BY <1>1, <2>1, FailureIsGood, NumbersAtEnd
    <2> QED
      BY <1>0, <2>1, <2>2, EndSettles
  <1>2. CASE ops[a].kind # "reconnect"
    <2> DEFINE open == {t \in ops[a].opening : t.server # s}
               o == [ops[a] EXCEPT !["clean"] = FALSE, !["connect"] = ops[a].connect \ {s},
                                   !["opening"] = open]
    <2>1. ops' = [ops EXCEPT ![a] = o] /\ UNCHANGED outcome
      BY <1>2 DEF Unreachable, Continue
    <2> HIDE DEF open
    <2>2. ops[a] = [f \in Fields |-> ops[a][f]]
      BY DEF SettlingInv, SurfaceInv, Shape
    <2>3. /\ o.pc = "connect" /\ o.clean = FALSE /\ o.kept = ops[a].kept
          /\ \A f \in Carried : o[f] = ops[a][f]
      BY <2>2 DEF Fields, Carried
    <2> HIDE DEF o
    <2>4. ops'[a] = o /\ \A b \in Callers \ {a} : ops'[b] = ops[b]
      BY <2>1, GoesOn
    <2>5. /\ o.kind = ops[a].kind /\ o.restoring = ops[a].restoring /\ o.gen = ops[a].gen
          /\ o.retired = ops[a].retired /\ o.alone = ops[a].alone
      BY <2>3, CarriedFields
    <2>6. ASSUME Alone(a) PROVE Settling(a)'
      <3>1. Settling(a)
        BY <2>6 DEF SettlingInv
      <3>2. Stages(a)' /\ Connecting(a)'
        BY <2>3, <2>4, <2>5, <3>1 DEF Settling, Stages, Connecting, FromFiles
      <3>3. Listing(a)' /\ Serving(a)' /\ Alive(a)' /\ Committing(a)' /\ Captured(a)'
        BY <2>3, <2>4, <3>1, PluginsUntouched
      <3> QED
        BY <3>2, <3>3 DEF Settling
    <2>7. Numbers'
      BY <2>4, <2>5, NumbersKept
    <2>8. Busy(a)'
      BY <2>3, <2>4 DEF Busy
    <2> QED
      BY <1>0, <2>1, <2>4, <2>5, <2>6, <2>7, <2>8, StepSettles
  <1> QED
    BY <1>1, <1>2

LEMMA ConnectSettles ==
    ASSUME SettlingInv, SurfaceInv', NEW a \in Callers, Connect(a) PROVE SettlingInv'
  <1>1. /\ ops[a].pc = "connect" /\ Busy(a)
        /\ UNCHANGED <<source, approved, connections, surface, registry, runtime, dead, born>>
    BY DEF Connect, reloadVars, Busy
  <1>2. PICK s \in ops[a].connect :
           \/ Continue(a, [ops[a] EXCEPT !.connect = @ \ {s},
                              !.opening = @ \cup {[server |-> s, id |-> made + 1]}])
           \/ Unreachable(a, s)
    BY Zenon DEF Connect
  <1>3. CASE Unreachable(a, s)
    BY <1>1, <1>3, UnreachableSettles
  <1>4. CASE ~ Unreachable(a, s)
    <2> DEFINE new == [server |-> s, id |-> made + 1]
               o == [ops[a] EXCEPT !["connect"] = ops[a].connect \ {s},
                                   !["opening"] = ops[a].opening \cup {new}]
    <2>1. ops' = [ops EXCEPT ![a] = o] /\ UNCHANGED outcome
      BY <1>2, <1>4 DEF Continue
    <2>2. new.server = s
      OBVIOUS
    <2> HIDE DEF new
    <2>3. ops[a] = [f \in Fields |-> ops[a][f]]
      BY DEF SettlingInv, SurfaceInv, Shape
    <2>4. /\ o.connect = ops[a].connect \ {s} /\ o.opening = ops[a].opening \cup {new}
          /\ o.pc = "connect" /\ \A f \in Carried : o[f] = ops[a][f]
          /\ o.clean = ops[a].clean /\ o.configs = ops[a].configs /\ o.kept = ops[a].kept
          /\ o.disconnect = ops[a].disconnect
      BY <1>1, <2>3 DEF Fields, Carried
    <2> HIDE DEF o
    <2>5. ops'[a] = o /\ \A b \in Callers \ {a} : ops'[b] = ops[b]
      BY <2>1, GoesOn
    <2>6. /\ o.kind = ops[a].kind /\ o.restoring = ops[a].restoring /\ o.gen = ops[a].gen
          /\ o.retired = ops[a].retired /\ o.alone = ops[a].alone
      BY <2>4, CarriedFields
    <2>7. ASSUME Alone(a) PROVE Settling(a)'
      <3>1. Settling(a) /\ InHand(a)
        BY <2>7 DEF SettlingInv, SurfaceInv, OpSound, Alone
      <3>2. Stages(a)'
        BY <1>1, <2>4, <2>5, <2>6, <3>1 DEF Settling, Stages
      <3>3. Connecting(a)'
        <4>1. SUFFICES ASSUME ops[a].kind # "reconnect", ops[a].clean, NEW r \in Servers
                       PROVE  /\ o.configs[r] = source[r]
                              /\ Wants(r) => \/ r \in o.connect \/ InOpening(a, r)'
                                             \/ r \notin o.disconnect /\ ConnectedAs(r)
                              /\ ~ Wants(r) => /\ r \notin o.connect /\ ~ InOpening(a, r)'
                                               /\ r \in o.disconnect \/ connections[r] = NoConnection
          BY <1>1, <2>4, <2>5, <2>6, WantsSame DEF Connecting, FromFiles, Late, ConnectedAs
        <4>2. /\ ops[a].configs[r] = source[r]
              /\ Wants(r) => \/ r \in ops[a].connect \/ InOpening(a, r)
                             \/ r \notin ops[a].disconnect /\ ConnectedAs(r)
              /\ ~ Wants(r) => /\ r \notin ops[a].connect /\ ~ InOpening(a, r)
                               /\ r \in ops[a].disconnect \/ connections[r] = NoConnection
          BY <1>1, <3>1, <4>1 DEF Settling, Connecting, FromFiles
        <4>3. InOpening(a, r)' <=> InOpening(a, r) \/ r = s
          BY <2>2, <2>4, <2>5 DEF InOpening
        <4> QED
          BY <1>2, <2>4, <4>2, <4>3
      <3>4. Listing(a)' /\ Serving(a)' /\ Alive(a)' /\ Committing(a)' /\ Captured(a)'
        BY <1>1, <2>4, <2>5, <3>1, PluginsUntouched
      <3> QED
        BY <3>2, <3>3, <3>4 DEF Settling
    <2>8. Numbers'
      BY <1>1, <2>5, <2>6, NumbersKept
    <2>9. Busy(a)'
      BY <2>4, <2>5 DEF Busy
    <2> QED
      BY <1>1, <2>1, <2>5, <2>6, <2>7, <2>8, <2>9, StepSettles
  <1> QED
    BY <1>3, <1>4

LEMMA EstablishSettles ==
    ASSUME SettlingInv, SurfaceInv', NEW a \in Callers, Establish(a) PROVE SettlingInv'
  <1>1. /\ ops[a].pc = "connect" /\ Busy(a)
        /\ UNCHANGED <<source, approved, surface, registry, runtime, dead, born>>
    BY DEF Establish, reloadVars, Busy
  <1>2. PICK t \in ops[a].opening :
           \/ /\ connections' = [connections EXCEPT ![t.server] =
                                    [config |-> ops[a].configs[t.server], id |-> t.id]]
              /\ Continue(a, [ops[a] EXCEPT !.opening = @ \ {t}])
           \/ Unreachable(a, t.server) /\ UNCHANGED connections
    BY Zenon DEF Establish
  <1>3. CASE Unreachable(a, t.server) /\ UNCHANGED connections
    BY <1>1, <1>3, UnreachableSettles
  <1>4. CASE ~ (Unreachable(a, t.server) /\ UNCHANGED connections)
    <2> DEFINE new == [config |-> ops[a].configs[t.server], id |-> t.id]
               o == [ops[a] EXCEPT !["opening"] = ops[a].opening \ {t}]
    <2>1. /\ ops' = [ops EXCEPT ![a] = o] /\ UNCHANGED outcome
          /\ connections' = [connections EXCEPT ![t.server] = new]
      BY <1>2, <1>4 DEF Continue
    <2>2. new.config = ops[a].configs[t.server]
      OBVIOUS
    <2> HIDE DEF new
    <2>3. ops[a] = [f \in Fields |-> ops[a][f]]
      BY DEF SettlingInv, SurfaceInv, Shape
    <2>4. /\ o.opening = ops[a].opening \ {t}
          /\ o.pc = "connect" /\ \A f \in Carried : o[f] = ops[a][f]
          /\ o.clean = ops[a].clean /\ o.configs = ops[a].configs /\ o.kept = ops[a].kept
          /\ o.disconnect = ops[a].disconnect /\ o.connect = ops[a].connect
      BY <1>1, <2>3 DEF Fields, Carried
    <2> HIDE DEF o
    <2>5. ops'[a] = o /\ \A b \in Callers \ {a} : ops'[b] = ops[b]
      BY <2>1, GoesOn
    <2>6. /\ o.kind = ops[a].kind /\ o.restoring = ops[a].restoring /\ o.gen = ops[a].gen
          /\ o.retired = ops[a].retired /\ o.alone = ops[a].alone
      BY <2>4, CarriedFields
    <2>7. \A r \in Servers : connections'[r] = IF r = t.server THEN new ELSE connections[r]
      BY <2>1 DEF SettlingInv, SurfaceInv, Shape
    <2>8. ASSUME Alone(a) PROVE Settling(a)'
      <3>1. Settling(a) /\ InHand(a) /\ Unconnected(a)
        BY <2>8 DEF SettlingInv, SurfaceInv, OpSound, Alone
      <3>2. Stages(a)'
        BY <1>1, <2>4, <2>5, <2>6, <3>1 DEF Settling, Stages
      <3>3. Connecting(a)'
        <4>1. SUFFICES ASSUME ops[a].kind # "reconnect", ops[a].clean, NEW r \in Servers
                       PROVE  /\ o.configs[r] = source[r]
                              /\ Wants(r) => \/ r \in o.connect \/ InOpening(a, r)'
                                             \/ r \notin o.disconnect /\ ConnectedAs(r)'
                              /\ ~ Wants(r) => /\ r \notin o.connect /\ ~ InOpening(a, r)'
                                               /\ r \in o.disconnect \/ connections'[r] = NoConnection
          BY <1>1, <2>4, <2>5, <2>6, WantsSame DEF Connecting, FromFiles, Late
        <4>2. /\ ops[a].configs[r] = source[r]
              /\ Wants(r) => \/ r \in ops[a].connect \/ InOpening(a, r)
                             \/ r \notin ops[a].disconnect /\ ConnectedAs(r)
              /\ ~ Wants(r) => /\ r \notin ops[a].connect /\ ~ InOpening(a, r)
                               /\ r \in ops[a].disconnect \/ connections[r] = NoConnection
          BY <1>1, <3>1, <4>1 DEF Settling, Connecting, FromFiles
        <4>3. CASE r # t.server
          <5>1. InOpening(a, r)' <=> InOpening(a, r)
            BY <2>4, <2>5, <4>3 DEF InOpening
          <5>2. ConnectedAs(r)' <=> ConnectedAs(r)
            BY <1>1, <2>7, <4>3 DEF ConnectedAs
          <5> QED
            BY <2>4, <2>7, <4>2, <4>3, <5>1, <5>2
        <4>4. CASE r = t.server
          <5>1. InOpening(a, r) /\ r \notin ops[a].disconnect
            BY <1>2, <3>1, <4>4 DEF InOpening, Unconnected
          <5>2. Wants(r)
            BY <4>2, <5>1
          <5>3. source[r] # NoConfig
            BY <5>2 DEF Wants, ShouldConnect
          <5>4. new.config = source[r] /\ new # NoConnection
            BY <2>2, <4>2, <4>4, <5>3 DEF NoConnection
          <5>5. ConnectedAs(r)'
            BY <1>1, <2>7, <4>4, <5>4 DEF ConnectedAs
          <5> QED
            BY <2>4, <4>2, <5>1, <5>2, <5>5
        <4> QED
          BY <4>3, <4>4
      <3>4. Listing(a)' /\ Serving(a)' /\ Alive(a)' /\ Committing(a)' /\ Captured(a)'
        BY <1>1, <2>4, <2>5, <3>1, PluginsUntouched
      <3> QED
        BY <3>2, <3>3, <3>4 DEF Settling
    <2>9. Numbers'
      BY <1>1, <2>5, <2>6, NumbersKept
    <2>10. Busy(a)'
      BY <2>4, <2>5 DEF Busy
    <2> QED
      BY <1>1, <2>1, <2>5, <2>6, <2>8, <2>9, <2>10, StepSettles
  <1> QED
    BY <1>3, <1>4

\* The list of a caller that runs alone are the declared servers, which nobody
\* changes before the connections are looked up.
LEMMA ListSettles ==
    ASSUME SettlingInv, SurfaceInv', NEW a \in Callers, List(a) PROVE SettlingInv'
  <1>1. UNCHANGED <<source, approved, mcpVars, outcome, surface, registry, runtime, dead, born>>
    BY DEF List, Continue, reloadVars
  <1>2. ops[a] = [f \in Fields |-> ops[a][f]]
    BY DEF SettlingInv, SurfaceInv, Shape
  <1>3. DeclaredServers' = DeclaredServers
    BY <1>1 DEF DeclaredServers, mcpVars
  <1>4. CASE ops[a].pc = "list"
    <2> DEFINE o == [ops[a] EXCEPT !["pc"] = "identify", !["listed"] = DeclaredServers]
    <2>1. ops' = [ops EXCEPT ![a] = o]
      BY <1>4 DEF List, Continue
    <2>2. /\ o.pc = "identify" /\ o.clean = ops[a].clean /\ o.configs = ops[a].configs
          /\ o.listed = DeclaredServers /\ \A f \in Carried : o[f] = ops[a][f]
      BY <1>2 DEF Fields, Carried
    <2> HIDE DEF o
    <2>3. Listing(a)'
      BY <1>3, <2>1, <2>2, GoesOn DEF Listing
    <2> QED
      BY <1>1, <1>4, <2>1, <2>2, <2>3, CapturingSettles DEF Capturing
  <1>5. CASE ops[a].pc # "list"
    <2>1. /\ ops[a].pc = "connect" /\ Busy(a)
          /\ ops[a].disconnect = {} /\ ops[a].connect = {} /\ ops[a].opening = {}
      BY <1>5 DEF List, Busy
    <2> DEFINE o == [ops[a] EXCEPT !["pc"] = "survey", !["listed"] = DeclaredServers,
                                   !["configs"] = Idle.configs]
    <2>2. ops' = [ops EXCEPT ![a] = o]
      BY <1>5 DEF List, Continue
    <2>3. /\ o.pc = "survey" /\ o.listed = DeclaredServers /\ o.clean = ops[a].clean
          /\ o.kept = ops[a].kept /\ \A f \in Carried : o[f] = ops[a][f]
      BY <1>2 DEF Fields, Carried
    <2> HIDE DEF o
    <2>4. ops'[a] = o /\ \A b \in Callers \ {a} : ops'[b] = ops[b]
      BY <2>2, GoesOn
    <2>5. /\ o.kind = ops[a].kind /\ o.restoring = ops[a].restoring /\ o.gen = ops[a].gen
          /\ o.retired = ops[a].retired /\ o.alone = ops[a].alone /\ o.before = ops[a].before
      BY <2>3, CarriedFields
    <2>6. ASSUME Alone(a) PROVE Settling(a)'
      <3>1. Settling(a)
        BY <2>6 DEF SettlingInv
      <3>2. Stages(a)'
        BY <2>1, <2>3, <2>4, <2>5, <3>1 DEF Settling, Stages
      <3>3. Connecting(a)'
        <4>1. SUFFICES ASSUME ops[a].kind # "reconnect", ops[a].clean, NEW s \in Servers
                       PROVE  IF Wants(s) THEN ConnectedAs(s) ELSE connections[s] = NoConnection
          BY <1>1, <2>3, <2>4, <2>5, WantsSame DEF Connecting, FromFiles, ConnectedAs, mcpVars
        <4>2. ~ InOpening(a, s)
          BY <2>1 DEF InOpening
        <4> QED
          BY <2>1, <3>1, <4>1, <4>2 DEF Settling, Connecting, FromFiles
      <3>4. Listing(a)' /\ Serving(a)'
        BY <1>3, <2>3, <2>4 DEF Listing, Serving, Done
      <3>5. Alive(a)' /\ Committing(a)'
        BY <1>1, <2>1, <2>3, <2>4, <2>5, <3>1 DEF Settling, Alive, Committing
      <3>6. PluginTools(ops[a].kept)' = PluginTools(ops[a].kept)
            /\ PluginTools(surface["router"])' = PluginTools(surface["router"])
        BY <1>1, <2>3, <2>4 DEF PluginTools
      <3>7. Captured(a)'
        BY <1>1, <2>1, <2>3, <2>4, <2>5, <3>1, <3>6 DEF Settling, Captured
      <3> QED
        BY <3>2, <3>3, <3>4, <3>5, <3>7 DEF Settling
    <2>7. Numbers'
      BY <1>1, <2>4, <2>5, NumbersKept
    <2>8. Busy(a)'
      BY <2>3, <2>4 DEF Busy
    <2> QED
      BY <1>1, <2>1, <2>4, <2>5, <2>6, <2>7, <2>8, StepSettles
  <1> QED
    BY <1>4, <1>5

LEMMA SurveySettles ==
    ASSUME SettlingInv, SurfaceInv', NEW a \in Callers, Survey(a) PROVE SettlingInv'
  <1>1. /\ ops[a].pc = "survey" /\ Busy(a)
        /\ UNCHANGED <<source, approved, mcpVars, outcome, surface, registry, runtime, dead, born>>
    BY DEF Survey, Continue, reloadVars, Busy
  <1> DEFINE to == IF ops[a].kind = "governance" /\ ~ ops[a].restoring THEN "stage" ELSE "apply"
             tools == McpToolsOf(ops[a].listed) \cup Added(ops[a])
             o == [ops[a] EXCEPT !["tools"] = tools, !["place"] = 1,
                                 !["listed"] = {}, !["pc"] = to]
  <1>2. ops' = [ops EXCEPT ![a] = o]
    BY DEF Survey, Continue
  <1>3. \/ to = "stage" /\ ops[a].kind = "governance" /\ ~ ops[a].restoring
        \/ to = "apply" /\ ~ (ops[a].kind = "governance" /\ ~ ops[a].restoring)
    OBVIOUS
  <1> HIDE DEF to, tools
  <1>4. ops[a] = [f \in Fields |-> ops[a][f]]
    BY DEF SettlingInv, SurfaceInv, Shape
  <1>5. /\ o.pc = to /\ o.place = 1 /\ o.tools = tools /\ o.clean = ops[a].clean
        /\ o.kept = ops[a].kept /\ \A f \in Carried : o[f] = ops[a][f]
    BY <1>4 DEF Fields, Carried
  <1> HIDE DEF o
  <1>6. ops'[a] = o /\ \A b \in Callers \ {a} : ops'[b] = ops[b]
    BY <1>2, GoesOn
  <1>7. /\ o.kind = ops[a].kind /\ o.restoring = ops[a].restoring /\ o.gen = ops[a].gen
        /\ o.retired = ops[a].retired /\ o.alone = ops[a].alone /\ o.before = ops[a].before
    BY <1>5, CarriedFields
  <1>8. ASSUME Alone(a) PROVE Settling(a)'
    <2>1. Settling(a)
      BY <1>8 DEF SettlingInv
    <2>2. Stages(a)'
      BY <1>1, <1>3, <1>5, <1>6, <1>7, <2>1 DEF Settling, Stages
    <2>3. Connecting(a)'
      BY <1>1, <1>3, <1>5, <1>6, <1>7, <2>1, WantsSame
         DEF Settling, Connecting, FromFiles, Late, ConnectedAs, mcpVars
    <2>4. Listing(a)' /\ Serving(a)'
      <3>1. McpTools' = McpTools
        BY <1>1, ToolsSame
      <3>2. Added(o) = Added(ops[a])
        BY <1>5, <1>7 DEF Added
      <3>3. tools = McpTools \cup Added(ops[a])
        BY <1>1, <2>1 DEF Settling, Listing, McpTools, tools
      <3> QED
        BY <1>3, <1>5, <1>6, <3>1, <3>2, <3>3 DEF Listing, Serving, Done
    <2>5. Alive(a)' /\ Committing(a)'
      BY <1>1, <1>3, <1>6, <1>5, <1>7, <2>1 DEF Settling, Alive, Committing
    <2>6. PluginTools(ops[a].kept)' = PluginTools(ops[a].kept)
          /\ PluginTools(surface["router"])' = PluginTools(surface["router"])
      BY <1>1, <1>5, <1>6 DEF PluginTools
    <2>7. Captured(a)'
      BY <1>1, <1>3, <1>5, <1>6, <1>7, <2>1, <2>6 DEF Settling, Captured
    <2> QED
      BY <2>2, <2>3, <2>4, <2>5, <2>7 DEF Settling
  <1>9. Numbers'
    BY <1>1, <1>6, <1>7, NumbersKept
  <1>10. Busy(a)'
    BY <1>3, <1>5, <1>6 DEF Busy
  <1> QED
    BY <1>1, <1>6, <1>7, <1>8, <1>9, <1>10, StepSettles

LEMMA PrepareSettles ==
    ASSUME SettlingInv, SurfaceInv', NEW a \in Callers, Prepare(a) PROVE SettlingInv'
  <1>1. /\ ops[a].pc = "load" /\ ops[a].kind = "governance" /\ Busy(a) /\ born' = born + 1
        /\ UNCHANGED <<source, surface, registry, runtime, dead>>
    BY DEF Prepare, Busy
  <1>2. CASE End(a, FALSE)
    <2>1. ops'[a] = Idle /\ \A b \in Callers \ {a} : ops'[b] = ops[b]
      BY <1>2 DEF End, SettlingInv, SurfaceInv, Shape
    <2>2. ops'[a].gen = 0 /\ ops'[a].retired = 0
      BY <2>1 DEF Idle
    <2>3. Numbers'
      BY <1>1, <2>1, <2>2 DEF SettlingInv, Numbers
    <2>4. ASSUME ops[a].alone PROVE Kept(ops[a].before)
      BY <1>1, <2>4 DEF SettlingInv, Alone, Settling, Captured, Kept
    <2>5. Good'
      BY <1>2, <2>4, FailureIsGood
    <2> QED
      BY <1>1, <1>2, <2>3, <2>5, EndSettles
  <1>3. CASE ~ End(a, FALSE)
    <2>0. PICK missing \in SUBSET Servers, clash \in BOOLEAN :
             Continue(a, [ops[a] EXCEPT !.pc = "capture", !.configs = Loaded(missing),
                             !.gen = born', !.clash = clash,
                             !.clean = @ /\ missing = {} /\ ~ clash])
      BY <1>3, Zenon DEF Prepare
    <2>1. PICK clean : clean = (ops[a].clean /\ missing = {} /\ ~ clash)
      OBVIOUS
    <2> DEFINE o == [ops[a] EXCEPT !["pc"] = "capture", !["configs"] = Loaded(missing),
                        !["gen"] = born + 1, !["clash"] = clash, !["clean"] = clean]
    <2>2. ops' = [ops EXCEPT ![a] = o] /\ UNCHANGED outcome
      BY <1>1, <2>0, <2>1 DEF Continue
    <2>3. ops[a] = [f \in Fields |-> ops[a][f]]
      BY DEF SettlingInv, SurfaceInv, Shape
    <2>4. /\ o.pc = "capture" /\ o.configs = Loaded(missing) /\ o.gen = born + 1 /\ o.clean = clean
          /\ o.kind = ops[a].kind /\ o.restoring = ops[a].restoring
          /\ o.retired = ops[a].retired /\ o.alone = ops[a].alone /\ o.before = ops[a].before
      BY <2>3 DEF Fields
    <2> HIDE DEF o
    <2>5. ops'[a] = o /\ \A b \in Callers \ {a} : ops'[b] = ops[b]
      BY <2>2, GoesOn
    <2>6. born \in Nat /\ dead \subseteq 0..born /\ runtime.components \in 0..born
      BY DEF SettlingInv, Numbers
    <2>7. ASSUME Alone(a) PROVE Settling(a)'
      <3>1. Settling(a)
        BY <2>7 DEF SettlingInv
      <3>2. Stages(a)'
        BY <1>1, <2>4, <2>5, <3>1 DEF Settling, Stages
      <3>3. Connecting(a)'
        <4>1. SUFFICES ASSUME clean, NEW s \in Servers PROVE o.configs[s] = source[s]
          BY <1>1, <2>4, <2>5 DEF Connecting, FromFiles, Late
        <4> QED
          BY <2>1, <2>4, <4>1 DEF Loaded
      <3>4. Listing(a)' /\ Serving(a)'
        BY <2>4, <2>5 DEF Listing, Serving, Done
      <3>5. Alive(a)' /\ Committing(a)'
        BY <1>1, <2>4, <2>5, <2>6, <3>1 DEF Settling, Alive, Committing
      <3>6. PluginTools(surface["record"])' = PluginTools(surface["record"])
            /\ PluginTools(surface["router"])' = PluginTools(surface["router"])
        BY <1>1 DEF PluginTools
      <3>7. Captured(a)'
        BY <1>1, <2>4, <2>5, <3>1, <3>6 DEF Settling, Captured
      <3> QED
        BY <3>2, <3>3, <3>4, <3>5, <3>7 DEF Settling
    <2>8. Numbers'
      BY <1>1, <2>4, <2>5, <2>6 DEF SettlingInv, Numbers
    <2>9. Busy(a)'
      BY <2>4, <2>5 DEF Busy
    <2> QED
      BY <1>1, <2>2, <2>4, <2>5, <2>7, <2>8, <2>9, StepSettles
  <1> QED
    BY <1>2, <1>3

\* The way back begins while nothing of the plugins but the router's tools can
\* have been replaced.
LEMMA RestoreSettles ==
    ASSUME SettlingInv, SurfaceInv', NEW a \in Callers, Restore(a), Busy(a),
           UNCHANGED <<source, approved, mcpVars, surface, runtime, dead, born>>,
           Numbers',
           ops[a].restoring /\ Alone(a) => Kept(ops[a].before),
           Alone(a) => /\ ops[a].kind = "governance" /\ registry'.active = registry.active
                       /\ \/ ops[a].pc = "stage"
                          \/ ops[a].pc = "apply" /\ ops[a].place = 1
    PROVE  SettlingInv'
  <1>1. CASE ops[a].restoring
    <2>1. End(a, FALSE)
      BY <1>1 DEF Restore
    <2>2. Good'
      BY <1>1, <2>1, FailureIsGood DEF Alone
    <2> QED
      BY <2>1, <2>2, EndSettles
  <1>2. CASE ~ ops[a].restoring
    <2> DEFINE o == [ops[a] EXCEPT !["pc"] = "declare", !["restoring"] = TRUE,
                                   !["configs"] = ops[a].saved, !["clean"] = FALSE]
    <2>1. ops' = [ops EXCEPT ![a] = o] /\ UNCHANGED outcome
      BY <1>2 DEF Restore, Continue
    <2>2. ops[a] = [f \in Fields |-> ops[a][f]]
      BY DEF SettlingInv, SurfaceInv, Shape
    <2>3. /\ o.pc = "declare" /\ o.restoring = TRUE /\ o.clean = FALSE
          /\ o.kind = ops[a].kind /\ o.gen = ops[a].gen /\ o.kept = ops[a].kept
          /\ o.alone = ops[a].alone /\ o.before = ops[a].before
      BY <2>2 DEF Fields
    <2> HIDE DEF o
    <2>4. ops'[a] = o
      BY <2>1, GoesOn
    <2>5. ASSUME Alone(a) PROVE Settling(a)'
      <3>1. Settling(a)
        BY <2>5 DEF SettlingInv
      <3>2. Stages(a)' /\ Connecting(a)'
        BY <2>3, <2>4, <2>5, <3>1 DEF Settling, Stages, Connecting, FromFiles
      <3>3. Listing(a)' /\ Serving(a)'
        BY <2>3, <2>4 DEF Listing, Serving, Done
      <3>4. Alive(a)' /\ Committing(a)'
        BY <2>3, <2>4, <2>5, <3>1 DEF Settling, Alive, Committing
      <3>5. PluginTools(ops[a].kept)' = PluginTools(ops[a].kept)
            /\ PluginTools(surface["router"])' = PluginTools(surface["router"])
        BY <2>3, <2>4 DEF PluginTools
      <3>6. Captured(a)'
        BY <2>3, <2>4, <2>5, <3>1, <3>5 DEF Settling, Captured
      <3> QED
        BY <3>2, <3>3, <3>4, <3>6 DEF Settling
    <2>6. Busy(a)'
      BY <2>3, <2>4 DEF Busy
    <2> QED
      BY <2>1, <2>3, <2>4, <2>5, <2>6, StepSettles
  <1> QED
    BY <1>1, <1>2

\* The numbers after a step back.
LEMMA NumbersAtRestore ==
    ASSUME SettlingInv, NEW a \in Callers, Restore(a), UNCHANGED <<surface, runtime, dead, born>>,
           registry' = [f \in RegistryFields |-> registry'[f]], registry'.revision \in Nat
    PROVE  Numbers'
  <1>1. CASE ops[a].restoring
    <2>1. ops'[a] = Idle /\ \A b \in Callers \ {a} : ops'[b] = ops[b]
      BY <1>1 DEF Restore, End, SettlingInv, SurfaceInv, Shape
    <2>2. ops'[a].gen = 0 /\ ops'[a].retired = 0
      BY <2>1 DEF Idle
    <2> QED
      BY <2>1, <2>2 DEF SettlingInv, Numbers
  <1>2. CASE ~ ops[a].restoring
    <2> DEFINE o == [ops[a] EXCEPT !["pc"] = "declare", !["restoring"] = TRUE,
                                   !["configs"] = ops[a].saved, !["clean"] = FALSE]
    <2>1. ops' = [ops EXCEPT ![a] = o]
      BY <1>2 DEF Restore, Continue
    <2>2. ops[a] = [f \in Fields |-> ops[a][f]]
      BY DEF SettlingInv, SurfaceInv, Shape
    <2>3. o.gen = ops[a].gen /\ o.retired = ops[a].retired
      BY <2>2 DEF Fields
    <2> HIDE DEF o
    <2>4. ops'[a] = o /\ \A b \in Callers \ {a} : ops'[b] = ops[b]
      BY <2>1, GoesOn
    <2> QED
      BY <2>3, <2>4 DEF SettlingInv, Numbers
  <1> QED
    BY <1>1, <1>2

LEMMA StageSettles ==
    ASSUME SettlingInv, SurfaceInv', NEW a \in Callers, Stage(a) PROVE SettlingInv'
  <1>1. /\ ops[a].pc = "stage" /\ Busy(a)
        /\ UNCHANGED <<source, approved, mcpVars, surface, runtime, dead, born>>
    BY DEF Stage, Busy
  <1>2. registry = [f \in RegistryFields |-> registry[f]] /\ registry.revision \in Nat
    BY DEF SettlingInv, Numbers
  <1>3. CASE Restore(a) /\ UNCHANGED registry
    <2>1. Numbers'
      BY <1>1, <1>2, <1>3, NumbersAtRestore
    <2>2. ASSUME Alone(a) PROVE ~ ops[a].restoring /\ ops[a].kind = "governance"
      BY <1>1, <2>2 DEF SettlingInv, Settling, Stages, SurfaceInv, OpSound, InHand, Alone, OfReload
    <2> QED
      BY <1>1, <1>3, <2>1, <2>2, RestoreSettles
  <1>4. CASE ~ (Restore(a) /\ UNCHANGED registry)
    <2>0. PICK next \in Nat : next = registry.revision + 1
      BY <1>2
    <2> DEFINE o == [ops[a] EXCEPT !["pc"] = "apply", !["staged"] = next]
    <2>1. /\ ops' = [ops EXCEPT ![a] = o] /\ UNCHANGED outcome
          /\ registry' = [registry EXCEPT !["revision"] = next, !["candidate"] = next]
      BY <1>4, <2>0 DEF Stage, Continue
    <2>2. /\ registry' = [f \in RegistryFields |-> registry'[f]] /\ registry'.revision \in Nat
          /\ registry'.active = registry.active /\ registry'.candidate = next
      BY <1>2, <2>1 DEF RegistryFields
    <2>3. ops[a] = [f \in Fields |-> ops[a][f]]
      BY DEF SettlingInv, SurfaceInv, Shape
    <2>4. /\ o.pc = "apply" /\ o.staged = next /\ o.tools = ops[a].tools
          /\ o.place = ops[a].place /\ o.clean = ops[a].clean
          /\ o.kept = ops[a].kept /\ \A f \in Carried : o[f] = ops[a][f]
      BY <2>3 DEF Fields, Carried
    <2> HIDE DEF o
    <2>5. ops'[a] = o /\ \A b \in Callers \ {a} : ops'[b] = ops[b]
      BY <2>1, GoesOn
    <2>6. /\ o.kind = ops[a].kind /\ o.restoring = ops[a].restoring /\ o.gen = ops[a].gen
          /\ o.retired = ops[a].retired /\ o.alone = ops[a].alone /\ o.before = ops[a].before
      BY <2>4, CarriedFields
    <2>7. ASSUME Alone(a) PROVE Settling(a)'
      <3>1. Settling(a) /\ InHand(a)
        BY <2>7 DEF SettlingInv, SurfaceInv, OpSound, Alone
      <3>2. ops[a].kind = "governance"
        BY <1>1, <3>1 DEF InHand, OfReload
      <3>3. Stages(a)'
        BY <1>1, <2>4, <2>5, <2>6, <3>1 DEF Settling, Stages
      <3>4. Connecting(a)'
        BY <1>1, <2>4, <2>5, <2>6, <3>1, WantsSame
           DEF Settling, Connecting, FromFiles, Late, ConnectedAs, mcpVars
      <3>5. Listing(a)' /\ Serving(a)'
        <4>1. McpTools' = McpTools
          BY <1>1, ToolsSame
        <4>2. Added(o) = Added(ops[a])
          BY <2>4, <2>6 DEF Added
        <4> QED
          BY <1>1, <2>4, <2>5, <3>1, <4>1, <4>2 DEF Settling, Listing, Serving, Done
      <3>6. Alive(a)'
        BY <1>1, <2>4, <2>5, <2>6, <3>1 DEF Settling, Alive
      <3>7. Committing(a)'
        BY <1>2, <2>0, <2>2, <2>4, <2>5 DEF Committing
      <3>8. PluginTools(ops[a].kept)' = PluginTools(ops[a].kept)
            /\ PluginTools(surface["router"])' = PluginTools(surface["router"])
        BY <1>1, <2>4, <2>5 DEF PluginTools
      <3>9. Captured(a)'
        BY <1>1, <2>2, <2>4, <2>5, <2>6, <3>1, <3>8 DEF Settling, Captured
      <3> QED
        BY <3>3, <3>4, <3>5, <3>6, <3>7, <3>9 DEF Settling
    <2>8. Numbers'
      BY <1>1, <2>2, <2>5, <2>6 DEF SettlingInv, Numbers
    <2>9. Busy(a)'
      BY <2>4, <2>5 DEF Busy
    <2> QED
      BY <1>1, <2>1, <2>5, <2>6, <2>7, <2>8, <2>9, StepSettles
  <1> QED
    BY <1>3, <1>4

LEMMA PluginsOfUnion == \A A, B : PluginTools(A \cup B) = PluginTools(A) \cup PluginTools(B)
  BY DEF PluginTools

LEMMA McpAreNoPlugins == PluginTools(McpTools) = {}
  BY DEF PluginTools, McpTools, McpToolsOf

LEMMA OnePlugin == \A gen : PluginTools({PluginTool(gen)}) = {PluginTool(gen)}
  BY DEF PluginTools, PluginTool

\* The last place is written and the request is at its end.
LEMMA ApplyEndsGood ==
    ASSUME SettlingInv, NEW a \in Callers, Alone(a), Apply(a), ops[a].place = 3,
           ~ (ops[a].kind = "governance" /\ ~ ops[a].restoring), End(a, ~ ops[a].restoring)
    PROVE  Good'
  <1>1. /\ ops[a].pc = "apply" /\ surface' = [surface EXCEPT !["record"] = ops[a].tools]
        /\ UNCHANGED <<source, approved, mcpVars, registry, runtime, dead>>
    BY DEF Apply, InOrder, reloadVars
  <1>2. Settling(a)
    BY DEF SettlingInv
  <1>3. /\ surface["router"] = ops[a].tools /\ surface["index"] = ops[a].tools
        /\ ops[a].tools = McpTools \cup Added(ops[a])
    BY <1>1, <1>2 DEF Settling, Listing, Serving
  <1>4. surface = [p \in Places |-> surface[p]]
    BY DEF SettlingInv, Numbers
  <1>5. \A p \in Places : surface'[p] = ops[a].tools
    BY <1>1, <1>3, <1>4 DEF Places
  <1>6. outcome' = [kind |-> ops[a].kind, ok |-> ~ ops[a].restoring, clean |-> ops[a].clean,
                    kept |-> ops[a].kind = "governance" /\ Kept(ops[a].before)]
    BY DEF End, Alone
  <1>7. PluginTools(ops[a].tools) = PluginTools(Added(ops[a]))
    <2>1. PluginTools(ops[a].tools) = PluginTools(McpTools) \cup PluginTools(Added(ops[a]))
      BY <1>3, PluginsOfUnion, Zenon
    <2> QED
      BY <2>1, McpAreNoPlugins
  <1>8. CASE ops[a].restoring
    <2>1. ops[a].kind = "governance"
      BY <1>2, <1>8 DEF Settling, Stages
    <2>2. Added(ops[a]) = ops[a].kept
      BY <1>8 DEF Added
    <2>3. Kept(ops[a].before)
      BY <1>1, <1>2, <1>3, <1>7, <2>1, <2>2 DEF Settling, Captured, Kept
    <2>4. End(a, FALSE)
      BY <1>8
    <2> QED
      BY <2>3, <2>4, FailureIsGood
  <1>9. CASE ~ ops[a].restoring
    <2>1. ops[a].kind \in {"warmup", "change", "reconnect"}
      BY <1>2, <1>9 DEF Settling, Stages
    <2>2. McpTools' = McpTools
      BY <1>1, ToolsSame
    <2>3. PluginTools(Added(ops[a])) = Added(ops[a])
      <3>1. CASE ops[a].kind = "warmup"
        BY <1>9, <3>1, OnePlugin DEF Added
      <3>2. CASE ops[a].kind # "warmup"
        BY <1>9, <2>1, <3>2 DEF Added, PluginTools
      <3> QED
        BY <3>1, <3>2
    <2>4. \A t \in Added(ops[a]) : t.id \notin dead
      BY <1>2, <1>9, <2>1 DEF Added, Settling, Alive, PluginTool
    <2>5. \A p \in Places : PluginTools(surface[p])' = Added(ops[a])
      BY <1>5, <1>7, <2>3 DEF PluginTools
    <2>6. ops[a].clean /\ ops[a].kind # "reconnect" =>
              \A s \in Servers : IF ShouldConnect(s, source[s])'
                                 THEN connections'[s] # NoConnection /\ connections'[s].config = source'[s]
                                 ELSE connections'[s] = NoConnection
      BY <1>1, <1>2, WantsSame DEF Settling, Connecting, FromFiles, Late, Wants, ConnectedAs, mcpVars
    <2>7. "router" \in Places
      BY DEF Places
    <2> HIDE DEF Wants
    <2>8. SettledSurface'
      <3>1. SUFFICES ASSUME ops[a].clean PROVE SettledSurface'
        BY <1>6 DEF SettledSurface
      <3>2. outcome'.kind # "governance" /\ outcome'.kind = ops[a].kind
        BY <1>6, <2>1
      <3>3. \A p \in Places : surface'[p] = McpTools' \cup PluginTools(surface[p])'
        BY <1>3, <1>5, <2>2, <2>5
      <3>4. \A p \in Places : surface'[p] = surface'["router"]
        BY <1>5, <2>7
      <3>5. \A t \in PluginTools(surface["router"])' : t.id \notin dead'
        BY <1>1, <2>4, <2>5, <2>7
      <3> QED
        BY <2>6, <3>1, <3>2, <3>3, <3>4, <3>5 DEF SettledSurface
    <2>9. FailedReloadKeeps'
      BY <1>6, <1>9 DEF FailedReloadKeeps
    <2> QED
      BY <2>8, <2>9 DEF Good
  <1> QED
    BY <1>8, <1>9

LEMMA ApplySettles ==
    ASSUME SettlingInv, SurfaceInv', NEW a \in Callers, Apply(a) PROVE SettlingInv'
  <1>1. /\ ops[a].pc = "apply" /\ Busy(a)
        /\ surface' = [surface EXCEPT ![InOrder[ops[a].place]] = ops[a].tools]
        /\ UNCHANGED <<source, approved, mcpVars, registry, runtime, dead, born>>
    BY DEF Apply, reloadVars, Busy
  <1>2. surface = [p \in Places |-> surface[p]] /\ surface' = [p \in Places |-> surface'[p]]
    BY <1>1 DEF SettlingInv, Numbers
  <1>3. ops[a] = [f \in Fields |-> ops[a][f]]
    BY DEF SettlingInv, SurfaceInv, Shape
  <1>4. ASSUME \A b \in Callers \ {a} : ops'[b] = ops[b],
               ops'[a].gen \in {0, ops[a].gen}, ops'[a].retired \in {0, ops[a].retired}
        PROVE  Numbers'
    BY <1>1, <1>2, <1>4 DEF SettlingInv, Numbers
  <1>5. CASE ops[a].place < 3
    <2> DEFINE o == [ops[a] EXCEPT !["place"] = ops[a].place + 1]
    <2>1. ops' = [ops EXCEPT ![a] = o] /\ UNCHANGED outcome
      BY <1>5 DEF Apply, Continue
    <2>2. /\ o.pc = "apply" /\ o.place = ops[a].place + 1 /\ o.tools = ops[a].tools
          /\ o.staged = ops[a].staged /\ o.clean = ops[a].clean
          /\ o.kept = ops[a].kept /\ \A f \in Carried : o[f] = ops[a][f]
      BY <1>1, <1>3 DEF Fields, Carried
    <2> HIDE DEF o
    <2>3. ops'[a] = o /\ \A b \in Callers \ {a} : ops'[b] = ops[b]
      BY <2>1, GoesOn
    <2>4. /\ o.kind = ops[a].kind /\ o.restoring = ops[a].restoring /\ o.gen = ops[a].gen
          /\ o.retired = ops[a].retired /\ o.alone = ops[a].alone /\ o.before = ops[a].before
      BY <2>2, CarriedFields
    <2>5. ASSUME Alone(a) PROVE Settling(a)'
      <3>1. Settling(a)
        BY <2>5 DEF SettlingInv
      <3>2. ops[a].place \in {1, 2}
        BY <1>1, <1>5, <3>1 DEF Settling, Listing, Serving
      <3>3. Stages(a)'
        BY <1>1, <2>2, <2>3, <2>4, <3>1 DEF Settling, Stages
      <3>4. Connecting(a)'
        BY <1>1, <2>2, <2>3, <2>4, <3>1, WantsSame
           DEF Settling, Connecting, FromFiles, Late, ConnectedAs, mcpVars
      <3>5. Listing(a)' /\ Serving(a)'
        <4>1. McpTools' = McpTools
          BY <1>1, ToolsSame
        <4>2. Added(o) = Added(ops[a])
          BY <2>2, <2>4 DEF Added
        <4>3. /\ o.place = 2 => surface'["router"] = o.tools
              /\ o.place = 3 => surface'["router"] = o.tools /\ surface'["index"] = o.tools
          BY <1>1, <1>2, <2>2, <3>1, <3>2 DEF Settling, Listing, Serving, Places, InOrder
        <4> QED
          BY <1>1, <2>2, <2>3, <3>1, <3>2, <4>1, <4>2, <4>3 DEF Settling, Listing, Serving, Done
      <3>6. Alive(a)' /\ Committing(a)'
        BY <1>1, <2>2, <2>3, <2>4, <3>1 DEF Settling, Alive, Committing
      <3>7. PluginTools(ops[a].kept)' = PluginTools(ops[a].kept)
        BY <2>2, <2>3 DEF PluginTools
      <3>8. Captured(a)'
        BY <1>1, <2>2, <2>3, <2>4, <3>1, <3>2, <3>7 DEF Settling, Captured
      <3> QED
        BY <3>3, <3>4, <3>5, <3>6, <3>8 DEF Settling
    <2>6. Numbers'
      BY <1>4, <2>3, <2>4
    <2>7. Busy(a)'
      BY <2>2, <2>3 DEF Busy
    <2> QED
      BY <1>1, <2>1, <2>3, <2>4, <2>5, <2>6, <2>7, StepSettles
  <1>6. CASE ~ (ops[a].place < 3) /\ ops[a].kind = "governance" /\ ~ ops[a].restoring
    <2> DEFINE o == [ops[a] EXCEPT !["pc"] = "commit"]
    <2>1. ops' = [ops EXCEPT ![a] = o] /\ UNCHANGED outcome
      BY <1>6 DEF Apply, Continue
    <2>2. /\ o.pc = "commit" /\ o.staged = ops[a].staged /\ o.clean = ops[a].clean
          /\ o.kept = ops[a].kept /\ \A f \in Carried : o[f] = ops[a][f]
      BY <1>3 DEF Fields, Carried
    <2> HIDE DEF o
    <2>3. ops'[a] = o /\ \A b \in Callers \ {a} : ops'[b] = ops[b]
      BY <2>1, GoesOn
    <2>4. /\ o.kind = ops[a].kind /\ o.restoring = ops[a].restoring /\ o.gen = ops[a].gen
          /\ o.retired = ops[a].retired /\ o.alone = ops[a].alone /\ o.before = ops[a].before
      BY <2>2, CarriedFields
    <2>5. ASSUME Alone(a) PROVE Settling(a)'
      <3>1. Settling(a)
        BY <2>5 DEF SettlingInv
      <3>2. ops[a].place = 3
        BY <1>1, <1>6, <3>1 DEF Settling, Listing, Serving
      <3>3. Stages(a)'
        BY <1>6, <2>2, <2>3, <2>4 DEF Stages
      <3>4. Connecting(a)'
        BY <1>1, <2>2, <2>3, <2>4, <3>1, WantsSame
           DEF Settling, Connecting, FromFiles, Late, ConnectedAs, mcpVars
      <3>5. Listing(a)' /\ Serving(a)'
        <4>1. McpTools' = McpTools
          BY <1>1, ToolsSame
        <4>2. ops[a].tools = McpTools \cup {PluginTool(ops[a].gen)}
          BY <1>1, <1>6, <3>1 DEF Settling, Listing, Serving, Added
        <4>3. \A p \in Places : surface'[p] = ops[a].tools
          BY <1>1, <1>2, <3>1, <3>2 DEF Settling, Listing, Serving, Places, InOrder
        <4> QED
          BY <2>2, <2>3, <2>4, <4>1, <4>2, <4>3 DEF Listing, Serving, Done, PluginTool
      <3>6. Alive(a)' /\ Committing(a)'
        BY <1>1, <2>2, <2>3, <2>4, <3>1 DEF Settling, Alive, Committing
      <3>7. PluginTools(ops[a].kept)' = PluginTools(ops[a].kept)
        BY <2>2, <2>3 DEF PluginTools
      <3>8. Captured(a)'
        BY <1>1, <2>2, <2>3, <2>4, <3>1, <3>7 DEF Settling, Captured
      <3> QED
        BY <3>3, <3>4, <3>5, <3>6, <3>8 DEF Settling
    <2>6. Numbers'
      BY <1>4, <2>3, <2>4
    <2>7. Busy(a)'
      BY <2>2, <2>3 DEF Busy
    <2> QED
      BY <1>1, <2>1, <2>3, <2>4, <2>5, <2>6, <2>7, StepSettles
  <1>7. CASE ~ (ops[a].place < 3) /\ ~ (ops[a].kind = "governance" /\ ~ ops[a].restoring)
    <2>1. End(a, ~ ops[a].restoring)
      BY <1>7 DEF Apply
    <2>2. ops'[a] = Idle /\ \A b \in Callers \ {a} : ops'[b] = ops[b]
      BY <2>1 DEF End, SettlingInv, SurfaceInv, Shape
    <2>3. Numbers'
      BY <1>4, <2>2 DEF Idle
    <2>4. ASSUME Alone(a) PROVE Good'
      <3>1. ops[a].place = 3
        BY <1>1, <1>7, <2>4 DEF SettlingInv, Settling, Listing, Serving
      <3> QED
        BY <1>7, <2>1, <2>4, <3>1, ApplyEndsGood
    <2> QED
      BY <1>1, <2>1, <2>3, <2>4, EndSettles
  <1> QED
    BY <1>5, <1>6, <1>7

LEMMA RefuseSettles ==
    ASSUME SettlingInv, SurfaceInv', NEW a \in Callers, Refuse(a) PROVE SettlingInv'
  <1>1. /\ ops[a].pc = "apply" /\ ops[a].place = 1 /\ Busy(a)
        /\ UNCHANGED <<source, approved, mcpVars, surface, runtime, dead, born>>
    BY DEF Refuse, Busy
  <1>2. registry = [f \in RegistryFields |-> registry[f]] /\ registry.revision \in Nat
    BY DEF SettlingInv, Numbers
  <1>3. CASE ops[a].kind = "governance" /\ ~ ops[a].restoring
    <2>1. Restore(a) /\ registry' = [registry EXCEPT !["candidate"] = 0]
      BY <1>3 DEF Refuse
    <2>2. /\ registry' = [f \in RegistryFields |-> registry'[f]] /\ registry'.revision \in Nat
          /\ registry'.active = registry.active
      BY <1>2, <2>1 DEF RegistryFields
    <2>3. Numbers'
      BY <1>1, <2>1, <2>2, NumbersAtRestore
    <2> QED
      BY <1>1, <1>3, <2>1, <2>2, <2>3, RestoreSettles
  <1>4. CASE ~ (ops[a].kind = "governance" /\ ~ ops[a].restoring)
    <2>1. End(a, FALSE) /\ UNCHANGED registry
      BY <1>4 DEF Refuse
    <2>2. Numbers'
      BY <1>1, <2>1, NumbersAtEnd
    <2>3. ASSUME ops[a].alone, ops[a].kind = "governance" PROVE Kept(ops[a].before)
      BY <1>1, <2>3 DEF SettlingInv, Alone, Settling, Captured, Kept
    <2>4. Good'
      BY <2>1, <2>3, FailureIsGood
    <2> QED
      BY <1>1, <2>1, <2>2, <2>4, EndSettles
  <1> QED
    BY <1>3, <1>4

\* Past the surface nothing of the connections and the surface changes.
LEMMA DoneStays ==
    ASSUME NEW a \in Callers, NEW o, ops'[a] = o, Settling(a),
           UNCHANGED <<source, approved, mcpVars, surface, dead>>,
           \A f \in Carried \ {"retired"} : o[f] = ops[a][f], o.clean = ops[a].clean,
           ops[a].pc \in Done, o.pc \in Done,
           ops[a].kind = "governance", ~ ops[a].restoring
    PROVE  Stages(a)' /\ Connecting(a)' /\ Listing(a)' /\ Serving(a)'
  <1>1. o.kind = ops[a].kind /\ o.restoring = ops[a].restoring /\ o.gen = ops[a].gen
    BY DEF Carried
  <1>2. Stages(a)'
    BY <1>1 DEF Stages, Done
  <1>3. Connecting(a)'
    BY <1>1, WantsSame DEF Settling, Connecting, FromFiles, Late, Done, ConnectedAs, mcpVars
  <1>4. McpTools' = McpTools
    BY ToolsSame
  <1>5. Listing(a)' /\ Serving(a)'
    BY <1>1, <1>4 DEF Settling, Listing, Serving, Done, PluginTool
  <1> QED
    BY <1>2, <1>3, <1>5

\* A caller that runs alone and is past the surface is a reload on its way on.
LEMMA DoneIsReload ==
    ASSUME SettlingInv, NEW a \in Callers, Alone(a), ops[a].pc \in Done
    PROVE  Settling(a) /\ ops[a].kind = "governance" /\ ~ ops[a].restoring
  <1>1. Settling(a) /\ InHand(a)
    BY DEF SettlingInv, SurfaceInv, OpSound, Alone
  <1> QED
    BY <1>1 DEF InHand, OfReload, Settling, Stages, Done

LEMMA CommitSettles ==
    ASSUME SettlingInv, SurfaceInv', NEW a \in Callers, Commit(a) PROVE SettlingInv'
  <1>1. /\ ops[a].pc = "commit" /\ Busy(a) /\ ops[a].pc \in Done
        /\ UNCHANGED <<source, approved, mcpVars, surface, runtime, dead, born>>
    BY DEF Commit, Busy, Done
  <1>2. registry = [f \in RegistryFields |-> registry[f]] /\ registry.revision \in Nat
    BY DEF SettlingInv, Numbers
  <1>3. PICK active : active = IF registry.candidate = 0 THEN registry.active
                               ELSE registry.candidate
    OBVIOUS
  <1>4. registry' = [registry EXCEPT !["candidate"] = 0, !["active"] = active]
    BY <1>3 DEF Commit
  <1>5. /\ registry' = [f \in RegistryFields |-> registry'[f]] /\ registry'.revision \in Nat
        /\ registry'.active = active
    BY <1>2, <1>4 DEF RegistryFields
  <1>6. CASE registry.candidate # ops[a].staged
    <2>1. Restore(a)
      BY <1>6 DEF Commit
    <2>2. Numbers'
      BY <1>1, <1>5, <2>1, NumbersAtRestore
    <2>3. ~ Alone(a)
      BY <1>1, <1>6, DoneIsReload DEF Settling, Committing
    <2> QED
      BY <1>1, <2>1, <2>2, <2>3, RestoreSettles
  <1>7. CASE registry.candidate = ops[a].staged
    <2> DEFINE o == [ops[a] EXCEPT !["pc"] = "hooks"]
    <2>1. ops' = [ops EXCEPT ![a] = o] /\ UNCHANGED outcome
      BY <1>7 DEF Commit, Continue
    <2>2. ops[a] = [f \in Fields |-> ops[a][f]]
      BY DEF SettlingInv, SurfaceInv, Shape
    <2>3. /\ o.pc = "hooks" /\ o.staged = ops[a].staged /\ o.clean = ops[a].clean
          /\ o.kept = ops[a].kept /\ \A f \in Carried : o[f] = ops[a][f]
      BY <2>2 DEF Fields, Carried
    <2> HIDE DEF o
    <2>4. ops'[a] = o /\ \A b \in Callers \ {a} : ops'[b] = ops[b]
      BY <2>1, GoesOn
    <2>5. /\ o.kind = ops[a].kind /\ o.restoring = ops[a].restoring /\ o.gen = ops[a].gen
          /\ o.retired = ops[a].retired /\ o.alone = ops[a].alone /\ o.before = ops[a].before
      BY <2>3, CarriedFields
    <2>6. ASSUME Alone(a) PROVE Settling(a)'
      <3>1. Settling(a) /\ ops[a].kind = "governance" /\ ~ ops[a].restoring
        BY <1>1, <2>6, DoneIsReload
      <3>2. Stages(a)' /\ Connecting(a)' /\ Listing(a)' /\ Serving(a)'
        BY <1>1, <2>3, <2>4, <3>1, DoneStays DEF Done
      <3>3. Alive(a)'
        BY <1>1, <2>3, <2>4, <2>5, <3>1 DEF Settling, Alive
      <3>4. Committing(a)'
        BY <1>1, <1>3, <1>5, <1>7, <2>3, <2>4, <2>5, <3>1 DEF Settling, Committing
      <3>5. PluginTools(ops[a].kept)' = PluginTools(ops[a].kept)
        BY <2>3, <2>4 DEF PluginTools
      <3>6. Captured(a)'
        BY <1>1, <2>3, <2>4, <2>5, <3>1, <3>5 DEF Settling, Captured
      <3> QED
        BY <3>2, <3>3, <3>4, <3>6 DEF Settling
    <2>7. Numbers'
      BY <1>1, <1>5, <2>4, <2>5 DEF SettlingInv, Numbers
    <2>8. Busy(a)'
      BY <2>3, <2>4 DEF Busy
    <2> QED
      BY <1>1, <2>1, <2>4, <2>5, <2>6, <2>7, <2>8, StepSettles
  <1> QED
    BY <1>6, <1>7

LEMMA HooksSettles ==
    ASSUME SettlingInv, SurfaceInv', NEW a \in Callers, Hooks(a) PROVE SettlingInv'
  <1>1. /\ ops[a].pc = "hooks" /\ Busy(a) /\ ops[a].pc \in Done
        /\ UNCHANGED <<source, approved, mcpVars, surface, registry, dead, born, outcome>>
    BY DEF Hooks, Continue, Busy, Done
  <1>2. PICK staged : staged = ops[a].staged
    OBVIOUS
  <1>3. runtime = [f \in RuntimeFields |-> runtime[f]]
    BY DEF SettlingInv, Numbers
  <1>4. runtime' = [runtime EXCEPT !["hooks"] = staged]
    BY <1>2 DEF Hooks
  <1>5. /\ runtime' = [f \in RuntimeFields |-> runtime'[f]]
        /\ runtime'.hooks = staged /\ runtime'.components = runtime.components
    BY <1>3, <1>4 DEF RuntimeFields
  <1> DEFINE o == [ops[a] EXCEPT !["pc"] = "install"]
  <1>6. ops' = [ops EXCEPT ![a] = o]
    BY DEF Hooks, Continue
  <1>7. ops[a] = [f \in Fields |-> ops[a][f]]
    BY DEF SettlingInv, SurfaceInv, Shape
  <1>8. /\ o.pc = "install" /\ o.staged = ops[a].staged /\ o.clean = ops[a].clean
        /\ o.kept = ops[a].kept /\ \A f \in Carried : o[f] = ops[a][f]
    BY <1>7 DEF Fields, Carried
  <1> HIDE DEF o
  <1>9. ops'[a] = o /\ \A b \in Callers \ {a} : ops'[b] = ops[b]
    BY <1>6, GoesOn
  <1>10. /\ o.kind = ops[a].kind /\ o.restoring = ops[a].restoring /\ o.gen = ops[a].gen
         /\ o.retired = ops[a].retired /\ o.alone = ops[a].alone /\ o.before = ops[a].before
    BY <1>8, CarriedFields
  <1>11. ASSUME Alone(a) PROVE Settling(a)'
    <2>1. Settling(a) /\ ops[a].kind = "governance" /\ ~ ops[a].restoring
      BY <1>1, <1>11, DoneIsReload
    <2>2. Stages(a)' /\ Connecting(a)' /\ Listing(a)' /\ Serving(a)'
      BY <1>1, <1>8, <1>9, <2>1, DoneStays DEF Done
    <2>3. Alive(a)'
      BY <1>1, <1>5, <1>8, <1>9, <1>10, <2>1 DEF Settling, Alive
    <2>4. Committing(a)'
      BY <1>1, <1>2, <1>5, <1>8, <1>9, <1>10, <2>1 DEF Settling, Committing
    <2>5. PluginTools(ops[a].kept)' = PluginTools(ops[a].kept)
      BY <1>8, <1>9 DEF PluginTools
    <2>6. Captured(a)'
      BY <1>1, <1>8, <1>9, <1>10, <2>1, <2>5 DEF Settling, Captured
    <2> QED
      BY <2>2, <2>3, <2>4, <2>6 DEF Settling
  <1>12. Numbers'
    BY <1>1, <1>5, <1>9, <1>10 DEF SettlingInv, Numbers
  <1>13. Busy(a)'
    BY <1>8, <1>9 DEF Busy
  <1> QED
    BY <1>1, <1>9, <1>10, <1>11, <1>12, <1>13, StepSettles

LEMMA InstallSettles ==
    ASSUME SettlingInv, SurfaceInv', NEW a \in Callers, Install(a) PROVE SettlingInv'
  <1>1. /\ ops[a].pc = "install" /\ Busy(a) /\ ops[a].pc \in Done
        /\ UNCHANGED <<source, approved, mcpVars, surface, registry, dead, born, outcome>>
    BY DEF Install, Continue, Busy, Done
  <1>2. PICK gen, old, capabilities :
           gen = ops[a].gen /\ old = runtime.components /\ capabilities = surface["record"]
    OBVIOUS
  <1>3. runtime = [f \in RuntimeFields |-> runtime[f]]
    BY DEF SettlingInv, Numbers
  <1>4. runtime' = [runtime EXCEPT !["catalogs"] = gen, !["components"] = gen,
                                   !["capabilities"] = capabilities]
    BY <1>2 DEF Install
  <1>5. /\ runtime' = [f \in RuntimeFields |-> runtime'[f]] /\ runtime'.hooks = runtime.hooks
        /\ runtime'.components = gen /\ runtime'.catalogs = gen
        /\ runtime'.capabilities = capabilities
    BY <1>3, <1>4 DEF RuntimeFields
  <1> DEFINE o == [ops[a] EXCEPT !["pc"] = "retire", !["retired"] = old,
                      !["saved"] = Idle.saved, !["kept"] = {}, !["tools"] = {}]
  <1>6. ops' = [ops EXCEPT ![a] = o]
    BY <1>2 DEF Install, Continue
  <1>7. ops[a] = [f \in Fields |-> ops[a][f]]
    BY DEF SettlingInv, SurfaceInv, Shape
  <1>8. /\ o.pc = "retire" /\ o.retired = old /\ o.staged = ops[a].staged /\ o.clean = ops[a].clean
        /\ \A f \in Carried \ {"retired"} : o[f] = ops[a][f]
    BY <1>7 DEF Fields, Carried
  <1> HIDE DEF o
  <1>9. ops'[a] = o /\ \A b \in Callers \ {a} : ops'[b] = ops[b]
    BY <1>6, GoesOn
  <1>10. /\ o.kind = ops[a].kind /\ o.restoring = ops[a].restoring /\ o.gen = ops[a].gen
         /\ o.alone = ops[a].alone /\ o.before = ops[a].before
    BY <1>8 DEF Carried
  <1>11. ASSUME Alone(a) PROVE Settling(a)'
    <2>1. Settling(a) /\ ops[a].kind = "governance" /\ ~ ops[a].restoring
      BY <1>1, <1>11, DoneIsReload
    <2>2. Stages(a)' /\ Connecting(a)' /\ Listing(a)' /\ Serving(a)'
      BY <1>1, <1>8, <1>9, <2>1, DoneStays DEF Done
    <2>3. Alive(a)'
      BY <1>1, <1>2, <1>8, <1>9, <1>10, <2>1 DEF Settling, Alive
    <2>4. capabilities = surface["router"]
      BY <1>1, <1>2, <2>1 DEF Settling, Listing, Serving, Places
    <2>5. Committing(a)'
      BY <1>1, <1>2, <1>5, <1>8, <1>9, <1>10, <2>1, <2>4 DEF Settling, Committing
    <2>6. Captured(a)'
      BY <1>8, <1>9 DEF Captured
    <2> QED
      BY <2>2, <2>3, <2>5, <2>6 DEF Settling
  <1>12. Numbers'
    BY <1>1, <1>2, <1>5, <1>8, <1>9, <1>10 DEF SettlingInv, Numbers
  <1>13. Busy(a)'
    BY <1>8, <1>9 DEF Busy
  <1> QED
    BY <1>1, <1>9, <1>10, <1>11, <1>12, <1>13, StepSettles

LEMMA RetireSettles ==
    ASSUME SettlingInv, SurfaceInv', NEW a \in Callers, Retire(a) PROVE SettlingInv'
  <1>1. /\ ops[a].pc = "retire" /\ Busy(a) /\ ops[a].pc \in Done /\ End(a, TRUE)
        /\ dead' = dead \cup {ops[a].retired}
        /\ UNCHANGED <<source, approved, mcpVars, surface, registry, runtime, born>>
    BY DEF Retire, Busy, Done
  <1>2. ops'[a] = Idle /\ \A b \in Callers \ {a} : ops'[b] = ops[b]
    BY <1>1 DEF End, SettlingInv, SurfaceInv, Shape
  <1>3. ops'[a].gen = 0 /\ ops'[a].retired = 0
    BY <1>2 DEF Idle
  <1>4. Numbers'
    BY <1>1, <1>2, <1>3 DEF SettlingInv, Numbers
  <1>5. ASSUME Alone(a) PROVE Good'
    <2>1. Settling(a) /\ ops[a].kind = "governance" /\ ~ ops[a].restoring
      BY <1>1, <1>5, DoneIsReload
    <2>2. outcome' = [kind |-> ops[a].kind, ok |-> TRUE, clean |-> ops[a].clean,
                      kept |-> ops[a].kind = "governance" /\ Kept(ops[a].before)]
      BY <1>1, <1>5 DEF End, Alone
    <2> DEFINE mine == {PluginTool(ops[a].gen)}
    <2>3. McpTools' = McpTools
      BY <1>1, ToolsSame
    <2>4. \A p \in Places : surface'[p] = McpTools' \cup mine
      BY <1>1, <2>1, <2>3 DEF Settling, Listing, Serving
    <2>5. PluginTools(McpTools') = {}
      BY <2>3, McpAreNoPlugins
    <2>6. PluginTools(mine) = mine
      BY OnePlugin
    <2> HIDE DEF mine
    <2>7. ASSUME NEW p \in Places PROVE PluginTools(surface'[p]) = mine
      <3>1. PluginTools(surface'[p]) = PluginTools(McpTools') \cup PluginTools(mine)
        BY <2>4, PluginsOfUnion, Zenon
      <3> QED
        BY <2>5, <2>6, <3>1
    <2>8. "router" \in Places
      BY DEF Places
    <2>9. ops[a].clean =>
              \A s \in Servers : IF ShouldConnect(s, source[s])'
                                 THEN connections'[s] # NoConnection /\ connections'[s].config = source'[s]
                                 ELSE connections'[s] = NoConnection
      BY <1>1, <2>1, WantsSame DEF Settling, Connecting, FromFiles, Late, Wants, ConnectedAs, mcpVars
    <2>10. \A t \in mine : t.id \notin dead'
      BY <1>1, <2>1 DEF mine, PluginTool, Settling, Alive
    <2>11. /\ surface'["router"] = runtime'.capabilities
           /\ PluginTool(runtime'.components) \in mine
           /\ runtime'.components = runtime'.catalogs /\ runtime'.hooks = registry'.active
      BY <1>1, <2>1 DEF Settling, Committing, mine
    <2>12. PluginTool(runtime'.components) \in surface'["router"]
      BY <2>4, <2>8, <2>11
    <2>13. \A p \in Places : PluginTools(surface[p])' = PluginTools(surface'[p])
      BY DEF PluginTools
    <2>14. PluginTool(runtime.components)' = PluginTool(runtime'.components)
      BY DEF PluginTool
    <2>15. SettledSurface'
      <3>1. SUFFICES ASSUME ops[a].clean PROVE SettledSurface'
        BY <2>2 DEF SettledSurface
      <3>2. \A p \in Places : surface'[p] = McpTools' \cup PluginTools(surface[p])'
        BY <2>4, <2>7, <2>13
      <3>3. \A p \in Places : surface'[p] = surface'["router"]
        BY <2>4, <2>8
      <3>4. \A t \in PluginTools(surface["router"])' : t.id \notin dead'
        BY <2>7, <2>8, <2>10, <2>13
      <3> QED
        BY <2>9, <2>11, <2>12, <2>14, <3>1, <3>2, <3>3, <3>4 DEF SettledSurface
    <2>16. FailedReloadKeeps'
      BY <2>2 DEF FailedReloadKeeps
    <2> QED
      BY <2>15, <2>16 DEF Good
  <1> QED
    BY <1>1, <1>4, <1>5, EndSettles

\* A request begins: it settles from nothing, if it runs alone at all.
LEMMA BeginSettles ==
    ASSUME SettlingInv, SurfaceInv', NEW a \in Callers, NEW o, Begin(a, o),
           UNCHANGED <<surface, registry, runtime, dead, born>>,
           o = [f \in Fields |-> o[f]], o.pc # "idle", o.gen = 0, o.retired = 0,
           ops'[a] = o => Settling(a)'
    PROVE  SettlingInv'
  <1> DEFINE others == {b \in Callers \ {a} : Busy(b)}
             mine(b) == IF b = a THEN o ELSE ops[b]
             joined(b) == [mine(b) EXCEPT !["alone"] = FALSE, !["before"] = Idle.before]
  <1>1. ~ Busy(a) /\ outcome' = NoOutcome
    BY DEF Begin
  <1>2. \A b \in Callers : ops'[b] = IF others = {} \/ b \notin others \cup {a} THEN mine(b)
                                   ELSE joined(b)
    BY DEF Begin
  <1>3. \A b \in Callers : mine(b) = [f \in Fields |-> mine(b)[f]]
    BY DEF SettlingInv, SurfaceInv, Shape
  <1>4. \A b \in Callers :
           /\ joined(b).alone = FALSE /\ joined(b).pc = mine(b).pc
           /\ joined(b).gen = mine(b).gen /\ joined(b).retired = mine(b).retired
    BY <1>3 DEF Fields
  <1> HIDE DEF joined
  <1>5. \A b \in Callers : /\ ops'[b].pc = mine(b).pc /\ ops'[b].gen = mine(b).gen
                           /\ ops'[b].retired = mine(b).retired
    BY <1>2, <1>4
  <1>6. Busy(a)'
    BY <1>5 DEF Busy
  <1>7. ASSUME NEW b \in Callers, Alone(b)' PROVE Settling(b)'
    <2>1. b = a
      BY <1>6, <1>7, OthersNotAloneNext
    <2>2. ops'[a] = o
      BY <1>2, <1>4, <1>7, <2>1 DEF Alone
    <2> QED
      BY <2>1, <2>2
  <1>8. Numbers'
    <2>1. \A b \in Callers : mine(b).gen \in 0..born /\ mine(b).retired \in 0..born
      BY DEF SettlingInv, Numbers
    <2> HIDE DEF mine
    <2> QED
      BY <1>5, <2>1 DEF SettlingInv, Numbers
  <1> QED
    BY <1>1, <1>7, <1>8, NoOutcomeIsGoodNext DEF SettlingInv, Quiet

LEMMA IdleFields ==
    /\ Idle.gen = 0 /\ Idle.retired = 0 /\ Idle.restoring = FALSE /\ Idle.clean = TRUE
    /\ Idle.place = 0
  BY DEF Idle

LEMMA RequestsSettle ==
    ASSUME SettlingInv, SurfaceInv', NEW a \in Callers, Requests(a) PROVE SettlingInv'
  <1> USE IdleShape, IdleFields
  <1>1. CASE Change(a)
    <2> DEFINE o == [Idle EXCEPT !["pc"] = "load", !["kind"] = "change"]
    <2>1. Begin(a, o) /\ UNCHANGED <<surface, registry, runtime, dead, born>>
      BY <1>1 DEF Change, reloadVars
    <2>2. /\ o = [f \in Fields |-> o[f]] /\ o.pc = "load" /\ o.kind = "change"
          /\ o.gen = 0 /\ o.retired = 0 /\ o.restoring = FALSE
      BY DEF Fields
    <2> HIDE DEF o
    <2>3. ASSUME ops'[a] = o PROVE Settling(a)'
      BY <2>2, <2>3 DEF Settling, Stages, Connecting, Listing, Serving, Alive, Committing, Captured,
         Late, Done
    <2> QED
      BY <2>1, <2>2, <2>3, BeginSettles
  <1>2. CASE Reload(a)
    <2> DEFINE o == [Idle EXCEPT !["pc"] = "load", !["kind"] = "governance", !["before"] = Plugins]
    <2>1. Begin(a, o) /\ UNCHANGED <<surface, registry, runtime, dead, born>>
      BY <1>2 DEF Reload, reloadVars
    <2>2. /\ o = [f \in Fields |-> o[f]] /\ o.pc = "load" /\ o.kind = "governance"
          /\ o.gen = 0 /\ o.retired = 0 /\ o.restoring = FALSE /\ o.before = Plugins
      BY DEF Fields
    <2> HIDE DEF o
    <2>3. ASSUME ops'[a] = o PROVE Settling(a)'
      <3>1. /\ Stages(a)' /\ Connecting(a)' /\ Listing(a)' /\ Serving(a)'
            /\ Alive(a)' /\ Committing(a)'
        BY <2>2, <2>3 DEF Stages, Connecting, Listing, Serving, Alive, Committing, Late, Done
      <3>2. PluginTools(surface["record"])' = PluginTools(surface["record"])
            /\ PluginTools(surface["router"])' = PluginTools(surface["router"])
        BY <2>1 DEF PluginTools
      <3>3. /\ Plugins.active = registry.active /\ Plugins.runtime = runtime
            /\ Plugins.router = PluginTools(surface["router"])
            /\ Plugins.record = PluginTools(surface["record"])
        BY DEF Plugins
      <3>4. Captured(a)'
        BY <2>1, <2>2, <2>3, <3>2, <3>3 DEF Captured
      <3> QED
        BY <3>1, <3>4 DEF Settling
    <2> QED
      BY <2>1, <2>2, <2>3, BeginSettles
  <1>3. CASE Reconnect(a)
    <2>1. PICK s \in Servers :
             Begin(a, [Idle EXCEPT !.pc = "recheck", !.kind = "reconnect",
                                   !.disconnect = {s}, !.configs[s] = declared[s]])
      BY <1>3 DEF Reconnect
    <2> DEFINE configs == [Idle.configs EXCEPT ![s] = declared[s]]
               o == [Idle EXCEPT !["pc"] = "recheck", !["kind"] = "reconnect",
                                 !["disconnect"] = {s}, !["configs"] = configs]
    <2>2. Begin(a, o) /\ UNCHANGED <<surface, registry, runtime, dead, born>>
      BY <1>3, <2>1 DEF Reconnect, reloadVars
    <2> HIDE DEF configs
    <2>3. /\ o = [f \in Fields |-> o[f]] /\ o.pc = "recheck" /\ o.kind = "reconnect"
          /\ o.gen = 0 /\ o.retired = 0 /\ o.restoring = FALSE
      BY DEF Fields
    <2> HIDE DEF o
    <2>4. ASSUME ops'[a] = o PROVE Settling(a)'
      BY <2>3, <2>4 DEF Settling, Stages, Connecting, FromFiles, Listing, Serving, Alive,
         Committing, Captured, Done
    <2> QED
      BY <2>2, <2>3, <2>4, BeginSettles
  <1> QED
    BY <1>1, <1>2, <1>3 DEF Requests

LEMMA InitSettles == Init => SettlingInv
  <1> SUFFICES ASSUME Init PROVE SettlingInv
    OBVIOUS
  <1>1. SurfaceInv
    BY InitHolds
  <1>2. PICK w \in Callers :
           ops = [a \in Callers |->
                     IF a = w THEN [Idle EXCEPT !.pc = "load", !.kind = "warmup", !.gen = 1]
                     ELSE Idle]
    BY DEF Init
  <1> DEFINE o == [Idle EXCEPT !["pc"] = "load", !["kind"] = "warmup", !["gen"] = 1]
  <1>3. /\ o.pc = "load" /\ o.kind = "warmup" /\ o.gen = 1 /\ o.restoring = FALSE
        /\ o.retired = 0
    BY IdleShape, IdleFields DEF Fields
  <1>4. ops[w] = o /\ \A a \in Callers \ {w} : ops[a] = Idle
    BY <1>2
  <1> HIDE DEF o
  <1>5. Numbers
    <2>1. /\ registry = [f \in RegistryFields |-> registry[f]] /\ registry.revision = 1
          /\ runtime = [f \in RuntimeFields |-> runtime[f]] /\ runtime.components = 1
      BY DEF Init, RegistryFields, RuntimeFields
    <2>2. surface = [p \in Places |-> surface[p]] /\ born = 1 /\ dead = {}
      BY DEF Init
    <2>3. \A a \in Callers : ops[a].gen \in 0..1 /\ ops[a].retired \in 0..1
      BY <1>3, <1>4, IdleFields
    <2> QED
      BY <2>1, <2>2, <2>3 DEF Numbers
  <1>6. outcome = NoOutcome
    BY DEF Init
  <1>7. \A a \in Callers \ {w} : ~ Busy(a)
    BY <1>4, IdleShape DEF Busy
  <1>8. dead = {}
    BY DEF Init
  <1>9. Settling(w)
    BY <1>3, <1>4, <1>8 DEF Settling, Stages, Connecting, Listing, Serving, Alive, Committing,
       Captured, Late, Done
  <1> QED
    BY <1>1, <1>5, <1>6, <1>7, <1>9, NoOutcomeIsGood DEF SettlingInv, Quiet, Alone

LEMMA StutterSettles == ASSUME SettlingInv, UNCHANGED vars PROVE SettlingInv'
  <1>1. UNCHANGED <<source, approved, mcpVars, surface, registry, runtime, dead, born, ops, outcome>>
    BY DEF vars, reloadVars
  <1>2. SurfaceInv'
    BY NextKeeps DEF SettlingInv
  <1>3. Numbers'
    BY <1>1 DEF SettlingInv, Numbers
  <1>4. Quiet'
    BY <1>1 DEF SettlingInv, Quiet, Busy
  <1>5. McpTools' = McpTools
    BY <1>1, ToolsSame
  <1>6. Good'
    BY <1>1, <1>5 DEF SettlingInv, Good, SettledSurface, FailedReloadKeeps, PluginTools, PluginTool,
       ShouldConnect, Approved, mcpVars
  <1>7. ASSUME NEW a \in Callers, Alone(a)' PROVE Settling(a)'
    <2>1. Settling(a)
      BY <1>1, <1>7 DEF SettlingInv, Alone, Busy
    <2>2. Stages(a)'
      BY <1>1, <2>1 DEF Settling, Stages
    <2>3. Connecting(a)'
      BY <1>1, <2>1, WantsSame DEF Settling, Connecting, FromFiles, ConnectedAs, InOpening, mcpVars
    <2>4. Listing(a)' /\ Serving(a)'
      BY <1>1, <1>5, <2>1 DEF Settling, Listing, Serving, Done, DeclaredServers, mcpVars, Added,
         PluginTool
    <2>5. Alive(a)' /\ Committing(a)'
      BY <1>1, <2>1 DEF Settling, Alive, Committing
    <2>6. Captured(a)'
      BY <1>1, <2>1 DEF Settling, Captured, PluginTools
    <2> QED
      BY <2>2, <2>3, <2>4, <2>5, <2>6 DEF Settling
  <1> QED
    BY <1>2, <1>3, <1>4, <1>6, <1>7 DEF SettlingInv

LEMMA NextSettles == ASSUME SettlingInv, [Next]_vars PROVE SettlingInv'
  <1>1. SurfaceInv'
    BY NextKeeps DEF SettlingInv
  <1>2. CASE UNCHANGED vars
    BY <1>2, StutterSettles
  <1>3. ASSUME NEW a \in Callers, Requests(a) PROVE SettlingInv'
    BY <1>1, <1>3, RequestsSettle
  <1>4. ASSUME NEW a \in Callers, Governance(a) PROVE SettlingInv'
    BY <1>1, <1>4, PrepareSettles, CaptureSettles, IdentifySettles, KeepSettles, StageSettles,
       CommitSettles, HooksSettles, InstallSettles, RetireSettles DEF Governance
  <1>5. ASSUME NEW a \in Callers, Mcp(a) PROVE SettlingInv'
    BY <1>1, <1>5, LoadSettles, DeclareSettles, CompareSettles, DisconnectSettles, RecheckSettles,
       ConnectSettles, EstablishSettles, ListSettles, SurveySettles, ApplySettles, RefuseSettles DEF Mcp
  <1> QED
    BY <1>2, <1>3, <1>4, <1>5 DEF Next

\* A caller that runs alone is where its steps should have brought it
\* (bootstrap/mcp.rs, capabilities.rs and governance.rs).
THEOREM SettlingInvariant == Spec => []SettlingInv
  BY InitSettles, NextSettles, PTL DEF Spec

\* A request that nothing overlapped and that met no failure of its own puts
\* the connections, the surface and the plugins right.
THEOREM SettledSurfaceHolds == Spec => []SettledSurface
  <1>1. SettlingInv => SettledSurface
    BY DEF SettlingInv, Good
  <1> QED
    BY <1>1, SettlingInvariant, PTL

\* A reload that nothing overlapped and that fails leaves the plugins as they
\* were.
THEOREM FailedReloadKeepsHolds == Spec => []FailedReloadKeeps
  <1>1. SettlingInv => FailedReloadKeeps
    BY DEF SettlingInv, Good
  <1> QED
    BY <1>1, SettlingInvariant, PTL
=============================================================================
