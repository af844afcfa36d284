---------------------------- MODULE CommandRunner -----------------------------
(***************************************************************************)
(* The osm2pgsql children of an append (OsmCommandRunner over spawner.ts)  *)
(* and what they leave behind: the tables of their entity in the database, *)
(* and the expire list of their entity on the local disk.                  *)
(*                                                                         *)
(* A child that was sent SIGINT by terminateChildren and that nobody       *)
(* awaits any more is kept in "signalled" until it is gone: the code does  *)
(* not wait for it, and its transaction may still commit.                  *)
(***************************************************************************)
EXTENDS StateTracker

CONSTANTS Entities,         \* the entities of the append configuration (minItems: 1)
          GenerateExpire,   \* osm2pgsql.generateExpireOutput
          Tiles             \* per entity and diff, the tiles the diff expires

\* "none": no tile expires, no list to upload;  "outside": every expired tile
\* is dropped by the geometry filter of the entity;  "inside": some are kept.
TileKinds == {"none", "outside", "inside"}

ASSUME EntitiesAssumption == Entities # {}
ASSUME GenerateExpireAssumption == GenerateExpire \in BOOLEAN
ASSUME TilesAssumption == Tiles \in [Entities -> [SequenceNumbers -> TileKinds]]

VARIABLES children,     \* per entity, the child the current append awaits
          signalled,    \* <<entity, diff>> of children nobody awaits
          applied,      \* per entity, the last diff its tables contain
          expireFiles   \* <<entity, diff>> whose list is on the local disk

runnerVars == <<children, signalled, applied, expireFiles>>

\* "interrupted": signalled by the clean-up of a SIGTERM, and still awaited.
ChildStates == {"idle", "running", "interrupted", "done"}

NoChildren == [e \in Entities |-> "idle"]

Alive(e) == children[e] \in {"running", "interrupted"}

RunnerInit(start) ==
  /\ children = NoChildren
  /\ signalled = {}
  /\ applied = [e \in Entities |-> start]
  /\ expireFiles = {}

hasTiles(e, seq) == GenerateExpire /\ Tiles[e][seq] # "none"

\* appendEntity runs for every entity in the same tick.  The first conjunct is an
\* assumption, not a check of the code: a child that was sent SIGINT is gone
\* before a later diff has been downloaded and simplified.
spawnAll(seq) ==
  /\ \A d \in signalled : d[2] = seq
  /\ children' = [e \in Entities |-> "running"]
  /\ UNCHANGED <<signalled, applied, expireFiles>>

\* What the run of osm2pgsql for entity e on diff seq does to the outside.
commit(e, seq) ==
  /\ applied' = [applied EXCEPT ![e] = seq]
  /\ expireFiles' =
       IF hasTiles(e, seq) THEN expireFiles \cup {<<e, seq>>} ELSE expireFiles

childSucceeds(e, seq) ==
  /\ Alive(e)
  /\ commit(e, seq)
  /\ children' = [children EXCEPT ![e] = "done"]
  /\ UNCHANGED signalled

\* Child e exits with an error, before or after its commit, which rejects the
\* append; the catch clause then sends SIGINT to every child still listed.
childFails(e, seq, committed) ==
  /\ Alive(e)
  /\ IF committed THEN commit(e, seq) ELSE UNCHANGED <<applied, expireFiles>>
  /\ children' = NoChildren
  /\ signalled' = signalled \cup {<<f, seq>> : f \in {g \in Entities \ {e} : Alive(g)}}

\* terminateChildren from the clean-up registry, while the append awaits them.
interruptChildren ==
  /\ children' = [e \in Entities |->
                    IF children[e] = "running" THEN "interrupted" ELSE children[e]]
  /\ UNCHANGED <<signalled, applied, expireFiles>>

\* The process is gone: nobody awaits its children.
abandonChildren(seq) ==
  /\ children' = NoChildren
  /\ signalled' = signalled \cup {<<e, seq>> : e \in {g \in Entities : Alive(g)}}
  /\ UNCHANGED <<applied, expireFiles>>

\* The last act of a signalled child: it commits or it does not.
signalledEnds(d, committed) ==
  /\ signalled' = signalled \ {d}
  /\ IF committed THEN commit(d[1], d[2]) ELSE UNCHANGED <<applied, expireFiles>>
  /\ UNCHANGED children
=============================================================================
