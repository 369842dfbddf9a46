---------------------------- MODULE SkillRegistry ----------------------------
(***************************************************************************)
(* register_skill (skills/registry.py) statement by statement: agents,     *)
(* routes and scripts write versions of one skill at the same time, under  *)
(* READ COMMITTED, while gate runs move its head.                          *)
(***************************************************************************)
EXTENDS Naturals, FiniteSets

CONSTANTS
    Writer,    \* calls of register_skill
    SkillKind, \* skill_kind
    FormOf,    \* the kind in a writer's frontmatter
    Nobody

ASSUME RegistryAssumption ==
    /\ FormOf \in [Writer -> SkillKind]
    /\ Nobody \notin Writer

VARIABLES
    skill,     \* the row of skills: exists, kind, head, latest proposed
    versions,  \* committed skill_versions: seq, parent, of (its writer)
    stmt,      \* where a call is
    mine,      \* the version a call is about to insert
    rowLock    \* holder of the skills row, or of the insert of it

registryVars == <<skill, versions, stmt, mine, rowLock>>

Seqs == {v.seq : v \in versions}

RegistryTypeOK ==
    /\ skill \in [exists : BOOLEAN, kind : SkillKind, head : Nat, latest : Nat]
    /\ versions \subseteq [seq : Nat \ {0}, parent : Nat, of : Writer]
    /\ stmt \in [Writer -> {"start", "create", "count", "touch", "insert", "point", "done", "failed"}]
    /\ mine \in [Writer -> [seq : Nat, parent : Nat]]
    /\ rowLock \in Writer \cup {Nobody}

RegistryInit ==
    /\ \E form \in SkillKind : skill = [exists |-> FALSE, kind |-> form, head |-> 0, latest |-> 0]
    /\ versions = {}
    /\ stmt = [w \in Writer |-> "start"]
    /\ mine = [w \in Writer |-> [seq |-> 0, parent |-> 0]]
    /\ rowLock = Nobody

StepTo(w, label) == stmt' = [stmt EXCEPT ![w] = label]

\* SELECT ... FROM skills, without a lock.  The parent is the last version
\* proposed, else the head; another kind is refused.
ReadSkill(w) ==
    /\ stmt[w] = "start"
    /\ IF ~skill.exists THEN StepTo(w, "create") /\ mine' = [mine EXCEPT ![w] = [seq |-> 1, parent |-> 0]]
       ELSE IF skill.kind # FormOf[w] THEN StepTo(w, "failed") /\ UNCHANGED mine
       ELSE /\ StepTo(w, "count")
            /\ mine' = [mine EXCEPT ![w].parent = IF skill.latest # 0 THEN skill.latest ELSE skill.head]
    /\ UNCHANGED <<skill, versions, rowLock>>

\* INSERT INTO skills: waits for another insert of the id, and fails if that
\* one is committed.
CreateSkill(w) ==
    /\ stmt[w] = "create" /\ rowLock = Nobody
    /\ IF skill.exists THEN StepTo(w, "failed") /\ UNCHANGED rowLock
       ELSE StepTo(w, "insert") /\ rowLock' = w
    /\ UNCHANGED <<skill, versions, mine>>

\* COALESCE(MAX(version_seq), 0) + 1 over what is committed.
SeqAfter == (CHOOSE m \in Seqs \cup {0} : \A r \in Seqs : r <= m) + 1
CountVersions(w) ==
    /\ stmt[w] = "count"
    /\ mine' = [mine EXCEPT ![w].seq = SeqAfter]
    /\ StepTo(w, "touch")
    /\ UNCHANGED <<skill, versions, rowLock>>

\* UPDATE skills SET capability_tags: from here on the call holds the row.
TouchSkill(w) ==
    /\ stmt[w] = "touch" /\ rowLock = Nobody
    /\ rowLock' = w
    /\ StepTo(w, "insert")
    /\ UNCHANGED <<skill, versions, mine>>

\* INSERT INTO skill_versions: UNIQUE (skill_id, version_seq).
SeqTaken_never(w) == FALSE
SeqTaken(w) == mine[w].seq \in Seqs
InsertVersion(w) ==
    /\ stmt[w] = "insert"
    /\ IF SeqTaken(w) THEN StepTo(w, "failed") /\ rowLock' = Nobody
       ELSE StepTo(w, "point") /\ UNCHANGED rowLock
    /\ UNCHANGED <<skill, versions, mine>>

\* The pointers and the commit: a first version becomes the head as well.
CommitVersion(w) ==
    /\ stmt[w] = "point"
    /\ versions' = versions \cup {[seq |-> mine[w].seq, parent |-> mine[w].parent, of |-> w]}
    /\ skill' = IF skill.exists THEN [skill EXCEPT !.latest = mine[w].seq]
                ELSE [exists |-> TRUE, kind |-> FormOf[w], head |-> mine[w].seq, latest |-> mine[w].seq]
    /\ rowLock' = Nobody
    /\ StepTo(w, "done")
    /\ UNCHANGED mine

\* The caller is cancelled or its connection breaks: all is rolled back.
Roll(w) ==
    /\ stmt[w] \in {"create", "count", "touch", "insert", "point"}
    /\ StepTo(w, "failed")
    /\ rowLock' = IF rowLock = w THEN Nobody ELSE rowLock
    /\ UNCHANGED <<skill, versions, mine>>

\* A gate run passes: the head moves to its version (gate/persistence.py).
MoveHead(v) ==
    /\ rowLock = Nobody /\ v \in versions /\ skill.head # v.seq
    /\ skill' = [skill EXCEPT !.head = v.seq]
    /\ UNCHANGED <<versions, stmt, mine, rowLock>>

RegistryNext ==
    \/ \E w \in Writer : \/ ReadSkill(w) \/ CreateSkill(w) \/ CountVersions(w) \/ TouchSkill(w)
                         \/ InsertVersion(w) \/ CommitVersion(w) \/ Roll(w)
    \/ \E v \in versions : MoveHead(v)

RegistrySpec == RegistryInit /\ [][RegistryNext]_registryVars

\* However calls interleave or break off, the numbers of a skill's versions
\* have no gap and no double, its kind never changes hands, the newest version
\* is the one the next agent reads, and every parent is an earlier version.
\* (That it is the previous one is not so: the parent may be stale.)
VersionsAreNumbered ==
    /\ Seqs = 1..Cardinality(versions)
    /\ skill.exists <=> versions # {}
    /\ skill.exists =>
          /\ skill.latest = Cardinality(versions)
          /\ skill.head \in Seqs
    /\ \A v \in versions : /\ FormOf[v.of] = skill.kind
                           /\ v.parent < v.seq
                           /\ v.parent = 0 <=> v.seq = 1
=============================================================================
