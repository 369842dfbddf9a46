----------------------------- MODULE RecordProofs -----------------------------
(*****************************************************************************)
(* Proofs about SkillRegistry, for any set of calls, about AuditChain, for any *)
(* writers, workspaces and damage, and about FixDelivery, for any set of     *)
(* proposals and of requests.                                                *)
(*****************************************************************************)
EXTENDS SkillRegistry, AuditChain, FixDelivery, FiniteSetTheorems, WellFoundedInduction, TLAPS

-----------------------------------------------------------------------------
(*****************************************************************************)
(* The versions of a skill.                                                  *)
(*****************************************************************************)

Count == Cardinality(versions)

\* A call holds the row exactly from its first write of it to its end.
HolderInv == \A w \in Writer : rowLock = w <=> stmt[w] \in {"insert", "point"}

\* What a call carries.  The number read without the row may be taken by the
\* time of the insert, but it is never beyond the next one; the parent is a
\* version that was there before.
CarriedInv ==
    \A w \in Writer :
        /\ stmt[w] \in {"count", "touch"} => skill.exists
        /\ stmt[w] \in {"create", "insert", "point"} /\ ~skill.exists =>
              mine[w].seq = 1 /\ mine[w].parent = 0
        /\ stmt[w] = "count" => FormOf[w] = skill.kind /\ mine[w].parent \in 1..Count
        /\ stmt[w] = "touch" \/ (stmt[w] \in {"insert", "point"} /\ skill.exists) =>
              /\ FormOf[w] = skill.kind
              /\ mine[w].parent >= 1 /\ mine[w].parent < mine[w].seq
              /\ mine[w].seq <= Count + 1
        /\ stmt[w] = "point" => mine[w].seq \notin Seqs

RegistryInv == RegistryTypeOK /\ IsFiniteSet(versions) /\ HolderInv /\ CarriedInv /\ VersionsAreNumbered

\* The number of the versions is a natural number, and zero only for none.
LEMMA CountFacts ==
    ASSUME IsFiniteSet(versions)
    PROVE  Count \in Nat /\ (Count = 0 <=> versions = {})
  BY FS_CardinalityType, FS_EmptySet DEF Count

\* MAX + 1 is the number after the last where there is no gap.
LEMMA NextSeq ==
    ASSUME RegistryInv
    PROVE  SeqAfter = Count + 1
  <1>1. Count \in Nat /\ Seqs = 1..Count
    BY CountFacts DEF RegistryInv, VersionsAreNumbered, Count
  <1>2. Count \in Seqs \cup {0} /\ \A r \in Seqs : r <= Count
    BY <1>1
  <1>3. \A m \in Seqs \cup {0} : (\A r \in Seqs : r <= m) => m = Count
    BY <1>1, <1>2
  <1>4. (CHOOSE m \in Seqs \cup {0} : \A r \in Seqs : r <= m) = Count
    BY <1>2, <1>3
  <1>5. QED
    BY <1>4 DEF SeqAfter

\* The initial state is one of the invariant.
LEMMA RegistryInvInit ==
    ASSUME RegistryInit
    PROVE  RegistryInv
  <1>1. IsFiniteSet(versions) /\ Cardinality(versions) = 0 /\ Seqs = {}
    BY FS_EmptySet DEF RegistryInit, Seqs
  <1>2. RegistryTypeOK
    <2>1. skill \in [exists : BOOLEAN, kind : SkillKind, head : Nat, latest : Nat] /\ ~skill.exists
      BY DEF RegistryInit
    <2>2. QED
      BY <2>1 DEF RegistryInit, RegistryTypeOK
  <1>3. HolderInv /\ CarriedInv
    BY RegistryAssumption DEF RegistryInit, HolderInv, CarriedInv
  <1>4. VersionsAreNumbered
    <2>1. ~skill.exists /\ versions = {} /\ Seqs = 1..Cardinality(versions)
      BY <1>1 DEF RegistryInit
    <2>2. QED
      BY <2>1 DEF VersionsAreNumbered
  <1>5. QED
    BY <1>1, <1>2, <1>3, <1>4 DEF RegistryInv

\* A step that leaves the rows alone keeps what is said of them.
LEMMA RowsKept ==
    ASSUME RegistryInv, UNCHANGED <<skill, versions>>
    PROVE  IsFiniteSet(versions)' /\ VersionsAreNumbered' /\ Count' = Count /\ Seqs' = Seqs
  BY DEF RegistryInv, VersionsAreNumbered, Count, Seqs

\* Every step keeps the invariant.
LEMMA RegistryInvStep ==
    ASSUME RegistryInv, RegistryNext \/ UNCHANGED registryVars
    PROVE  RegistryInv'
  <1> USE RegistryAssumption
  <1>0. Count \in Nat /\ (Count = 0 <=> versions = {}) /\ Seqs = 1..Count
    BY CountFacts DEF RegistryInv, VersionsAreNumbered, Count
  <1>1. ASSUME NEW w \in Writer, ReadSkill(w) PROVE RegistryInv'
    <2>1. skill.exists => skill.latest \in 1..Count /\ skill.head \in 1..Count
      BY <1>0 DEF RegistryInv, VersionsAreNumbered, Count
    <2>2. RegistryTypeOK' /\ HolderInv'
      BY <1>1, <2>1 DEF ReadSkill, StepTo, RegistryInv, RegistryTypeOK, HolderInv
    <2>3. CarriedInv'
      BY <1>1, <2>1, RowsKept DEF ReadSkill, StepTo, RegistryInv, RegistryTypeOK, CarriedInv
    <2>4. QED
      BY <1>1, <2>2, <2>3, RowsKept DEF ReadSkill, RegistryInv
  <1>2. ASSUME NEW w \in Writer, CreateSkill(w) PROVE RegistryInv'
    <2>1. RegistryTypeOK' /\ HolderInv'
      BY <1>2 DEF CreateSkill, StepTo, RegistryInv, RegistryTypeOK, HolderInv
    <2>2. CarriedInv'
      BY <1>2, RowsKept DEF CreateSkill, StepTo, RegistryInv, RegistryTypeOK, CarriedInv
    <2>3. QED
      BY <1>2, <2>1, <2>2, RowsKept DEF CreateSkill, RegistryInv
  <1>3. ASSUME NEW w \in Writer, CountVersions(w) PROVE RegistryInv'
    <2>1. SeqAfter = Count + 1
      BY NextSeq
    <2>5. /\ mine' \in [Writer -> [seq : Nat, parent : Nat]]
          /\ mine'[w].seq = Count + 1 /\ mine'[w].parent = mine[w].parent
          /\ \A u \in Writer \ {w} : mine'[u] = mine[u]
      <3>1. mine' = [mine EXCEPT ![w].seq = Count + 1]
        BY <1>3, <2>1 DEF CountVersions
      <3>2. mine \in [Writer -> [seq : Nat, parent : Nat]] /\ Count + 1 \in Nat
        BY <1>0 DEF RegistryInv, RegistryTypeOK
      <3>3. QED
        BY <3>1, <3>2
    <2>2. RegistryTypeOK' /\ HolderInv'
      <3>1. mine' \in [Writer -> [seq : Nat, parent : Nat]]
        BY <2>5
      <3>2. QED
        BY <1>3, <3>1 DEF CountVersions, StepTo, RegistryInv, RegistryTypeOK, HolderInv
    <2>3. CarriedInv'
      <3>1. /\ stmt'[w] = "touch" /\ mine'[w].seq = Count + 1 /\ mine'[w].parent = mine[w].parent
            /\ stmt[w] = "count"
        BY <1>3, <2>5 DEF CountVersions, StepTo, RegistryInv, RegistryTypeOK
      <3>2. \A u \in Writer \ {w} : stmt'[u] = stmt[u] /\ mine'[u] = mine[u]
        BY <1>3, <2>5 DEF CountVersions, StepTo, RegistryInv, RegistryTypeOK
      <3>3. UNCHANGED skill /\ Count' = Count /\ Seqs' = Seqs
        BY <1>3, RowsKept DEF CountVersions
      <3>4. QED
        BY <1>0, <3>1, <3>2, <3>3 DEF RegistryInv, CarriedInv
    <2>4. QED
      BY <1>3, <2>2, <2>3, RowsKept DEF CountVersions, RegistryInv
  <1>4. ASSUME NEW w \in Writer, TouchSkill(w) PROVE RegistryInv'
    <2>1. RegistryTypeOK' /\ HolderInv'
      BY <1>4 DEF TouchSkill, StepTo, RegistryInv, RegistryTypeOK, HolderInv
    <2>2. CarriedInv'
      BY <1>4, RowsKept DEF TouchSkill, StepTo, RegistryInv, RegistryTypeOK, CarriedInv
    <2>3. QED
      BY <1>4, <2>1, <2>2, RowsKept DEF TouchSkill, RegistryInv
  <1>5. ASSUME NEW w \in Writer, InsertVersion(w) PROVE RegistryInv'
    <2>1. RegistryTypeOK' /\ HolderInv'
      BY <1>5 DEF InsertVersion, StepTo, RegistryInv, RegistryTypeOK, HolderInv
    <2>2. CarriedInv'
      BY <1>5, RowsKept DEF InsertVersion, SeqTaken, StepTo, RegistryInv, RegistryTypeOK, CarriedInv
    <2>3. QED
      BY <1>5, <2>1, <2>2, RowsKept DEF InsertVersion, RegistryInv
  <1>6. ASSUME NEW w \in Writer, CommitVersion(w) PROVE RegistryInv'
    <2> DEFINE new == [seq |-> mine[w].seq, parent |-> mine[w].parent, of |-> w]
    <2>1. /\ stmt[w] = "point" /\ rowLock = w
          /\ mine[w].seq \in Nat /\ mine[w].parent \in Nat
          /\ mine[w].seq \notin Seqs
      BY <1>6 DEF CommitVersion, RegistryInv, HolderInv, CarriedInv, RegistryTypeOK
    <2>2. mine[w].seq = Count + 1 /\ mine[w].parent < mine[w].seq /\ (mine[w].parent = 0 <=> mine[w].seq = 1)
      <3>1. CASE skill.exists
        BY <1>0, <2>1, <3>1 DEF RegistryInv, CarriedInv
      <3>2. CASE ~skill.exists
        BY <1>0, <2>1, <3>2 DEF RegistryInv, CarriedInv, VersionsAreNumbered
      <3>3. QED
        BY <3>1, <3>2
    <2>3. new \notin versions /\ versions' = versions \cup {new}
      BY <1>6, <2>1 DEF CommitVersion, Seqs
    <2>4. IsFiniteSet(versions') /\ Count' = Count + 1
      BY <2>3, FS_AddElement DEF RegistryInv, Count
    <2>5. Seqs' = 1..Count'
      <3>1. Seqs' = Seqs \cup {mine[w].seq}
        BY <2>3 DEF Seqs
      <3>2. QED
        BY <1>0, <2>2, <2>4, <3>1
    <2>6. /\ skill'.exists /\ skill'.latest = Count'
          /\ skill'.head \in Seqs' /\ skill'.kind = FormOf[w]
          /\ skill' \in [exists : BOOLEAN, kind : SkillKind, head : Nat, latest : Nat]
          /\ skill.exists => skill'.kind = skill.kind
      <3>1. CASE skill.exists
        <4>1. FormOf[w] = skill.kind /\ skill.head \in Seqs
          BY <2>1, <3>1 DEF RegistryInv, CarriedInv, VersionsAreNumbered
        <4>2. skill' = [skill EXCEPT !.latest = mine[w].seq]
          BY <1>6, <3>1 DEF CommitVersion
        <4>3. /\ skill'.exists = skill.exists /\ skill'.kind = skill.kind
              /\ skill'.head = skill.head /\ skill'.latest = mine[w].seq
              /\ skill' \in [exists : BOOLEAN, kind : SkillKind, head : Nat, latest : Nat]
          BY <2>1, <4>2 DEF RegistryInv, RegistryTypeOK
        <4>4. QED
          BY <1>0, <2>2, <2>4, <2>5, <3>1, <4>1, <4>3
      <3>2. CASE ~skill.exists
        <4>1. skill' = [exists |-> TRUE, kind |-> FormOf[w], head |-> mine[w].seq, latest |-> mine[w].seq]
          BY <1>6, <3>2 DEF CommitVersion
        <4>2. QED
          BY <1>0, <2>1, <2>2, <2>4, <2>5, <3>2, <4>1
      <3>3. QED
        BY <3>1, <3>2
    <2>7. RegistryTypeOK' /\ HolderInv'
      <3>1. new \in [seq : Nat \ {0}, parent : Nat, of : Writer]
        BY <1>0, <2>1, <2>2
      <3>2. QED
        BY <1>6, <2>1, <2>3, <2>6, <3>1 DEF CommitVersion, StepTo, RegistryInv, RegistryTypeOK, HolderInv
    <2>8. CarriedInv'
      <3>1. ASSUME NEW u \in Writer, u # w PROVE stmt'[u] = stmt[u] /\ mine'[u] = mine[u] /\ stmt[u] \notin {"insert", "point"}
        BY <1>6, <2>1, <3>1 DEF CommitVersion, StepTo, RegistryInv, RegistryTypeOK, HolderInv
      <3>2. stmt'[w] = "done"
        BY <1>6 DEF CommitVersion, StepTo, RegistryInv, RegistryTypeOK
      <3>3. ASSUME NEW u \in Writer, u # w, stmt[u] \in {"count", "touch"}
            PROVE  skill'.kind = FormOf[u]
        BY <2>6, <3>3 DEF RegistryInv, CarriedInv
      <3>4. ASSUME NEW u \in Writer, u # w, stmt[u] = "count" PROVE mine'[u].parent \in 1..Count'
        BY <1>0, <2>4, <3>1, <3>4 DEF RegistryInv, CarriedInv
      <3>5. ASSUME NEW u \in Writer, u # w, stmt[u] = "touch"
            PROVE  /\ mine'[u].parent >= 1 /\ mine'[u].parent < mine'[u].seq
                   /\ mine'[u].seq <= Count' + 1
        BY <1>0, <2>4, <3>1, <3>5 DEF RegistryInv, CarriedInv, RegistryTypeOK
      <3>6. QED
        BY <2>6, <3>1, <3>2, <3>3, <3>4, <3>5 DEF CarriedInv
    <2>9. VersionsAreNumbered'
      <3>1. ASSUME NEW v \in versions
            PROVE  FormOf[v.of] = skill'.kind /\ v.parent < v.seq /\ (v.parent = 0 <=> v.seq = 1)
        <4>1. skill.exists
          BY <3>1 DEF RegistryInv, VersionsAreNumbered
        <4>2. QED
          BY <2>6, <3>1, <4>1 DEF RegistryInv, VersionsAreNumbered
      <3>2. QED
        BY <2>2, <2>3, <2>5, <2>6, <3>1 DEF VersionsAreNumbered, Count
    <2>10. QED
      BY <2>4, <2>7, <2>8, <2>9 DEF RegistryInv
  <1>7. ASSUME NEW w \in Writer, Roll(w) PROVE RegistryInv'
    <2>1. RegistryTypeOK' /\ HolderInv'
      BY <1>7 DEF Roll, StepTo, RegistryInv, RegistryTypeOK, HolderInv
    <2>2. CarriedInv'
      BY <1>7, RowsKept DEF Roll, StepTo, RegistryInv, RegistryTypeOK, CarriedInv
    <2>3. QED
      BY <1>7, <2>1, <2>2, RowsKept DEF Roll, RegistryInv
  <1>8. ASSUME NEW v \in versions, MoveHead(v) PROVE RegistryInv'
    <2>1. /\ v.seq \in Seqs /\ skill'.head = v.seq /\ skill'.exists = skill.exists
          /\ skill'.kind = skill.kind /\ skill'.latest = skill.latest
      BY <1>8 DEF MoveHead, Seqs, RegistryInv, RegistryTypeOK
    <2>2. UNCHANGED <<versions, stmt, mine, rowLock>> /\ Count' = Count /\ Seqs' = Seqs
      BY <1>8 DEF MoveHead, Count, Seqs
    <2>3. RegistryTypeOK' /\ HolderInv'
      <3>1. v.seq \in Nat
        BY DEF RegistryInv, RegistryTypeOK
      <3>2. skill' \in [exists : BOOLEAN, kind : SkillKind, head : Nat, latest : Nat]
        BY <1>8, <3>1 DEF MoveHead, RegistryInv, RegistryTypeOK
      <3>3. QED
        BY <2>2, <3>2 DEF RegistryInv, RegistryTypeOK, HolderInv
    <2>4. CarriedInv'
      BY <2>1, <2>2 DEF RegistryInv, CarriedInv
    <2>5. VersionsAreNumbered'
      BY <2>1, <2>2 DEF RegistryInv, VersionsAreNumbered, Count
    <2>6. QED
      BY <2>2, <2>3, <2>4, <2>5 DEF RegistryInv
  <1>9. CASE UNCHANGED registryVars
    BY <1>9, RowsKept DEF registryVars, RegistryInv, RegistryTypeOK, HolderInv, CarriedInv
  <1>10. QED
    BY <1>1, <1>2, <1>3, <1>4, <1>5, <1>6, <1>7, <1>8, <1>9 DEF RegistryNext

\* The inductive invariant holds for ever.
LEMMA RegistryInvariance == RegistrySpec => []RegistryInv
  <1>1. RegistryInit => RegistryInv
    BY RegistryInvInit
  <1>2. RegistryInv /\ [RegistryNext]_registryVars => RegistryInv'
    BY RegistryInvStep
  <1>3. QED
    BY <1>1, <1>2, PTL DEF RegistrySpec

\* The rows and the calls of register_skill stay in their types.
THEOREM RegistryTypeCorrect == RegistrySpec => []RegistryTypeOK
  BY RegistryInvariance, PTL DEF RegistryInv

\* However many calls of register_skill interleave or break off, the versions of
\* a skill are numbered 1, 2, 3, ...: the number is read before the row is held,
\* and it is the unique constraint on it that refuses the late ones.
THEOREM Numbered == RegistrySpec => []VersionsAreNumbered
  BY RegistryInvariance, PTL DEF RegistryInv

-----------------------------------------------------------------------------
(*****************************************************************************)
(* The chain of audit rows.                                                  *)
(*****************************************************************************)

\* A row as append_audit_entry writes it, or from before the hashes.
RowOK(e) ==
    /\ DOMAIN e = {"seq", "ws", "body", "parent", "hash"}
    /\ e.seq \in Nat /\ e.seq >= 1 /\ e.ws \in Workspaces
    /\ e.hash # NoHash => e.hash = EntryHash(e.seq, "written", e.parent)

TopHash(rows) == IF rows = {} THEN Genesis ELSE LastOf(rows).hash

\* The hashed rows that a row was appended behind: those before it that are there, and
\* the one that was removed after it had come.
Lost(e) == {r.row : r \in {x \in damage.removed : /\ x.row.ws = e.ws /\ x.row.hash # NoHash
                                                  /\ x.row.seq < e.seq /\ e.seq <= x.upTo}}
Behind(e) == {f \in Hashed(entries) : f.ws = e.ws /\ f.seq < e.seq} \cup Lost(e)

AppendingAt == {"read", "claim", "insert"}

EntriesInv ==
    /\ lastSeq \in Nat /\ IsFiniteSet(entries)
    /\ \A e \in entries : /\ RowOK(e) /\ e.seq <= lastSeq
                          /\ e.body = IF e.seq \in damage.altered THEN "altered" ELSE "written"
                          /\ e.hash # NoHash => e.parent = TopHash(Behind(e))
    /\ \A e, f \in entries : e.seq = f.seq => e = f

DamageInv ==
    /\ damage = [altered |-> damage.altered, removed |-> damage.removed]
    /\ \A s \in damage.altered : s \in Nat /\ s <= lastSeq
    /\ \A r \in damage.removed :
          /\ RowOK(r.row) /\ r.upTo \in Nat /\ r.row.seq <= r.upTo /\ r.upTo <= lastSeq
          /\ \A e \in entries : e.seq # r.row.seq
    /\ \A r, x \in damage.removed : r = x

\* The lock: who appends, or has appended, holds it.
TransInv ==
    /\ trans = [w \in Appender |-> trans[w]]
    /\ \A w \in Appender :
          LET t == trans[w] IN
          /\ DOMAIN t = {"at", "prev", "seq", "rows", "left"}
          /\ t.at \in {"open", "read", "claim", "insert", "over"} /\ t.left \in 0..MaxAppends[w]
          /\ t.at \in AppendingAt => t.left > 0
          /\ t.at \in AppendingAt \/ t.rows # {} => chainLock = w
    /\ chainLock \in Appender \cup {NoOne}

\* A number that no row has, committed or not, and that is past the damage.
FreshSeq(n) ==
    /\ n \in Nat /\ n >= 1 /\ n <= lastSeq /\ n \notin damage.altered
    /\ \A e \in entries : e.seq < n
    /\ \A r \in damage.removed : r.upTo < n

Inserted(w) ==
    LET t == trans[w] IN
    /\ IsFiniteSet(t.rows)
    /\ \A f \in t.rows : /\ RowOK(f) /\ f.ws = WorkspaceOf[w] /\ f.body = "written" /\ f.hash # NoHash
                         /\ FreshSeq(f.seq)
                         /\ f.parent = TopHash({g \in Hashed(Seen(w)) : g.seq < f.seq})
    /\ \A f, g \in t.rows : f.seq = g.seq => f = g
Claimed(w) ==
    LET t == trans[w] IN
    /\ t.at \in {"claim", "insert"} => t.prev = TopHash(Hashed(Seen(w)))
    /\ t.at = "insert" => t.seq = lastSeq /\ FreshSeq(t.seq) /\ \A f \in t.rows : f.seq < t.seq
RowsInv == \A w \in Appender : Inserted(w) /\ Claimed(w)

AuditInv == EntriesInv /\ DamageInv /\ TransInv /\ RowsInv

-----------------------------------------------------------------------------
\* The newest row of a set with numbers of at most n.
LEMMA LastExists ==
    ASSUME NEW S, S # {}, NEW n \in Nat, \A x \in S : x.seq \in Nat /\ x.seq <= n
    PROVE  LastOf(S) \in S /\ \A x \in S : x.seq <= LastOf(S).seq
  <1> DEFINE T == {n - x.seq : x \in S}
  <1>1. T \subseteq Nat /\ T # {}
    OBVIOUS
  <1>2. PICK d \in T : \A e \in T : ~(<<e, d>> \in OpToRel(<, Nat))
    <2> HIDE DEF T
    <2> QED BY <1>1, NatLessThanWellFounded, WFMin
  <1>3. PICK y \in S : d = n - y.seq
    OBVIOUS
  <1>4. \A x \in S : x.seq <= y.seq
    <2>1. SUFFICES ASSUME NEW x \in S, x.seq > y.seq PROVE FALSE
      OBVIOUS
    <2>2. n - x.seq \in T /\ n - x.seq \in Nat /\ d \in Nat /\ n - x.seq < d
      BY <1>3, <2>1
    <2>3. <<n - x.seq, d>> \in OpToRel(<, Nat)
      BY <2>2 DEF OpToRel
    <2>4. QED
      BY <1>2, <2>2, <2>3
  <1>5. QED
    BY <1>4 DEF LastOf

\* The row of a set with the least number above m.
LEMMA FirstAbove ==
    ASSUME NEW S, NEW m \in Nat, NEW z \in S, z.seq > m, \A x \in S : x.seq \in Nat
    PROVE  \E y \in S : y.seq > m /\ y.seq <= z.seq /\ \A x \in S : x.seq > m => y.seq <= x.seq
  <1> DEFINE T == {x.seq : x \in {u \in S : u.seq > m}}
  <1>1. T \subseteq Nat /\ T # {}
    OBVIOUS
  <1>2. PICK d \in T : \A e \in T : ~(<<e, d>> \in OpToRel(<, Nat))
    <2> HIDE DEF T
    <2> QED BY <1>1, NatLessThanWellFounded, WFMin
  <1>3. PICK y \in S : y.seq > m /\ d = y.seq
    OBVIOUS
  <1>4. ASSUME NEW x \in S, x.seq > m PROVE y.seq <= x.seq
    <2>1. SUFFICES ASSUME x.seq < y.seq PROVE FALSE
      OBVIOUS
    <2>2. x.seq \in T /\ x.seq \in Nat /\ d \in Nat /\ x.seq < d
      BY <1>3, <1>4, <2>1
    <2>3. <<x.seq, d>> \in OpToRel(<, Nat)
      BY <2>2 DEF OpToRel
    <2>4. QED
      BY <1>2, <2>2, <2>3
  <1>5. QED
    BY <1>3, <1>4

\* Sets of rows with the same numbers and hashes have the same top.
LEMMA TopHashSame ==
    ASSUME NEW S, NEW U, NEW n \in Nat, \A x \in S \cup U : x.seq \in Nat /\ x.seq <= n,
           \A x, y \in S : x.seq = y.seq => x = y,
           \A x \in S : \E y \in U : y.seq = x.seq /\ y.hash = x.hash,
           \A y \in U : \E x \in S : y.seq = x.seq /\ y.hash = x.hash
    PROVE  TopHash(S) = TopHash(U)
  <1>1. CASE S = {}
    BY <1>1 DEF TopHash
  <1>2. CASE S # {}
    <2>1. U # {}
      BY <1>2
    <2>2. LastOf(S) \in S /\ \A x \in S : x.seq <= LastOf(S).seq
      BY <1>2, LastExists
    <2>3. LastOf(U) \in U /\ \A x \in U : x.seq <= LastOf(U).seq
      BY <2>1, LastExists
    <2>4. PICK y \in U : y.seq = LastOf(S).seq /\ y.hash = LastOf(S).hash
      BY <2>2
    <2>5. PICK x \in S : x.seq = LastOf(U).seq /\ x.hash = LastOf(U).hash
      BY <2>3
    <2>6. x.seq <= LastOf(S).seq /\ y.seq <= LastOf(U).seq
      BY <2>2, <2>3
    <2>7. x.seq = LastOf(S).seq
      BY <2>2, <2>3, <2>4, <2>5, <2>6
    <2>8. x = LastOf(S)
      BY <2>2, <2>7
    <2>9. QED
      BY <1>2, <2>1, <2>5, <2>8 DEF TopHash
  <1>3. QED
    BY <1>1, <1>2

\* While a transaction holds the lock, no other one appends or has rows.
LEMMA SoleHolder ==
    ASSUME TransInv, NEW v \in Appender, chainLock # v
    PROVE  trans[v].rows = {} /\ trans[v].at \notin AppendingAt
  BY DEF TransInv

\* What a transaction's record consists of.
LEMMA TransFields ==
    ASSUME TransInv, NEW w \in Appender
    PROVE  DOMAIN trans[w] = {"at", "prev", "seq", "rows", "left"} /\ DOMAIN trans = Appender
  BY DEF TransInv

\* Who neither appends nor has rows is as it should be.
LEMMA IdleIsFine ==
    ASSUME NEW v \in Appender, trans[v].rows = {}, trans[v].at \notin AppendingAt
    PROVE  Inserted(v) /\ Claimed(v)
  BY FS_EmptySet DEF Inserted, Claimed, AppendingAt

\* The rows of a transaction stay good where what it sees stays.
LEMMA InsertedKept ==
    ASSUME NEW v \in Appender, Inserted(v), trans'[v].rows = trans[v].rows, Seen(v)' = Seen(v),
           \A n : FreshSeq(n) => FreshSeq(n)'
    PROVE  Inserted(v)'
  <1>1. Hashed(Seen(v))' = Hashed(Seen(v))
    BY DEF Hashed
  <1>2. QED
    BY <1>1 DEF Inserted, RowOK

\* The lock and the transactions stay in step where one of them moves on.
LEMMA TransKept ==
    ASSUME TransInv, NEW w \in Appender, NEW r, trans' = [v \in Appender |-> trans'[v]],
           \A v \in Appender : trans'[v] = IF v = w THEN r ELSE trans[v],
           DOMAIN r = {"at", "prev", "seq", "rows", "left"},
           r.at \in {"open", "read", "claim", "insert", "over"}, r.left \in 0..MaxAppends[w],
           r.at \in AppendingAt => r.left > 0,
           r.at \in AppendingAt \/ r.rows # {} => chainLock' = w,
           chainLock' \in Appender \cup {NoOne}, \A v \in Appender \ {w} : chainLock = v => chainLock' = v
    PROVE  TransInv'
  BY DEF TransInv

\* A hash is not that of no row and tells its number, body and parent.
LEMMA HashTells ==
    ASSUME NEW s, NEW b, NEW p, NEW u, NEW c, NEW q
    PROVE  /\ EntryHash(s, b, p) # Genesis /\ EntryHash(s, b, p) # NoHash
           /\ EntryHash(s, b, p) = EntryHash(u, c, q) => s = u /\ b = c /\ p = q
  <1>1. Len(EntryHash(s, b, p)) = 3 /\ Len(Genesis) = 0 /\ Len(NoHash) = 1
    BY DEF EntryHash, Genesis, NoHash
  <1>2. EntryHash(s, b, p) # Genesis /\ EntryHash(s, b, p) # NoHash
    BY <1>1
  <1>3. EntryHash(s, b, p) = EntryHash(u, c, q) => s = u /\ b = c /\ p = q
    BY DEF EntryHash
  <1>4. QED
    BY <1>2, <1>3

-----------------------------------------------------------------------------
\* The invariant holds at the start.
LEMMA AuditInvInit == AuditInit => AuditInv
  <1>1. SUFFICES ASSUME AuditInit PROVE AuditInv
    OBVIOUS
  <1>2. DamageInv
    BY <1>1 DEF AuditInit, DamageInv
  <1>a. \A w \in Appender : /\ trans[w] = [at |-> "open", prev |-> Genesis, seq |-> 0, rows |-> {}, left |-> MaxAppends[w]]
                            /\ MaxAppends[w] \in Nat
    BY <1>1, AuditAssumption DEF AuditInit
  <1>c. trans = [w \in Appender |-> trans[w]] /\ chainLock \in Appender \cup {NoOne}
    BY <1>1 DEF AuditInit
  <1>d. ASSUME NEW w \in Appender
        PROVE  /\ trans[w].at = "open" /\ trans[w].left = MaxAppends[w] /\ trans[w].rows = {} /\ MaxAppends[w] \in Nat
               /\ DOMAIN trans[w] = {"at", "prev", "seq", "rows", "left"}
    <2>1. \A x : DOMAIN [at |-> "open", prev |-> Genesis, seq |-> 0, rows |-> {}, left |-> x] = {"at", "prev", "seq", "rows", "left"}
      OBVIOUS
    <2>2. trans[w] = [at |-> "open", prev |-> Genesis, seq |-> 0, rows |-> {}, left |-> MaxAppends[w]]
      BY <1>a, <1>d
    <2>3. DOMAIN trans[w] = {"at", "prev", "seq", "rows", "left"}
      BY <2>1, <2>2
    <2>4. MaxAppends[w] \in Nat
      BY <1>a, <1>d
    <2>5. QED
      BY <2>2, <2>3, <2>4
  <1>b. TransInv
    BY <1>c, <1>d DEF TransInv, AppendingAt
  <1>3. RowsInv
    BY <1>d, IdleIsFine DEF RowsInv, AppendingAt
  <1>4. IsFiniteSet(entries) /\ lastSeq \in Nat
    <2>1. CASE entries = {} /\ lastSeq = 0
      BY <2>1, FS_EmptySet
    <2>2. ASSUME NEW ws \in Workspaces, entries = {OldRow(1, ws)}, lastSeq = 1 PROVE IsFiniteSet(entries) /\ lastSeq \in Nat
      <3>1. IsFiniteSet({OldRow(1, ws)})
        BY FS_Singleton
      <3>2. QED
        BY <2>2, <3>1
    <2>3. QED
      BY <1>1, <2>1, <2>2 DEF AuditInit
  <1>5. ASSUME NEW e \in entries
        PROVE  /\ RowOK(e) /\ e.seq <= lastSeq
               /\ e.body = IF e.seq \in damage.altered THEN "altered" ELSE "written"
               /\ e.hash # NoHash => e.parent = TopHash(Behind(e))
    <2>1. PICK ws \in Workspaces : e = OldRow(1, ws) /\ lastSeq = 1
      BY <1>1, <1>5 DEF AuditInit
    <2>2. damage.altered = {}
      BY <1>1 DEF AuditInit
    <2>3. e.hash = NoHash /\ e.seq = 1 /\ e.ws = ws /\ e.body = "written" /\ e.parent = NoHash
      BY <2>1 DEF OldRow
    <2>4. QED
      BY <2>1, <2>2, <2>3 DEF OldRow, RowOK
  <1>6. \A e, f \in entries : e.seq = f.seq => e = f
    BY <1>1 DEF AuditInit
  <1>7. QED
    BY <1>2, <1>b, <1>3, <1>4, <1>5, <1>6 DEF AuditInv, EntriesInv

\* Where only the sequence moves, the rows are as they were.
LEMMA EntriesKept ==
    ASSUME AuditInv, UNCHANGED <<entries, damage>>, lastSeq' \in Nat, lastSeq' >= lastSeq
    PROVE  EntriesInv' /\ DamageInv'
  <1>1. \A e : Behind(e)' = Behind(e)
    BY DEF Behind, Lost, Hashed
  <1>2. EntriesInv'
    <2>1. lastSeq \in Nat /\ \A e \in entries : e.seq \in Nat /\ e.seq <= lastSeq
      BY DEF AuditInv, EntriesInv, RowOK
    <2>2. \A e \in entries : e.hash # NoHash => e.parent = TopHash(Behind(e)')
      BY <1>1 DEF AuditInv, EntriesInv
    <2>3. \A e \in entries : e.seq <= lastSeq'
      BY <2>1
    <2>4. QED
      BY <2>2, <2>3 DEF AuditInv, EntriesInv, RowOK
  <1>3. DamageInv'
    BY DEF AuditInv, EntriesInv, DamageInv, RowOK
  <1>4. QED
    BY <1>2, <1>3

\* Taking the lock.
LEMMA LockStep ==
    ASSUME AuditInv, NEW w \in Appender, LockChain(w)
    PROVE  AuditInv'
  <1>1. EntriesInv' /\ DamageInv'
    BY EntriesKept DEF LockChain, AuditInv, EntriesInv
  <1>2. \A v \in Appender : trans'[v] = IF v = w THEN [trans[w] EXCEPT !.at = "read"] ELSE trans[v]
    BY DEF LockChain, AuditInv, TransInv
  <1>3. TransInv'
    <2>1. \A v \in Appender \ {w} : trans[v].rows = {} /\ trans[v].at \notin AppendingAt
      BY AuditAssumption DEF LockChain, LockFree, AuditInv, TransInv
    <2>2. QED
      BY <1>2, <2>1 DEF LockChain, AuditInv, TransInv, AppendingAt
  <1>4. ASSUME NEW v \in Appender PROVE Inserted(v)' /\ Claimed(v)'
    <2>1. trans'[v].rows = trans[v].rows /\ (v = w => trans'[v].at = "read") /\ (v # w => trans'[v] = trans[v])
      BY <1>2, <1>4, TransFields DEF AuditInv
    <2>2. Seen(v)' = Seen(v) /\ \A n : FreshSeq(n)' <=> FreshSeq(n)
      BY <2>1 DEF LockChain, Seen, FreshSeq
    <2>3. Inserted(v)'
      BY <2>1, <2>2 DEF AuditInv, RowsInv, Inserted, Hashed, LockChain, RowOK
    <2>4. Claimed(v)'
      BY <2>1, <2>2 DEF AuditInv, RowsInv, Claimed, LockChain, Hashed
    <2>5. QED
      BY <2>3, <2>4
  <1>5. QED
    BY <1>1, <1>3, <1>4 DEF AuditInv, RowsInv

\* Reading the hash of the newest row.
LEMMA ReadStep ==
    ASSUME AuditInv, NEW w \in Appender, ReadPrev(w)
    PROVE  AuditInv'
  <1>1. EntriesInv' /\ DamageInv'
    BY EntriesKept DEF ReadPrev, AuditInv, EntriesInv
  <1>2. \A v \in Appender : trans'[v] = IF v = w THEN [trans[w] EXCEPT !.at = "claim", !.prev = TopHash(Hashed(Seen(w)))]
                                       ELSE trans[v]
    BY DEF ReadPrev, AuditInv, TransInv, TopHash
  <1>3. TransInv'
    BY <1>2 DEF ReadPrev, AuditInv, TransInv, AppendingAt
  <1>4. ASSUME NEW v \in Appender PROVE Inserted(v)' /\ Claimed(v)'
    <2>1. /\ trans'[v].rows = trans[v].rows /\ (v # w => trans'[v] = trans[v])
          /\ v = w => trans'[v].at = "claim" /\ trans'[v].prev = TopHash(Hashed(Seen(v)))
      BY <1>2, <1>4, TransFields DEF AuditInv
    <2>2. Seen(v)' = Seen(v) /\ \A n : FreshSeq(n)' <=> FreshSeq(n)
      BY <2>1 DEF ReadPrev, Seen, FreshSeq
    <2>3. Inserted(v)'
      BY <2>1, <2>2, InsertedKept DEF AuditInv, RowsInv
    <2>4. Hashed(Seen(v))' = Hashed(Seen(v))
      BY <2>2 DEF Hashed
    <2>5. Claimed(v)'
      BY <2>1, <2>2, <2>4 DEF AuditInv, RowsInv, Claimed, ReadPrev
    <2>6. QED
      BY <2>3, <2>5
  <1>5. QED
    BY <1>1, <1>3, <1>4 DEF AuditInv, RowsInv

\* Claiming a number: it is past every row and the damage.
LEMMA ClaimStep ==
    ASSUME AuditInv, NEW w \in Appender, ClaimSeq(w)
    PROVE  AuditInv'
  <1>0. lastSeq \in Nat /\ lastSeq' = lastSeq + 1 /\ UNCHANGED <<entries, chainLock, damage>>
    BY DEF ClaimSeq, AuditInv, EntriesInv
  <1>1. EntriesInv' /\ DamageInv'
    BY <1>0, EntriesKept
  <1>2. \A v \in Appender : trans'[v] = IF v = w THEN [trans[w] EXCEPT !.at = "insert", !.seq = lastSeq'] ELSE trans[v]
    BY <1>0 DEF ClaimSeq, AuditInv, TransInv
  <1>3. TransInv'
    BY <1>2 DEF ClaimSeq, AuditInv, TransInv, AppendingAt
  <1>4. ASSUME NEW v \in Appender PROVE Inserted(v)' /\ Claimed(v)'
    <2>1. /\ trans'[v].rows = trans[v].rows /\ (v # w => trans'[v] = trans[v])
          /\ v = w => trans'[v].at = "insert" /\ trans'[v].prev = trans[v].prev /\ trans'[v].seq = lastSeq'
      BY <1>2, <1>4, TransFields DEF AuditInv
    <2>2. Seen(v)' = Seen(v) /\ \A n : FreshSeq(n) => FreshSeq(n)' /\ n <= lastSeq
      BY <1>0, <2>1 DEF Seen, FreshSeq
    <2>3. Hashed(Seen(v))' = Hashed(Seen(v))
      BY <2>2 DEF Hashed
    <2>4. Inserted(v)
      BY DEF AuditInv, RowsInv
    <2>5. Inserted(v)'
      BY <2>1, <2>2, <2>3, <2>4 DEF Inserted, RowOK
    <2>6. CASE v = w
      <3>1. FreshSeq(lastSeq)'
        <4>1. \A e \in entries : e.seq \in Nat /\ e.seq <= lastSeq
          BY DEF AuditInv, EntriesInv, RowOK
        <4>2. (\A s \in damage.altered : s <= lastSeq /\ s \in Nat) /\ \A x \in damage.removed : x.upTo \in Nat /\ x.upTo <= lastSeq
          BY DEF AuditInv, DamageInv
        <4>3. lastSeq + 1 \notin damage.altered
          BY <1>0, <4>2
        <4>4. QED
          BY <1>0, <4>1, <4>2, <4>3 DEF FreshSeq
      <3>2. \A f \in trans[v].rows : f.seq \in Nat /\ f.seq < lastSeq'
        <4>1. \A f \in trans[v].rows : f.seq \in Nat /\ FreshSeq(f.seq)
          BY <2>4 DEF Inserted, RowOK
        <4>2. QED
          BY <1>0, <4>1 DEF FreshSeq
      <3>3. trans[v].prev = TopHash(Hashed(Seen(v)))
        BY <2>6 DEF AuditInv, RowsInv, Claimed, ClaimSeq
      <3>4. QED
        BY <1>0, <2>1, <2>3, <2>5, <2>6, <3>1, <3>2, <3>3 DEF Claimed
    <2>7. CASE v # w
      <3>1. trans[v].rows = {} /\ trans[v].at \notin AppendingAt
        BY <2>7, SoleHolder DEF ClaimSeq, AuditInv, TransInv, AppendingAt
      <3>2. trans'[v].at # "claim" /\ trans'[v].at # "insert"
        BY <2>1, <2>7, <3>1 DEF AppendingAt
      <3>3. QED
        BY <2>5, <3>2 DEF Claimed
    <2>8. QED
      BY <2>5, <2>6, <2>7
  <1>5. QED
    BY <1>1, <1>3, <1>4 DEF AuditInv, RowsInv

\* The new row is behind what its transaction sees.
LEMMA InsertStep ==
    ASSUME AuditInv, NEW w \in Appender, InsertEntry(w)
    PROVE  AuditInv'
  <1> DEFINE z == NewRow(w)
  <1>0. UNCHANGED <<entries, lastSeq, chainLock, damage>> /\ trans[w].at = "insert"
    BY DEF InsertEntry
  <1>1. EntriesInv' /\ DamageInv'
    BY <1>0, EntriesKept DEF AuditInv, EntriesInv
  <1>2. \A v \in Appender : trans'[v] = IF v = w THEN [trans[w] EXCEPT !.at = "open", !.rows = @ \cup {z}, !.left = @ - 1]
                                       ELSE trans[v]
    BY DEF InsertEntry, AuditInv, TransInv
  <1>3. TransInv'
    <2>1. chainLock = w /\ trans[w].left > 0
      BY <1>0 DEF AuditInv, TransInv, AppendingAt
    <2>2. DOMAIN trans[w] = {"at", "prev", "seq", "rows", "left"} /\ trans[w].left \in 0..MaxAppends[w]
      BY DEF AuditInv, TransInv
    <2>3. MaxAppends[w] \in Nat
      BY AuditAssumption
    <2> DEFINE r == [trans[w] EXCEPT !.at = "open", !.rows = @ \cup {z}, !.left = @ - 1]
    <2>4. r.at = "open" /\ r.left = trans[w].left - 1 /\ DOMAIN r = DOMAIN trans[w]
      BY <2>2
    <2>5. trans' = [v \in Appender |-> trans'[v]] /\ "open" \notin AppendingAt
      BY DEF InsertEntry, AuditInv, TransInv, AppendingAt
    <2>6. r.left \in 0..MaxAppends[w]
      BY <2>1, <2>2, <2>3, <2>4
    <2>a. \A v \in Appender : trans'[v] = IF v = w THEN r ELSE trans[v]
      BY <1>2
    <2> HIDE DEF r
    <2>7. QED
      BY <1>0, <2>1, <2>2, <2>4, <2>5, <2>6, <2>a, TransKept DEF AuditInv, TransInv
  <1>4. ASSUME NEW v \in Appender PROVE Inserted(v)' /\ Claimed(v)'
    <2>1. CASE v # w
      <3>1. trans[v].rows = {} /\ trans[v].at \notin AppendingAt
        BY <1>0, <2>1, SoleHolder DEF AuditInv, TransInv, AppendingAt
      <3>2. trans'[v].rows = {} /\ trans'[v].at \notin AppendingAt
        BY <1>2, <2>1, <3>1
      <3>3. QED
        BY <3>2, FS_EmptySet DEF Inserted, Claimed, AppendingAt
    <2>2. CASE v = w
      <3>1. trans'[w].rows = trans[w].rows \cup {z} /\ trans'[w].at = "open"
        BY <1>2 DEF AuditInv, TransInv
      <3>2. Claimed(w)'
        BY <3>1 DEF Claimed
      <3>3. Inserted(w) /\ Claimed(w)
        BY DEF AuditInv, RowsInv
      <3>4. /\ z.seq = trans[w].seq /\ z.ws = WorkspaceOf[w] /\ z.body = "written" /\ z.parent = trans[w].prev
            /\ z.hash = EntryHash(trans[w].seq, "written", trans[w].prev)
            /\ DOMAIN z = {"seq", "ws", "body", "parent", "hash"}
        BY DEF NewRow
      <3>5. z.hash # NoHash
        BY <3>4, HashTells
      <3>6. FreshSeq(z.seq) /\ \A f \in trans[w].rows : f.seq < z.seq /\ f.seq \in Nat
        BY <1>0, <3>3, <3>4 DEF Claimed, Inserted, RowOK
      <3>7. RowOK(z)
        BY <3>4, <3>6 DEF RowOK, FreshSeq, Workspaces
      <3>8. Seen(w)' = Seen(w) \cup {z} /\ \A n : FreshSeq(n)' <=> FreshSeq(n)
        BY <1>0, <3>1 DEF Seen, FreshSeq
      <3>9. \A g \in Seen(w) : g.seq < z.seq /\ g.seq \in Nat
        BY <3>6 DEF Seen, FreshSeq, AuditInv, EntriesInv, RowOK
      <3>a. z.seq \in Nat
        BY <3>6 DEF FreshSeq
      <3>10. {g \in Hashed(Seen(w))' : g.seq < z.seq} = Hashed(Seen(w))
        BY <3>8, <3>9, <3>a DEF Hashed
      <3>11. \A f \in trans[w].rows : {g \in Hashed(Seen(w))' : g.seq < f.seq} = {g \in Hashed(Seen(w)) : g.seq < f.seq}
        BY <3>6, <3>8, <3>a DEF Hashed
      <3>12. z.parent = TopHash(Hashed(Seen(w)))
        BY <1>0, <3>3, <3>4 DEF Claimed
      <3>13. IsFiniteSet(trans'[w].rows)
        BY <3>1, <3>3, FS_AddElement DEF Inserted
      <3>14. \A f \in trans'[w].rows : f.parent = TopHash({g \in Hashed(Seen(w))' : g.seq < f.seq})
        BY <3>1, <3>3, <3>10, <3>11, <3>12 DEF Inserted
      <3>15. \A f \in trans'[w].rows : /\ RowOK(f) /\ f.ws = WorkspaceOf[w] /\ f.body = "written" /\ f.hash # NoHash
                                       /\ FreshSeq(f.seq)'
        BY <3>1, <3>3, <3>4, <3>5, <3>6, <3>7, <3>8 DEF Inserted
      <3>16. \A f, g \in trans'[w].rows : f.seq = g.seq => f = g
        BY <3>1, <3>3, <3>6, <3>a DEF Inserted
      <3>17. Inserted(w)'
        BY <3>13, <3>14, <3>15, <3>16 DEF Inserted, RowOK, Hashed
      <3>18. QED
        BY <2>2, <3>2, <3>17
    <2>3. QED
      BY <2>1, <2>2
  <1>5. QED
    BY <1>1, <1>3, <1>4 DEF AuditInv, RowsInv

\* A refused insert leaves what came before it.
LEMMA RefuseStep ==
    ASSUME AuditInv, NEW w \in Appender, InsertRefused(w)
    PROVE  AuditInv'
  <1>0. UNCHANGED <<entries, lastSeq, damage>> /\ trans[w].at = "insert"
    BY DEF InsertRefused
  <1>1. EntriesInv' /\ DamageInv'
    BY <1>0, EntriesKept DEF AuditInv, EntriesInv
  <1>2. \A v \in Appender : trans'[v] = IF v = w THEN [trans[w] EXCEPT !.at = "open", !.left = @ - 1] ELSE trans[v]
    BY DEF InsertRefused, AuditInv, TransInv
  <1>3. chainLock = w /\ trans[w].left > 0
    BY <1>0 DEF AuditInv, TransInv, AppendingAt
  <1>4. \A v \in Appender \ {w} : trans[v].rows = {} /\ trans[v].at \notin AppendingAt
    BY <1>3, SoleHolder DEF AuditInv
  <1>5. TransInv'
    <2>2. DOMAIN trans[w] = {"at", "prev", "seq", "rows", "left"} /\ trans[w].left \in 0..MaxAppends[w]
      BY DEF AuditInv, TransInv
    <2>3. MaxAppends[w] \in Nat
      BY AuditAssumption
    <2> DEFINE r == [trans[w] EXCEPT !.at = "open", !.left = @ - 1]
    <2>4. r.at = "open" /\ r.left = trans[w].left - 1 /\ r.rows = trans[w].rows /\ DOMAIN r = DOMAIN trans[w]
      BY <2>2
    <2>5. trans' = [v \in Appender |-> trans'[v]] /\ "open" \notin AppendingAt
      BY DEF InsertRefused, AuditInv, TransInv, AppendingAt
    <2>6. r.left \in 0..MaxAppends[w]
      BY <1>3, <2>2, <2>3, <2>4
    <2>a. \A v \in Appender : trans'[v] = IF v = w THEN r ELSE trans[v]
      BY <1>2
    <2>b. chainLock' = IF trans[w].rows = {} THEN NoOne ELSE w
      BY <1>3 DEF InsertRefused
    <2>c. \A v \in Appender \ {w} : chainLock # v
      BY <1>3
    <2> HIDE DEF r
    <2>7. QED
      BY <2>2, <2>4, <2>5, <2>6, <2>a, <2>b, <2>c, TransKept DEF AuditInv
  <1>6. ASSUME NEW v \in Appender PROVE Inserted(v)' /\ Claimed(v)'
    <2>1. trans'[v].rows = trans[v].rows /\ (v = w => trans'[v].at = "open") /\ (v # w => trans'[v] = trans[v])
      BY <1>2, <1>6, TransFields DEF AuditInv
    <2>2. Seen(v)' = Seen(v) /\ \A n : FreshSeq(n)' <=> FreshSeq(n)
      BY <1>0, <2>1 DEF Seen, FreshSeq
    <2>3. Inserted(v)'
      BY <2>1, <2>2, InsertedKept DEF AuditInv, RowsInv
    <2>4. Claimed(v)'
      BY <1>4, <2>1 DEF Claimed, AppendingAt
    <2>5. QED
      BY <2>3, <2>4
  <1>7. QED
    BY <1>1, <1>5, <1>6 DEF AuditInv, RowsInv

\* The end of a transaction without rows to keep.
LEMMA RollStep ==
    ASSUME AuditInv, NEW w \in Appender, RollEntries(w)
    PROVE  AuditInv'
  <1>0. UNCHANGED <<entries, lastSeq, damage>>
    BY DEF RollEntries
  <1>1. EntriesInv' /\ DamageInv'
    BY <1>0, EntriesKept DEF AuditInv, EntriesInv
  <1>2. \A v \in Appender : trans'[v] = IF v = w THEN [trans[w] EXCEPT !.at = "over", !.rows = {}] ELSE trans[v]
    BY DEF RollEntries, AuditInv, TransInv
  <1>3. TransInv'
    BY <1>2 DEF RollEntries, Unlocked, AuditInv, TransInv, AppendingAt
  <1>4. ASSUME NEW v \in Appender PROVE Inserted(v)' /\ Claimed(v)'
    <2>1. (v = w => trans'[v].at = "over" /\ trans'[v].rows = {}) /\ (v # w => trans'[v] = trans[v])
      BY <1>2, <1>4, TransFields DEF AuditInv
    <2>2. v # w => Seen(v)' = Seen(v) /\ \A n : FreshSeq(n)' <=> FreshSeq(n)
      BY <1>0, <2>1 DEF Seen, FreshSeq
    <2>3. CASE v = w
      BY <2>1, <2>3, FS_EmptySet DEF Inserted, Claimed
    <2>4. CASE v # w
      BY <1>0, <2>1, <2>2, <2>4 DEF AuditInv, RowsInv, Inserted, Claimed, Hashed, RowOK
    <2>5. QED
      BY <2>3, <2>4
  <1>5. QED
    BY <1>1, <1>3, <1>4 DEF AuditInv, RowsInv

\* Committed rows come behind every row and past the damage.
LEMMA CommitStep ==
    ASSUME AuditInv, NEW w \in Appender, CommitEntries(w)
    PROVE  AuditInv'
  <1> DEFINE R == trans[w].rows
  <1>0. /\ UNCHANGED <<lastSeq, damage>> /\ entries' = entries \cup R /\ R # {}
        /\ trans[w].at = "open" /\ chainLock = w /\ chainLock' = NoOne
    BY DEF CommitEntries, Unlocked, AuditInv, TransInv
  <1>1. \A v \in Appender : trans'[v] = IF v = w THEN [trans[w] EXCEPT !.at = "over", !.rows = {}] ELSE trans[v]
    BY DEF CommitEntries, AuditInv, TransInv
  <1>2. \A v \in Appender \ {w} : trans[v].rows = {} /\ trans[v].at \notin AppendingAt
    BY <1>0, SoleHolder DEF AuditInv
  <1>3. \A v \in Appender : trans'[v].rows = {} /\ trans'[v].at \notin AppendingAt
    BY <1>1, <1>2, TransFields DEF AuditInv, AppendingAt
  <1>4. TransInv'
    <2>1. DOMAIN trans[w] = {"at", "prev", "seq", "rows", "left"} /\ trans[w].left \in 0..MaxAppends[w]
      BY DEF AuditInv, TransInv
    <2> DEFINE r == [trans[w] EXCEPT !.at = "over", !.rows = {}]
    <2>2. r.at = "over" /\ r.left = trans[w].left /\ r.rows = {} /\ DOMAIN r = DOMAIN trans[w] /\ "over" \notin AppendingAt
      BY <2>1 DEF AppendingAt
    <2>3. trans' = [v \in Appender |-> trans'[v]]
      BY DEF CommitEntries, AuditInv, TransInv
    <2>4. \A v \in Appender : trans'[v] = IF v = w THEN r ELSE trans[v]
      BY <1>1
    <2>5. \A v \in Appender \ {w} : chainLock # v
      BY <1>0
    <2> HIDE DEF r
    <2>6. QED
      BY <1>0, <2>1, <2>2, <2>3, <2>4, <2>5, TransKept DEF AuditInv
  <1>5. RowsInv'
    <2>1. ASSUME NEW v \in Appender PROVE Inserted(v)' /\ Claimed(v)'
      BY <1>3, <2>1, FS_EmptySet DEF Inserted, Claimed, AppendingAt
    <2>2. QED
      BY <2>1 DEF RowsInv
  <1>6. Inserted(w)
    BY DEF AuditInv, RowsInv
  <1>7. \A f \in R : /\ RowOK(f) /\ f.ws = WorkspaceOf[w] /\ f.body = "written" /\ f.seq \in Nat /\ f.seq <= lastSeq
                     /\ f.seq \notin damage.altered /\ (\A e \in entries : e.seq < f.seq)
                     /\ (\A r \in damage.removed : r.upTo < f.seq)
    BY <1>6 DEF Inserted, FreshSeq, RowOK
  <1>8. \A e \in entries : RowOK(e) /\ e.seq \in Nat /\ e.seq <= lastSeq
    BY DEF AuditInv, EntriesInv, RowOK
  <1>9. DamageInv'
    <2>1. \A r \in damage.removed : r.row.seq \in Nat /\ r.upTo \in Nat /\ r.row.seq <= r.upTo
      BY DEF AuditInv, DamageInv, RowOK
    <2>2. \A r \in damage.removed : \A e \in entries' : e.seq # r.row.seq
      BY <1>0, <1>7, <2>1 DEF AuditInv, DamageInv
    <2>3. QED
      BY <1>0, <2>2 DEF AuditInv, DamageInv, RowOK
  <1>10. \A e \in entries : Behind(e)' = Behind(e)
    <2>1. SUFFICES ASSUME NEW e \in entries PROVE Behind(e)' = Behind(e)
      OBVIOUS
    <2>2. {g \in Hashed(entries)' : g.ws = e.ws /\ g.seq < e.seq} = {g \in Hashed(entries) : g.ws = e.ws /\ g.seq < e.seq}
      BY <1>0, <1>7, <1>8 DEF Hashed
    <2>3. Lost(e)' = Lost(e)
      BY <1>0 DEF Lost
    <2>4. QED
      BY <2>2, <2>3 DEF Behind
  <1>11. \A f \in R : Behind(f)' = {g \in Hashed(Seen(w)) : g.seq < f.seq}
    <2>1. SUFFICES ASSUME NEW f \in R PROVE Behind(f)' = {g \in Hashed(Seen(w)) : g.seq < f.seq}
      OBVIOUS
    <2>2. Lost(f)' = {}
      BY <1>0, <1>7 DEF Lost, AuditInv, DamageInv
    <2>3. {g \in Hashed(entries)' : g.ws = f.ws /\ g.seq < f.seq} = {g \in Hashed(Seen(w)) : g.seq < f.seq}
      BY <1>0, <1>7 DEF Hashed, Seen
    <2>4. QED
      BY <2>2, <2>3 DEF Behind
  <1>12. \A e \in entries' : /\ RowOK(e) /\ e.seq <= lastSeq
                             /\ e.body = IF e.seq \in damage.altered THEN "altered" ELSE "written"
                             /\ e.hash # NoHash => e.parent = TopHash(Behind(e)')
    <2>1. SUFFICES ASSUME NEW e \in entries'
                   PROVE  /\ RowOK(e) /\ e.seq <= lastSeq
                          /\ e.body = IF e.seq \in damage.altered THEN "altered" ELSE "written"
                          /\ e.hash # NoHash => e.parent = TopHash(Behind(e)')
      OBVIOUS
    <2>2. CASE e \in entries
      BY <1>10, <2>2 DEF AuditInv, EntriesInv
    <2>3. CASE e \in R
      <3>1. e.parent = TopHash({g \in Hashed(Seen(w)) : g.seq < e.seq})
        BY <1>6, <2>3 DEF Inserted
      <3>2. QED
        BY <1>7, <1>11, <2>3, <3>1
    <2>4. QED
      BY <1>0, <2>2, <2>3
  <1>13. \A e, f \in entries' : e.seq = f.seq => e = f
    <2>1. \A e, f \in entries : e.seq = f.seq => e = f
      BY DEF AuditInv, EntriesInv
    <2>2. \A e, f \in R : e.seq = f.seq => e = f
      BY <1>6 DEF Inserted
    <2>3. \A e \in entries : \A f \in R : e.seq # f.seq
      BY <1>7, <1>8
    <2>4. QED
      BY <1>0, <2>1, <2>2, <2>3
  <1>14. IsFiniteSet(entries')
    BY <1>0, <1>6, FS_Union DEF AuditInv, EntriesInv, Inserted
  <1>15. EntriesInv'
    BY <1>0, <1>12, <1>13, <1>14 DEF EntriesInv, RowOK, AuditInv
  <1>16. QED
    BY <1>4, <1>5, <1>9, <1>15 DEF AuditInv

\* While nobody holds the lock, nobody appends or has rows; damage changes none of that.
LEMMA IdleKept ==
    ASSUME AuditInv, chainLock = NoOne, UNCHANGED <<lastSeq, chainLock, trans>>
    PROVE  TransInv' /\ RowsInv'
  <1>1. \A v \in Appender : trans'[v].rows = {} /\ trans'[v].at \notin AppendingAt
    BY AuditAssumption, SoleHolder DEF AuditInv
  <1>2. TransInv'
    BY DEF AuditInv, TransInv
  <1>3. ASSUME NEW v \in Appender PROVE Inserted(v)' /\ Claimed(v)'
    BY <1>1, <1>3, FS_EmptySet DEF Inserted, Claimed, AppendingAt
  <1>4. QED
    BY <1>2, <1>3 DEF RowsInv

\* An altered body leaves the numbers and the hashes.
LEMMA AlterStep ==
    ASSUME AuditInv, NEW a \in entries, AlterEntry(a)
    PROVE  AuditInv'
  <1> DEFINE z == [a EXCEPT !.body = "altered"]
  <1>0. /\ entries' = (entries \ {a}) \cup {z} /\ UNCHANGED <<lastSeq, chainLock, trans>> /\ chainLock = NoOne
        /\ damage.altered = {} /\ damage.removed = {}
    BY DEF AlterEntry, Intact
  <1>1. damage'.altered = {a.seq} /\ damage'.removed = {} /\ damage' = [altered |-> damage'.altered, removed |-> damage'.removed]
    BY <1>0 DEF AlterEntry, AuditInv, DamageInv
  <1>2. \A e \in entries : RowOK(e) /\ e.seq \in Nat /\ e.seq <= lastSeq
    BY DEF AuditInv, EntriesInv, RowOK
  <1>3. /\ z.seq = a.seq /\ z.ws = a.ws /\ z.body = "altered" /\ z.parent = a.parent /\ z.hash = a.hash
        /\ DOMAIN z = DOMAIN a
    BY <1>2 DEF RowOK
  <1>4. \A e, f \in entries : e.seq = f.seq => e = f
    BY DEF AuditInv, EntriesInv
  <1> HIDE DEF z
  <1>5. TransInv' /\ RowsInv'
    BY <1>0, IdleKept
  <1>6. DamageInv'
    BY <1>0, <1>1, <1>2 DEF DamageInv
  <1>7. \A e : Lost(e) = {} /\ Lost(e)' = {}
    BY <1>0, <1>1 DEF Lost
  <1>8. \A f : TopHash(Behind(f)') = TopHash(Behind(f)) \/ f.seq \notin Nat
    <2>1. SUFFICES ASSUME NEW f, f.seq \in Nat PROVE TopHash(Behind(f)') = TopHash(Behind(f))
      OBVIOUS
    <2> DEFINE S == {g \in Hashed(entries) : g.ws = f.ws /\ g.seq < f.seq}
               U == {g \in Hashed(entries') : g.ws = f.ws /\ g.seq < f.seq}
    <2>2. Behind(f) = S /\ Behind(f)' = U
      BY <1>7 DEF Behind, Hashed
    <2>3. \A x \in S \cup U : x.seq \in Nat /\ x.seq <= lastSeq
      BY <1>0, <1>2, <1>3 DEF Hashed
    <2>4. \A x, y \in S : x.seq = y.seq => x = y
      BY <1>4 DEF Hashed
    <2>5. ASSUME NEW x \in S PROVE \E y \in U : y.seq = x.seq /\ y.hash = x.hash
      <3>1. CASE x = a
        BY <1>0, <1>3, <3>1 DEF Hashed
      <3>2. CASE x # a
        BY <1>0, <3>2 DEF Hashed
      <3>3. QED
        BY <3>1, <3>2
    <2>6. ASSUME NEW y \in U PROVE \E x \in S : y.seq = x.seq /\ y.hash = x.hash
      <3>1. CASE y = z
        BY <1>0, <1>3, <3>1 DEF Hashed
      <3>2. CASE y # z
        BY <1>0, <3>2 DEF Hashed
      <3>3. QED
        BY <3>1, <3>2
    <2>7. lastSeq \in Nat
      BY DEF AuditInv, EntriesInv
    <2> HIDE DEF S, U
    <2>8. TopHash(S) = TopHash(U)
      BY <2>3, <2>4, <2>5, <2>6, <2>7, TopHashSame
    <2>9. QED
      BY <2>2, <2>8
  <1>9. ASSUME NEW e \in entries'
        PROVE  /\ RowOK(e) /\ e.seq <= lastSeq
               /\ e.body = IF e.seq \in damage'.altered THEN "altered" ELSE "written"
               /\ e.hash # NoHash => e.parent = TopHash(Behind(e)')
    <2>1. PICK d \in entries : /\ e.seq = d.seq /\ e.ws = d.ws /\ e.parent = d.parent /\ e.hash = d.hash
                               /\ DOMAIN e = DOMAIN d /\ (d = a => e = z) /\ (d # a => e = d)
      BY <1>0, <1>3, <1>9
    <2>2. Behind(e) = Behind(d)
      BY <2>1 DEF Behind, Lost
    <2>3. d.hash # NoHash => d.parent = TopHash(Behind(d))
      BY DEF AuditInv, EntriesInv
    <2>4. e.hash # NoHash => e.parent = TopHash(Behind(e)')
      BY <1>2, <1>8, <2>1, <2>2, <2>3
    <2>5. d.body = "written"
      BY <1>0 DEF AuditInv, EntriesInv
    <2>6. d # a => d.seq # a.seq
      BY <1>4
    <2>7. e.body = IF e.seq \in damage'.altered THEN "altered" ELSE "written"
      BY <1>1, <1>3, <2>1, <2>5, <2>6
    <2>8. QED
      BY <1>2, <2>1, <2>4, <2>7 DEF RowOK
  <1>10. \A e, f \in entries' : e.seq = f.seq => e = f
    BY <1>0, <1>3, <1>4
  <1>11. IsFiniteSet(entries')
    <2>1. IsFiniteSet(entries \ {a})
      BY FS_Subset DEF AuditInv, EntriesInv
    <2>2. QED
      BY <1>0, <2>1, FS_AddElement
  <1>12. EntriesInv'
    BY <1>0, <1>9, <1>10, <1>11 DEF EntriesInv, RowOK, AuditInv
  <1>13. QED
    BY <1>5, <1>6, <1>12 DEF AuditInv

\* A removed row stays behind those that came after it.
LEMMA RemoveStep ==
    ASSUME AuditInv, NEW a \in entries, RemoveEntry(a)
    PROVE  AuditInv'
  <1>0. /\ entries' = entries \ {a} /\ UNCHANGED <<lastSeq, chainLock, trans>> /\ chainLock = NoOne
        /\ damage.altered = {} /\ damage.removed = {}
    BY DEF RemoveEntry, Intact
  <1>1. /\ damage'.altered = {} /\ damage'.removed = {[row |-> a, upTo |-> lastSeq]}
        /\ damage' = [altered |-> damage'.altered, removed |-> damage'.removed]
    BY <1>0 DEF RemoveEntry, AuditInv, DamageInv
  <1>2. lastSeq \in Nat /\ \A e \in entries : RowOK(e) /\ e.seq \in Nat /\ e.seq <= lastSeq
    BY DEF AuditInv, EntriesInv, RowOK
  <1>3. \A e, f \in entries : e.seq = f.seq => e = f
    BY DEF AuditInv, EntriesInv
  <1>4. TransInv' /\ RowsInv'
    BY <1>0, IdleKept
  <1>5. DamageInv'
    <2>1. \A r \in damage'.removed : r.row = a /\ r.upTo = lastSeq /\ r = [row |-> a, upTo |-> lastSeq]
      BY <1>1
    <2>2. \A e \in entries' : e.seq # a.seq
      BY <1>0, <1>3
    <2>3. QED
      BY <1>0, <1>1, <1>2, <2>1, <2>2 DEF DamageInv, RowOK
  <1>6. ASSUME NEW e \in entries' PROVE Behind(e)' = Behind(e)
    <2>1. Lost(e) = {}
      BY <1>0 DEF Lost
    <2>a. \A x \in damage'.removed : x.row = a /\ x.upTo = lastSeq
      BY <1>1
    <2>b. e.seq <= lastSeq
      BY <1>0, <1>2, <1>6
    <2>c. \A g : g \in Lost(e)' <=> g = a /\ a.ws = e.ws /\ a.hash # NoHash /\ a.seq < e.seq
      BY <1>1, <2>a, <2>b DEF Lost
    <2>2. Lost(e)' = IF a.ws = e.ws /\ a.hash # NoHash /\ a.seq < e.seq THEN {a} ELSE {}
      BY <2>c
    <2>3. QED
      BY <1>0, <2>1, <2>2 DEF Behind, Hashed
  <1>7. ASSUME NEW e \in entries'
        PROVE  /\ RowOK(e) /\ e.seq <= lastSeq
               /\ e.body = IF e.seq \in damage'.altered THEN "altered" ELSE "written"
               /\ e.hash # NoHash => e.parent = TopHash(Behind(e)')
    BY <1>0, <1>1, <1>6, <1>7 DEF AuditInv, EntriesInv
  <1>8. IsFiniteSet(entries')
    BY <1>0, FS_Subset DEF AuditInv, EntriesInv
  <1>9. EntriesInv'
    BY <1>0, <1>3, <1>7, <1>8 DEF EntriesInv, RowOK, AuditInv
  <1>10. QED
    BY <1>4, <1>5, <1>9 DEF AuditInv

\* Every step preserves the invariant.
LEMMA AuditInvStep == AuditInv /\ [AuditNext]_auditVars => AuditInv'
  <1>1. SUFFICES ASSUME AuditInv, [AuditNext]_auditVars PROVE AuditInv'
    OBVIOUS
  <1>2. CASE UNCHANGED auditVars
    <2>1. UNCHANGED <<entries, lastSeq, chainLock, trans, damage>>
      BY <1>2 DEF auditVars
    <2>2. EntriesInv' /\ DamageInv'
      BY <1>1, <2>1, EntriesKept DEF AuditInv, EntriesInv
    <2>3. TransInv'
      BY <1>1, <2>1 DEF AuditInv, TransInv
    <2>4. ASSUME NEW v \in Appender PROVE Inserted(v)' /\ Claimed(v)'
      <3>1. Seen(v)' = Seen(v) /\ \A n : FreshSeq(n)' <=> FreshSeq(n)
        BY <2>1 DEF Seen, FreshSeq
      <3>2. Hashed(Seen(v))' = Hashed(Seen(v))
        BY <3>1 DEF Hashed
      <3>3. Inserted(v)'
        BY <1>1, <2>1, <3>1, InsertedKept DEF AuditInv, RowsInv
      <3>4. Claimed(v)'
        BY <1>1, <2>1, <3>1, <3>2 DEF AuditInv, RowsInv, Claimed
      <3>5. QED
        BY <3>3, <3>4
    <2>5. QED
      BY <2>2, <2>3, <2>4 DEF AuditInv, RowsInv
  <1>3. CASE AuditNext
    BY <1>1, <1>3, LockStep, ReadStep, ClaimStep, InsertStep, RefuseStep, CommitStep, RollStep, AlterStep, RemoveStep
       DEF AuditNext
  <1>4. QED
    BY <1>1, <1>2, <1>3

\* AuditInv is an invariant of the audit chain.
THEOREM AuditInvariance == AuditSpec => []AuditInv
  BY AuditInvInit, AuditInvStep, PTL DEF AuditSpec

\* The audit chain stays in its type: a transaction that appends has an append left.
THEOREM AuditTypeCorrect == AuditSpec => []AuditTypeOK
  <1>1. AuditInv => AuditTypeOK
    BY DEF AuditInv, EntriesInv, TransInv, AuditTypeOK, RowOK
  <1>2. QED
    BY <1>1, AuditInvariance, PTL

-----------------------------------------------------------------------------
\* The cap keeps the oldest rows: with a row, an export has those before it.
LEMMA ExportIsAPrefix ==
    ASSUME IsFiniteSet(entries), \A x \in entries : x.seq \in Nat,
           NEW ws, NEW e \in Export(ws), NEW f \in entries, f.ws = ws, f.seq <= e.seq
    PROVE  f \in Export(ws)
  <1> DEFINE Upto(y) == {x \in entries : x.ws = ws /\ x.seq <= y.seq}
  <1>1. Upto(f) \subseteq Upto(e) /\ IsFiniteSet(Upto(e)) /\ IsFiniteSet(Upto(f))
    BY FS_Subset DEF Export
  <1>2. Cardinality(Upto(f)) <= Cardinality(Upto(e)) /\ Cardinality(Upto(f)) \in Nat /\ Cardinality(Upto(e)) \in Nat
    <2> HIDE DEF Upto
    <2> QED BY <1>1, FS_Subset, FS_CardinalityType
  <1>3. \A y : Upto(y) = {x \in {u \in entries : u.ws = ws} : x.seq <= y.seq}
    OBVIOUS
  <1>4. Cardinality(Upto(e)) <= ExportCap
    BY <1>3 DEF Export
  <1>5. Cardinality(Upto(f)) <= ExportCap
    BY <1>2, <1>4, AuditAssumption
  <1>6. QED
    BY <1>3, <1>5 DEF Export

\* A chain that is not torn verifies.
LEMMA WholeVerifies ==
    ASSUME AuditInv, NEW ws \in Workspaces, ~Torn(ws)
    PROVE  HashChainValid(ws)
  <1> DEFINE H == Hashed(Export(ws))
  <1>1. SUFFICES ASSUME NEW e \in H
                 PROVE  e.hash = EntryHash(e.seq, e.body, e.parent) /\ e.parent = Anchor(H, e)
    BY DEF HashChainValid
  <1>2. e \in entries /\ e.ws = ws /\ e.hash # NoHash /\ e \in Export(ws)
    BY DEF Hashed, Export
  <1>3. IsFiniteSet(entries) /\ \A x \in entries : RowOK(x) /\ x.seq \in Nat
    BY DEF AuditInv, EntriesInv, RowOK
  <1>4. e.body = "written"
    BY <1>2 DEF Torn, AuditInv, EntriesInv
  <1>5. Lost(e) = {}
    BY <1>2 DEF Torn, Lost
  <1>6. Behind(e) = Before(H, e)
    <2>1. \A f \in entries : f.ws = ws /\ f.seq < e.seq => f \in Export(ws)
      BY <1>2, <1>3, ExportIsAPrefix
    <2>2. \A f \in Export(ws) : f \in entries /\ f.ws = ws
      BY DEF Export
    <2>3. QED
      BY <1>2, <1>5, <2>1, <2>2 DEF Behind, Before, Hashed
  <1>7. e.parent = TopHash(Behind(e))
    BY <1>2 DEF AuditInv, EntriesInv
  <1>8. QED
    BY <1>2, <1>3, <1>4, <1>6, <1>7 DEF RowOK, TopHash, Anchor

\* A torn chain does not.
LEMMA TornFails ==
    ASSUME AuditInv, NEW ws \in Workspaces, Torn(ws)
    PROVE  ~HashChainValid(ws)
  <1> DEFINE H == Hashed(Export(ws))
  <1>1. SUFFICES ASSUME HashChainValid(ws) PROVE FALSE
    OBVIOUS
  <1>2. \A e \in H : e.hash = EntryHash(e.seq, e.body, e.parent) /\ e.parent = Anchor(H, e)
    BY <1>1 DEF HashChainValid
  <1>3. \A e \in H : e \in entries /\ e.ws = ws /\ e.hash # NoHash /\ e \in Export(ws)
    BY DEF Hashed, Export
  <1>4. lastSeq \in Nat /\ IsFiniteSet(entries) /\ \A x \in entries : RowOK(x) /\ x.seq \in Nat /\ x.seq <= lastSeq
    BY DEF AuditInv, EntriesInv, RowOK
  <1>5. CASE \E e \in H : e.seq \in damage.altered
    <2>1. PICK e \in H : e.seq \in damage.altered
      BY <1>5
    <2>2. e.body = "altered"
      BY <1>3, <2>1 DEF AuditInv, EntriesInv
    <2>3. EntryHash(e.seq, "altered", e.parent) = EntryHash(e.seq, "written", e.parent)
      BY <1>2, <1>3, <1>4, <2>2 DEF RowOK
    <2>4. QED
      BY <2>3, HashTells
  <1>6. CASE \E r \in damage.removed : /\ r.row.ws = ws /\ r.row.hash # NoHash
                                       /\ \E e \in H : r.row.seq < e.seq /\ e.seq <= r.upTo
    <2>1. PICK r \in damage.removed : /\ r.row.ws = ws /\ r.row.hash # NoHash
                                      /\ \E e \in H : r.row.seq < e.seq /\ e.seq <= r.upTo
      BY <1>6
    <2>2. PICK d \in H : r.row.seq < d.seq /\ d.seq <= r.upTo
      BY <2>1
    <2>3. RowOK(r.row) /\ r.row.seq \in Nat /\ r.upTo \in Nat /\ \A x \in damage.removed : x = r
      BY DEF AuditInv, DamageInv, RowOK
    <2>4. \A e \in entries : e.seq # r.row.seq
      BY DEF AuditInv, DamageInv
    <2> HIDE DEF H
    <2>5. \E y \in H : y.seq > r.row.seq /\ y.seq <= d.seq /\ \A x \in H : x.seq > r.row.seq => y.seq <= x.seq
      BY <1>3, <1>4, <2>2, <2>3, FirstAbove
    <2>6. PICK e \in H : e.seq > r.row.seq /\ e.seq <= d.seq /\ \A x \in H : x.seq > r.row.seq => e.seq <= x.seq
      BY <2>5
    <2> USE DEF H
    <2>7. \A f \in Hashed(entries) : f.ws = ws /\ f.seq < e.seq => f \in H
      BY <1>3, <1>4, <2>6, ExportIsAPrefix DEF Hashed
    <2>8. Lost(e) = {r.row}
      <3>1. e.seq <= r.upTo /\ r.row.seq < e.seq /\ r.row.ws = e.ws
        BY <1>3, <1>4, <2>1, <2>2, <2>3, <2>6
      <3>2. QED
        BY <2>1, <2>3, <3>1 DEF Lost
    <2>9. \A f \in Behind(e) : f = r.row \/ f.seq < r.row.seq
      <3>1. SUFFICES ASSUME NEW f \in Behind(e), f # r.row PROVE f.seq < r.row.seq
        OBVIOUS
      <3>2. f \in Hashed(entries) /\ f.ws = ws /\ f.seq < e.seq
        BY <1>3, <2>6, <2>8, <3>1 DEF Behind
      <3>3. f \in entries /\ f.seq \in Nat /\ f.seq # r.row.seq /\ f \in H /\ e.seq \in Nat
        BY <1>3, <1>4, <2>4, <2>6, <2>7, <3>2 DEF Hashed
      <3>4. f.seq > r.row.seq => e.seq <= f.seq
        BY <2>6, <3>3
      <3>5. QED
        BY <2>3, <3>2, <3>3, <3>4
    <2>10. r.row \in Behind(e)
      BY <2>8 DEF Behind
    <2>11. LastOf(Behind(e)) = r.row
      <3>1. \A x \in Behind(e) : x.seq \in Nat /\ x.seq <= r.row.seq
        BY <1>4, <2>3, <2>9 DEF Behind, Hashed, Lost, AuditInv, DamageInv, RowOK
      <3>2. LastOf(Behind(e)) \in Behind(e) /\ \A x \in Behind(e) : x.seq <= LastOf(Behind(e)).seq
        BY <2>3, <2>10, <3>1, LastExists
      <3>3. r.row.seq <= LastOf(Behind(e)).seq
        BY <2>10, <3>2
      <3>4. QED
        BY <2>3, <2>9, <3>1, <3>2, <3>3
    <2>12. e.parent = EntryHash(r.row.seq, "written", r.row.parent)
      <3>1. e.parent = TopHash(Behind(e))
        BY <1>3, <2>6 DEF AuditInv, EntriesInv
      <3>2. TopHash(Behind(e)) = r.row.hash
        BY <2>10, <2>11 DEF TopHash
      <3>3. QED
        BY <2>1, <2>3, <3>1, <3>2 DEF RowOK
    <2>13. e.parent = Anchor(H, e)
      BY <1>2, <2>6
    <2>14. CASE Before(H, e) = {}
      BY <2>12, <2>13, <2>14, HashTells DEF Anchor
    <2>15. CASE Before(H, e) # {}
      <3>1. LastOf(Before(H, e)) \in Before(H, e)
        <4>1. \A x \in Before(H, e) : x.seq \in Nat /\ x.seq <= lastSeq
          BY <1>3, <1>4 DEF Before
        <4>2. QED
          BY <1>4, <2>15, <4>1, LastExists
      <3>2. PICK g \in H : g = LastOf(Before(H, e))
        BY <3>1 DEF Before
      <3>3. g.hash = EntryHash(g.seq, g.body, g.parent) /\ g \in entries
        BY <1>2, <1>3
      <3>4. e.parent = g.hash
        BY <2>13, <2>15, <3>2 DEF Anchor
      <3>5. g.seq = r.row.seq
        BY <2>12, <3>3, <3>4, HashTells
      <3>6. QED
        BY <2>4, <3>3, <3>5
    <2>16. QED
      BY <2>14, <2>15
  <1>7. QED
    BY <1>5, <1>6 DEF Torn

\* Verification tells damage from honest concurrency, whatever the transactions,
\* the workspaces, the appends and the cap of the export.
THEOREM ChainTells == AuditSpec => []VerifyTells
  <1>1. AuditInv => VerifyTells
    BY WholeVerifies, TornFails DEF VerifyTells
  <1>2. QED
    BY <1>1, AuditInvariance, PTL

-----------------------------------------------------------------------------
(*****************************************************************************)
(* Fixes pushed to LangSmith.                                                *)
(*****************************************************************************)

\* The deployed version is that of the deployed proposal, and a request that
\* goes on has read it so.
CallInv ==
    /\ \A f \in Fix : fixState[f] = "deployed" <=> liveFix = f
    /\ \A c \in Shipper :
          /\ call[c].at # "start" => call[c].fix \in Fix
          /\ call[c].state = "deployed" => call[c].text = call[c].fix
          /\ call[c].at \in {"credential", "lock", "recheck", "push", "record"} => call[c].state = "deployed"
          /\ call[c].at \in {"credential", "lock", "recheck", "push"} => origin = "langsmith"
          /\ call[c].at \in {"delivered", "already"} => Recorded(call[c].fix)

\* From the second look at the log to the record a push has the proposal for
\* itself, so that the look stays true.
Alone(c) == \/ call[c].at \in {"recheck", "push"}
            \/ call[c].at = "record" /\ origin = "langsmith"
LockInv ==
    \A c \in Shipper :
        /\ Alone(c) => pushLock[call[c].fix] = c
        /\ Alone(c) /\ call[c].at # "recheck" => ~Recorded(call[c].fix)

\* What was delivered, or is still under way, is the proposal's own text.
TextInv ==
    /\ \A r, s \in receipts : r.fix = s.fix => r = s
    /\ \A r \in receipts : r.text = r.fix
    /\ \A i \in DOMAIN commits : commits[i].text = commits[i].fix
    /\ \A p \in strays : p.text = p.fix
    /\ origin # "langsmith" => commits = <<>> /\ strays = {}

\* A commit is recorded, about to be recorded, or counted as not recorded.
Owed(f) == IF Recorded(f) \/ \E c \in Shipper : call[c].at = "record" /\ call[c].fix = f THEN 1 ELSE 0
CountInv ==
    /\ \A f \in Fix : IsFiniteSet(CommitsOf(f)) /\ Cardinality(CommitsOf(f)) <= unrecorded[f] + Owed(f)
    /\ origin = "langsmith" => \A f \in Fix : Owed(f) = 1 => CommitsOf(f) # {}

DeliveryInv == DeliveryTypeOK /\ CallInv /\ LockInv /\ TextInv /\ CountInv

\* The initial state is one of the invariant.
LEMMA DeliveryInvInit ==
    ASSUME DeliveryInit
    PROVE  DeliveryInv
  <1>1. DeliveryTypeOK
    BY DeliveryAssumption DEF DeliveryInit, DeliveryTypeOK, Texts, Places
  <1>2. CallInv /\ LockInv /\ TextInv
    BY DeliveryAssumption DEF DeliveryInit, CallInv, LockInv, Alone, TextInv
  <1>3. \A f \in Fix : CommitsOf(f) = {} /\ Owed(f) = 0 /\ unrecorded[f] = 0
    BY DEF DeliveryInit, CommitsOf, Owed, Recorded
  <1>4. CountInv
    BY <1>3, FS_EmptySet DEF CountInv
  <1>5. QED
    BY <1>1, <1>2, <1>4 DEF DeliveryInv

\* What moving a request does to the requests.
LEMMA GoesFacts ==
    ASSUME DeliveryTypeOK, NEW c \in Shipper, NEW label \in Places, Goes(c, label)
    PROVE  /\ call' \in [Shipper -> [at : Places, fix : Texts, text : Texts,
                             state : {"absent", "approved-awaiting-deploy", "deployed", "rolled-back"}]]
           /\ call'[c].at = label /\ call'[c].fix = call[c].fix
           /\ call'[c].text = call[c].text /\ call'[c].state = call[c].state
           /\ \A d \in Shipper \ {c} : call'[d] = call[d]
  BY DEF Goes, DeliveryTypeOK

\* What a release does to the locks.
LEMMA ReleaseFacts ==
    ASSUME DeliveryTypeOK, NEW c \in Shipper, Release(c)
    PROVE  /\ pushLock' \in [Fix -> Shipper \cup {NoFix}]
           /\ \A f \in Fix : pushLock[f] # c => pushLock'[f] = pushLock[f]
  BY DEF Release, DeliveryTypeOK

\* What counting a commit as unrecorded does to the counts.
LEMMA MissedFacts ==
    ASSUME DeliveryTypeOK, NEW f \in Fix, Missed(f)
    PROVE  /\ unrecorded' \in [Fix -> Nat] /\ unrecorded'[f] = unrecorded[f] + 1
           /\ \A g \in Fix : unrecorded[g] \in Nat /\ unrecorded'[g] >= unrecorded[g]
  BY DEF Missed, DeliveryTypeOK

\* What a commit does to the commits.
LEMMA CommitFacts ==
    ASSUME DeliveryTypeOK, CountInv, NEW f \in Fix, PromptCommit(f, f)
    PROVE  /\ commits' \in Seq([fix : Fix, text : Texts])
           /\ (\A i \in DOMAIN commits : commits[i].text = commits[i].fix)
                 => (\A i \in DOMAIN commits' : commits'[i].text = commits'[i].fix)
           /\ \A g \in Fix \ {f} : CommitsOf(g)' = CommitsOf(g)
           /\ CommitsOf(f)' # {} /\ IsFiniteSet(CommitsOf(f)')
           /\ Cardinality(CommitsOf(f)') = Cardinality(CommitsOf(f)) + 1
  <1> DEFINE new == [fix |-> f, text |-> f]
  <1>1. new \in [fix : Fix, text : Texts] /\ commits' = Append(commits, new)
    BY DEF PromptCommit, Texts
  <1>2. /\ commits' \in Seq([fix : Fix, text : Texts]) /\ Len(commits') = Len(commits) + 1
        /\ \A i \in 1..Len(commits) : commits'[i] = commits[i]
        /\ commits'[Len(commits) + 1] = new
        /\ Len(commits) \in Nat
    BY <1>1 DEF DeliveryTypeOK
  <1>3. DOMAIN commits' = 1..(Len(commits) + 1) /\ DOMAIN commits = 1..Len(commits)
    BY <1>2 DEF DeliveryTypeOK
  <1>4. (\A i \in DOMAIN commits : commits[i].text = commits[i].fix)
           => (\A i \in DOMAIN commits' : commits'[i].text = commits'[i].fix)
    BY <1>2, <1>3
  <1>5. \A g \in Fix \ {f} : CommitsOf(g)' = CommitsOf(g)
    BY <1>2, <1>3 DEF CommitsOf
  <1>6. CommitsOf(f)' = CommitsOf(f) \cup {Len(commits) + 1} /\ Len(commits) + 1 \notin CommitsOf(f)
    BY <1>2, <1>3 DEF CommitsOf
  <1>7. IsFiniteSet(CommitsOf(f))
    BY DEF CountInv
  <1>8. /\ IsFiniteSet(CommitsOf(f) \cup {Len(commits) + 1})
        /\ Cardinality(CommitsOf(f) \cup {Len(commits) + 1}) = Cardinality(CommitsOf(f)) + 1
    BY <1>6, <1>7, FS_AddElement
  <1>9. QED
    BY <1>2, <1>4, <1>5, <1>6, <1>8

\* The number of a proposal's commits is a number.
LEMMA CountType ==
    ASSUME CountInv, NEW f \in Fix
    PROVE  Cardinality(CommitsOf(f)) \in Nat
  BY FS_CardinalityType DEF CountInv

\* Where the commits and the records stay, and who is about to record, the
\* count is kept.
LEMMA CountKept ==
    ASSUME CountInv, UNCHANGED <<origin, commits, receipts, unrecorded>>,
           \A f \in Fix : Owed(f)' = Owed(f)
    PROVE  CountInv'
  BY DEF CountInv, CommitsOf

\* Who owes nothing before and after does not change what is owed.
LEMMA OwedKept ==
    ASSUME DeliveryTypeOK, NEW c \in Shipper, NEW label \in Places \ {"record"}, Goes(c, label),
           call[c].at # "record", UNCHANGED receipts
    PROVE  \A f \in Fix : Owed(f)' = Owed(f) /\ Recorded(f)' = Recorded(f)
  <1>1. \A d \in Shipper : (call'[d].at = "record" <=> call[d].at = "record") /\ call'[d].fix = call[d].fix
    BY GoesFacts
  <1>2. QED
    BY <1>1 DEF Owed, Recorded

\* A request that moves, and lets go of its lock or not, disturbs no other one.
LEMMA LocksKept ==
    ASSUME DeliveryInv, NEW c \in Shipper, NEW label \in Places, Goes(c, label),
           Release(c) \/ UNCHANGED pushLock, UNCHANGED <<origin, receipts>>,
           Alone(c)' => pushLock'[call[c].fix] = c /\ (label # "recheck" => ~Recorded(call[c].fix))
    PROVE  LockInv'
  <1>1. \A d \in Shipper : Recorded(call[d].fix)' = Recorded(call[d].fix)
    BY GoesFacts DEF DeliveryInv, Recorded
  <1>2. ASSUME NEW d \in Shipper, d # c
        PROVE  /\ Alone(d)' => pushLock'[call'[d].fix] = d
               /\ Alone(d)' /\ call'[d].at # "recheck" => ~Recorded(call[d].fix)'
    <2>1. call'[d] = call[d] /\ (Alone(d)' <=> Alone(d))
      BY <1>2, GoesFacts DEF DeliveryInv, Alone
    <2>2. Alone(d) => call[d].fix \in Fix
      BY DEF DeliveryInv, CallInv, Alone
    <2>3. Alone(d) => pushLock[call[d].fix] = d
      BY DEF DeliveryInv, LockInv
    <2>4. Alone(d) => pushLock'[call[d].fix] = d
      BY <1>2, <2>2, <2>3, ReleaseFacts DEF DeliveryInv
    <2>5. Alone(d) /\ call[d].at # "recheck" => ~Recorded(call[d].fix)
      BY DEF DeliveryInv, LockInv
    <2>6. QED
      BY <1>1, <2>1, <2>4, <2>5
  <1>3. call'[c].at = label /\ call'[c].fix = call[c].fix
    BY GoesFacts DEF DeliveryInv
  <1>4. QED
    BY <1>1, <1>2, <1>3 DEF LockInv, Recorded

\* A request that moves keeps what was read; it only has to go where it may.
LEMMA CallsKept ==
    ASSUME DeliveryInv, NEW c \in Shipper, NEW label \in Places, Goes(c, label), call[c].at # "start",
           UNCHANGED <<origin, fixState, liveFix>>,
           \A f \in Fix : Recorded(f) => Recorded(f)',
           label \in {"credential", "lock", "recheck", "push", "record"} => call[c].state = "deployed",
           label \in {"credential", "lock", "recheck", "push"} => origin = "langsmith",
           label \in {"delivered", "already"} => Recorded(call[c].fix)'
    PROVE  CallInv'
  <1>1. /\ call'[c].at = label /\ call'[c].fix = call[c].fix
        /\ call'[c].text = call[c].text /\ call'[c].state = call[c].state
        /\ \A d \in Shipper \ {c} : call'[d] = call[d]
    BY GoesFacts DEF DeliveryInv
  <1>2. \A d \in Shipper : call[d].at \in {"delivered", "already"} => call[d].fix \in Fix /\ Recorded(call[d].fix)
    BY DEF DeliveryInv, CallInv
  <1>3. Recorded(call[c].fix)' <=> \E r \in receipts' : r.fix = call'[c].fix
    BY <1>1 DEF Recorded
  <1>4. \A d \in Shipper \ {c} : call[d].at \in {"delivered", "already"} => \E r \in receipts' : r.fix = call'[d].fix
    BY <1>1, <1>2 DEF Recorded
  <1>5. QED
    BY <1>1, <1>3, <1>4 DEF DeliveryInv, CallInv, Recorded

\* A commit without a record is counted as such.
LEMMA MissedCommit ==
    ASSUME DeliveryTypeOK, CountInv, NEW k \in Fix, PromptCommit(k, k), Missed(k),
           UNCHANGED origin, \A f \in Fix : Owed(f)' = Owed(f)
    PROVE  CountInv'
  <1>1. /\ IsFiniteSet(CommitsOf(k)') /\ CommitsOf(k)' # {}
        /\ Cardinality(CommitsOf(k)') = Cardinality(CommitsOf(k)) + 1
        /\ \A g \in Fix \ {k} : CommitsOf(g)' = CommitsOf(g)
    BY CommitFacts
  <1>2. unrecorded'[k] = unrecorded[k] + 1 /\ \A g \in Fix \ {k} : unrecorded'[g] = unrecorded[g]
    BY DEF Missed, DeliveryTypeOK
  <1>3. Cardinality(CommitsOf(k)') <= unrecorded'[k] + Owed(k)'
    <2>1. /\ Cardinality(CommitsOf(k)) <= unrecorded[k] + Owed(k) /\ Cardinality(CommitsOf(k)) \in Nat
          /\ unrecorded[k] \in Nat /\ Owed(k) \in {0, 1} /\ Owed(k)' = Owed(k)
      BY CountType DEF CountInv, Owed, DeliveryTypeOK
    <2>2. QED
      BY <1>1, <1>2, <2>1
  <1>4. ASSUME NEW g \in Fix, g # k
        PROVE  /\ IsFiniteSet(CommitsOf(g)') /\ Cardinality(CommitsOf(g)') <= unrecorded'[g] + Owed(g)'
               /\ origin' = "langsmith" /\ Owed(g)' = 1 => CommitsOf(g)' # {}
    <2>1. CommitsOf(g)' = CommitsOf(g) /\ Owed(g)' = Owed(g) /\ unrecorded'[g] = unrecorded[g]
      BY <1>1, <1>2, <1>4
    <2>2. QED
      BY <2>1 DEF CountInv
  <1>5. QED
    BY <1>1, <1>3, <1>4 DEF CountInv

\* Every step keeps the invariant.
LEMMA DeliveryInvStep ==
    ASSUME DeliveryInv, DeliveryNext \/ UNCHANGED deliveryVars
    PROVE  DeliveryInv'
  <1> USE DeliveryAssumption
  <1>1. ASSUME NEW f \in Fix, DeployFix(f) \/ RollFixBack(f) PROVE DeliveryInv'
    <2>1. UNCHANGED <<origin, commits, receipts, call, pushLock, strays, unrecorded>>
      BY <1>1 DEF DeployFix, RollFixBack
    <2>2. DeliveryTypeOK'
      BY <1>1, <2>1 DEF DeployFix, RollFixBack, DeliveryInv, DeliveryTypeOK, Texts
    <2>3. \A g \in Fix : fixState'[g] = "deployed" <=> liveFix' = g
      BY <1>1 DEF DeployFix, RollFixBack, DeliveryInv, CallInv, DeliveryTypeOK
    <2>4. CallInv' /\ LockInv' /\ TextInv'
      BY <2>1, <2>3 DEF DeliveryInv, CallInv, LockInv, Alone, TextInv, Recorded
    <2>5. CountInv'
      BY <2>1 DEF DeliveryInv, CountInv, CommitsOf, Owed, Recorded
    <2>6. QED
      BY <2>2, <2>4, <2>5 DEF DeliveryInv
  <1>2. ASSUME NEW c \in Shipper, NEW f \in Fix, ReadFix(c, f) PROVE DeliveryInv'
    <2>1. UNCHANGED <<origin, fixState, liveFix, commits, receipts, pushLock, strays, unrecorded>> /\ call[c].at = "start"
      BY <1>2 DEF ReadFix, world
    <2>2. /\ call'[c] = [at |-> "check", fix |-> f, state |-> fixState[f], text |-> liveFix]
          /\ \A d \in Shipper \ {c} : call'[d] = call[d]
      BY <1>2 DEF ReadFix, DeliveryInv, DeliveryTypeOK
    <2>3. DeliveryTypeOK'
      BY <1>2, <2>1 DEF ReadFix, DeliveryInv, DeliveryTypeOK, Places, Texts
    <2>4. fixState[f] = "deployed" => liveFix = f
      BY DEF DeliveryInv, CallInv
    <2>5. CallInv' /\ LockInv' /\ TextInv'
      BY <2>1, <2>2, <2>4 DEF DeliveryInv, CallInv, LockInv, Alone, TextInv, Recorded
    <2>6. \A g \in Fix : Owed(g)' = Owed(g)
      BY <2>1, <2>2 DEF Owed, Recorded
    <2>7. CountInv'
      BY <2>1, <2>6, CountKept DEF DeliveryInv
    <2>8. QED
      BY <2>3, <2>5, <2>7 DEF DeliveryInv
  <1>3. ASSUME NEW c \in Shipper, CheckFix(c) PROVE DeliveryInv'
    <2> DEFINE label == IF Recorded(call[c].fix) THEN "already"
                        ELSE IF ~Shippable(c) THEN "refused"
                        ELSE IF origin = "langsmith" THEN "credential" ELSE "record"
    <2>1. /\ UNCHANGED <<origin, fixState, liveFix, commits, receipts, pushLock, strays, unrecorded>>
          /\ call[c].at = "check" /\ Goes(c, label) /\ label \in Places
      BY <1>3 DEF CheckFix, world, Places
    <2>2. label \in {"credential", "record"} => call[c].state = "deployed" /\ ~Recorded(call[c].fix)
      BY DEF Shippable
    <2>3. DeliveryTypeOK' /\ TextInv'
      BY <2>1, GoesFacts DEF DeliveryInv, DeliveryTypeOK, TextInv
    <2>4. CallInv'
      <3>1. label \in {"delivered", "already"} => Recorded(call[c].fix)
        OBVIOUS
      <3>2. Recorded(call[c].fix)' <=> Recorded(call[c].fix)
        BY <2>1, GoesFacts DEF DeliveryInv, Recorded
      <3>3. \A f \in Fix : Recorded(f) => Recorded(f)'
        BY <2>1 DEF Recorded
      <3>4. label \in {"credential", "lock", "recheck", "push"} => origin = "langsmith"
        OBVIOUS
      <3>5. label \in {"credential", "lock", "recheck", "push", "record"} => call[c].state = "deployed"
        BY <2>2
      <3> HIDE DEF label
      <3>6. QED
        BY <2>1, <3>1, <3>2, <3>3, <3>4, <3>5, CallsKept
    <2>5. LockInv'
      <3>1. ~Alone(c)'
        <4>1. call'[c].at = label /\ origin' = origin
          BY <2>1, GoesFacts DEF DeliveryInv
        <4>2. label \notin {"recheck", "push"} /\ (label = "record" => origin # "langsmith")
          OBVIOUS
        <4>3. QED
          BY <4>1, <4>2 DEF Alone
      <3> HIDE DEF label
      <3>2. QED
        BY <2>1, <3>1, LocksKept
    <2>6. CountInv'
      <3>1. CASE label # "record"
        BY <2>1, <3>1, OwedKept, CountKept DEF DeliveryInv
      <3>2. CASE label = "record"
        <4>1. origin # "langsmith" /\ commits = <<>>
          BY <3>2 DEF DeliveryInv, TextInv
        <4>2. \A f \in Fix : CommitsOf(f)' = {}
          BY <2>1, <4>1 DEF CommitsOf
        <4>3. \A f \in Fix : Owed(f)' \in {0, 1} /\ unrecorded'[f] \in Nat
          BY <2>3 DEF Owed, DeliveryTypeOK
        <4>4. QED
          <5>1. \A f \in Fix : IsFiniteSet(CommitsOf(f)') /\ Cardinality(CommitsOf(f)') = 0
            BY <4>2, FS_EmptySet
          <5>2. origin' # "langsmith"
            BY <2>1, <4>1
          <5>3. QED
            BY <4>3, <5>1, <5>2 DEF CountInv
      <3>3. QED
        BY <3>1, <3>2
    <2>7. QED
      BY <2>3, <2>4, <2>5, <2>6 DEF DeliveryInv
  <1>4. ASSUME NEW c \in Shipper, ReadCredential(c) PROVE DeliveryInv'
    <2>1. PICK label \in {"lock", "refused"} : Goes(c, label)
      BY <1>4 DEF ReadCredential
    <2>2. /\ UNCHANGED <<origin, fixState, liveFix, commits, receipts, pushLock, strays, unrecorded>>
          /\ call[c].at = "credential" /\ label \in Places \ {"record"}
      BY <1>4 DEF ReadCredential, world, Places
    <2>3. call[c].state = "deployed" /\ origin = "langsmith"
      BY <2>2 DEF DeliveryInv, CallInv
    <2>4. DeliveryTypeOK' /\ TextInv'
      BY <2>1, <2>2, GoesFacts DEF DeliveryInv, DeliveryTypeOK, TextInv
    <2>5. CallInv'
      BY <2>1, <2>2, <2>3, CallsKept DEF Recorded
    <2>6. ~Alone(c)'
      BY <2>1, <2>2, GoesFacts DEF DeliveryInv, Alone
    <2>7. LockInv'
      BY <2>1, <2>2, <2>6, LocksKept
    <2>8. CountInv'
      BY <2>1, <2>2, OwedKept, CountKept DEF DeliveryInv
    <2>9. QED
      BY <2>4, <2>5, <2>7, <2>8 DEF DeliveryInv
  <1>5. ASSUME NEW c \in Shipper, LockFix(c) PROVE DeliveryInv'
    <2> DEFINE k == call[c].fix
    <2>1. /\ UNCHANGED <<origin, fixState, liveFix, commits, receipts, strays, unrecorded>>
          /\ call[c].at = "lock" /\ pushLock[k] = NoFix
          /\ pushLock' = [pushLock EXCEPT ![k] = c]
          /\ Goes(c, "recheck") /\ "recheck" \in Places \ {"record"}
      BY <1>5 DEF LockFix, world, Places
    <2>2. k \in Fix /\ call[c].state = "deployed" /\ origin = "langsmith"
      BY <2>1 DEF DeliveryInv, CallInv
    <2>3. DeliveryTypeOK' /\ TextInv'
      BY <2>1, <2>2, GoesFacts DEF DeliveryInv, DeliveryTypeOK, TextInv
    <2>4. CallInv'
      BY <2>1, <2>2, CallsKept DEF Recorded
    <2>5. LockInv'
      <3>1. call'[c].at = "recheck" /\ call'[c].fix = k /\ pushLock'[k] = c
        BY <2>1, <2>2, GoesFacts DEF DeliveryInv, DeliveryTypeOK
      <3>2. ASSUME NEW d \in Shipper, d # c, Alone(d)
            PROVE  pushLock'[call[d].fix] = d
        <4>1. pushLock[call[d].fix] = d /\ call[d].fix \in Fix
          BY <3>2 DEF DeliveryInv, LockInv, CallInv, Alone
        <4>2. QED
          BY <2>1, <2>2, <4>1 DEF DeliveryInv, DeliveryTypeOK
      <3>3. ASSUME NEW d \in Shipper, d # c
            PROVE  call'[d] = call[d] /\ (Alone(d)' <=> Alone(d)) /\ Recorded(call[d].fix)' = Recorded(call[d].fix)
        BY <2>1, <3>3, GoesFacts DEF DeliveryInv, Alone, Recorded
      <3>4. QED
        BY <3>1, <3>2, <3>3 DEF DeliveryInv, LockInv
    <2>6. CountInv'
      BY <2>1, OwedKept, CountKept DEF DeliveryInv
    <2>7. QED
      BY <2>3, <2>4, <2>5, <2>6 DEF DeliveryInv
  <1>6. ASSUME NEW c \in Shipper, Recheck(c) PROVE DeliveryInv'
    <2> DEFINE label == IF Shipped(c) THEN "already" ELSE "push"
    <2>1. /\ UNCHANGED <<origin, fixState, liveFix, commits, receipts, strays, unrecorded>>
          /\ call[c].at = "recheck" /\ Goes(c, label) /\ label \in Places \ {"record"}
          /\ Release(c) \/ UNCHANGED pushLock
          /\ ~Shipped(c) => UNCHANGED pushLock
      BY <1>6 DEF Recheck, world, Places
    <2>2. call[c].fix \in Fix /\ call[c].state = "deployed" /\ origin = "langsmith" /\ pushLock[call[c].fix] = c
      BY <2>1 DEF DeliveryInv, CallInv, LockInv, Alone
    <2>3. DeliveryTypeOK' /\ TextInv'
      BY <2>1, GoesFacts, ReleaseFacts DEF DeliveryInv, DeliveryTypeOK, TextInv
    <2>4. Recorded(call[c].fix)' <=> Recorded(call[c].fix)
      BY <2>1, GoesFacts DEF DeliveryInv, Recorded
    <2>5. label \in {"delivered", "already"} => Recorded(call[c].fix)
      BY DEF Shipped
    <2>6. label = "push" => ~Recorded(call[c].fix) /\ UNCHANGED pushLock
      BY <2>1 DEF Shipped
    <2>7. label \in {"already", "push"}
      OBVIOUS
    <2> HIDE DEF label
    <2>8. CallInv'
      BY <2>1, <2>2, <2>4, <2>5, CallsKept DEF Recorded
    <2>9. LockInv'
      <3>1. Alone(c)' => label = "push"
        BY <2>1, <2>7, GoesFacts DEF DeliveryInv, Alone
      <3>2. QED
        BY <2>1, <2>2, <2>6, <3>1, LocksKept
    <2>10. CountInv'
      BY <2>1, OwedKept, CountKept DEF DeliveryInv
    <2>11. QED
      BY <2>3, <2>8, <2>9, <2>10 DEF DeliveryInv
  <1>7. ASSUME NEW c \in Shipper, Push(c) PROVE DeliveryInv'
    <2>1. /\ UNCHANGED <<origin, fixState, liveFix, receipts, pushLock, strays, unrecorded>>
          /\ call[c].at = "push" /\ Goes(c, "record") /\ "record" \in Places
          /\ PromptCommit(call[c].fix, call[c].text)
      BY <1>7 DEF Push, world, Places
    <2>2. call[c].fix \in Fix /\ call[c].state = "deployed" /\ call[c].text = call[c].fix /\ origin = "langsmith"
      BY <2>1 DEF DeliveryInv, CallInv
    <2>3. PICK k \in Fix : call[c].fix = k
      BY <2>2
    <2>4. PromptCommit(k, k)
      BY <2>1, <2>2, <2>3
    <2>5. Alone(c) /\ pushLock[k] = c /\ ~Recorded(k)
      <3>1. call[c].at = "push"
        BY <2>1
      <3>2. Alone(c) /\ call[c].at # "recheck"
        BY <3>1 DEF Alone
      <3>3. pushLock[call[c].fix] = c /\ ~Recorded(call[c].fix)
        BY <3>2 DEF DeliveryInv, LockInv
      <3>4. QED
        BY <2>3, <3>2, <3>3
    <2>6. DeliveryTypeOK' /\ TextInv'
      BY <2>1, <2>2, <2>4, CommitFacts, GoesFacts DEF DeliveryInv, DeliveryTypeOK, TextInv
    <2>7. CallInv'
      BY <2>1, <2>2, CallsKept DEF Recorded
    <2>8. LockInv'
      BY <2>1, <2>3, <2>5, LocksKept
    <2>9. Owed(k) = 0
      <3>1. \A d \in Shipper : call[d].at = "record" => call[d].fix # k
        BY <2>1, <2>2, <2>3, <2>5 DEF DeliveryInv, LockInv, Alone
      <3>2. QED
        BY <2>5, <3>1 DEF Owed
    <2>10. Owed(k)' = 1
      <3>1. call'[c].at = "record" /\ call'[c].fix = k
        BY <2>1, <2>3, GoesFacts DEF DeliveryInv
      <3>2. QED
        BY <3>1 DEF Owed
    <2>11. ASSUME NEW g \in Fix \ {k} PROVE Owed(g)' = Owed(g)
      BY <2>1, <2>3, GoesFacts DEF DeliveryInv, Owed, Recorded
    <2>12. CountInv'
      <3>1. Cardinality(CommitsOf(k)) <= unrecorded[k] + 0 /\ Cardinality(CommitsOf(k)) \in Nat /\ unrecorded[k] \in Nat
        BY <2>9, CountType DEF DeliveryInv, CountInv, DeliveryTypeOK
      <3>2. /\ IsFiniteSet(CommitsOf(k)') /\ CommitsOf(k)' # {}
            /\ Cardinality(CommitsOf(k)') = Cardinality(CommitsOf(k)) + 1
            /\ \A g \in Fix \ {k} : CommitsOf(g)' = CommitsOf(g)
        BY <2>4, CommitFacts DEF DeliveryInv
      <3>3. Cardinality(CommitsOf(k)') <= unrecorded'[k] + Owed(k)'
        BY <2>1, <2>10, <3>1, <3>2
      <3>4. ASSUME NEW g \in Fix, g # k
            PROVE  /\ IsFiniteSet(CommitsOf(g)') /\ Cardinality(CommitsOf(g)') <= unrecorded'[g] + Owed(g)'
                   /\ Owed(g)' = 1 => CommitsOf(g)' # {}
        <4>1. CommitsOf(g)' = CommitsOf(g) /\ Owed(g)' = Owed(g) /\ unrecorded' = unrecorded
          BY <2>1, <2>11, <3>2, <3>4
        <4>2. QED
          BY <2>2, <4>1 DEF DeliveryInv, CountInv
      <3>5. QED
        BY <3>2, <3>3, <3>4 DEF CountInv
    <2>13. QED
      BY <2>6, <2>7, <2>8, <2>12 DEF DeliveryInv
  <1>8. ASSUME NEW c \in Shipper, PushRaises(c) PROVE DeliveryInv'
    <2>1. /\ UNCHANGED <<origin, fixState, liveFix, receipts, strays>>
          /\ call[c].at = "push" /\ Goes(c, "failed") /\ "failed" \in Places \ {"record"} /\ Release(c)
          /\ \/ UNCHANGED <<commits, unrecorded>>
             \/ PromptCommit(call[c].fix, call[c].text) /\ Missed(call[c].fix)
      BY <1>8 DEF PushRaises, world, Places
    <2>2. call[c].fix \in Fix /\ call[c].state = "deployed" /\ call[c].text = call[c].fix /\ origin = "langsmith"
      BY <2>1 DEF DeliveryInv, CallInv
    <2>3. PICK k \in Fix : call[c].fix = k
      BY <2>2
    <2>4. CallInv'
      BY <2>1, <2>2, CallsKept DEF Recorded
    <2>5. ~Alone(c)'
      BY <2>1, GoesFacts DEF DeliveryInv, Alone
    <2>6. LockInv'
      BY <2>1, <2>5, LocksKept
    <2>7. \A f \in Fix : Owed(f)' = Owed(f)
      BY <2>1, OwedKept DEF DeliveryInv
    <2>8. CASE UNCHANGED <<commits, unrecorded>>
      <3>1. DeliveryTypeOK' /\ TextInv'
        BY <2>1, <2>8, GoesFacts, ReleaseFacts DEF DeliveryInv, DeliveryTypeOK, TextInv
      <3>2. CountInv'
        BY <2>1, <2>7, <2>8, CountKept DEF DeliveryInv
      <3>3. QED
        BY <2>4, <2>6, <3>1, <3>2 DEF DeliveryInv
    <2>9. CASE PromptCommit(k, k) /\ Missed(k)
      <3>1. DeliveryTypeOK'
        <4>1. commits' \in Seq([fix : Fix, text : Texts])
          BY <2>9, CommitFacts DEF DeliveryInv
        <4>2. unrecorded' \in [Fix -> Nat]
          BY <2>9, MissedFacts DEF DeliveryInv
        <4>3. QED
          BY <2>1, <4>1, <4>2, GoesFacts, ReleaseFacts DEF DeliveryInv, DeliveryTypeOK
      <3>2. TextInv'
        <4>1. \A i \in DOMAIN commits' : commits'[i].text = commits'[i].fix
          BY <2>9, CommitFacts DEF DeliveryInv, TextInv
        <4>2. QED
          BY <2>1, <2>2, <4>1 DEF DeliveryInv, TextInv
      <3>3. CountInv'
        BY <2>1, <2>7, <2>9, MissedCommit DEF DeliveryInv
      <3>4. QED
        BY <2>4, <2>6, <3>1, <3>2, <3>3 DEF DeliveryInv
    <2>10. QED
      BY <2>1, <2>2, <2>3, <2>8, <2>9
  <1>9. ASSUME NEW c \in Shipper, RecordDelivery(c) PROVE DeliveryInv'
    <2> DEFINE label == IF Recorded(call[c].fix) THEN "already" ELSE "delivered"
    <2>1. /\ UNCHANGED <<origin, fixState, liveFix, commits, strays, unrecorded>>
          /\ call[c].at = "record" /\ Goes(c, label) /\ label \in Places /\ label \in {"already", "delivered"}
          /\ Release(c)
          /\ receipts' = IF Recorded(call[c].fix) THEN receipts
                         ELSE receipts \cup {[fix |-> call[c].fix, text |-> call[c].text]}
      BY <1>9 DEF RecordDelivery, world, Places
    <2> HIDE DEF label
    <2>2. call[c].fix \in Fix /\ call[c].state = "deployed" /\ call[c].text = call[c].fix
      BY <2>1 DEF DeliveryInv, CallInv
    <2>3. PICK k \in Fix : call[c].fix = k
      BY <2>2
    <2>4. receipts' = IF Recorded(k) THEN receipts ELSE receipts \cup {[fix |-> k, text |-> k]}
      BY <2>1, <2>2, <2>3
    <2>5. Recorded(k)' /\ \A f \in Fix \ {k} : Recorded(f)' = Recorded(f)
      <3>1. CASE Recorded(k)
        BY <2>4, <3>1 DEF Recorded
      <3>2. CASE ~Recorded(k)
        <4>1. receipts' = receipts \cup {[fix |-> k, text |-> k]}
          BY <2>4, <3>2
        <4>2. [fix |-> k, text |-> k] \in receipts' /\ [fix |-> k, text |-> k].fix = k
          BY <4>1
        <4>3. Recorded(k)'
          BY <4>2 DEF Recorded
        <4>4. ASSUME NEW f \in Fix \ {k} PROVE Recorded(f)' <=> Recorded(f)
          BY <4>1, <4>2 DEF Recorded
        <4>5. QED
          BY <4>3, <4>4 DEF Recorded
      <3>3. QED
        BY <3>1, <3>2
    <2>6. DeliveryTypeOK'
      BY <2>1, <2>4, GoesFacts, ReleaseFacts DEF DeliveryInv, DeliveryTypeOK, Texts
    <2>7. TextInv'
      <3>1. CASE Recorded(k)
        BY <2>1, <2>4, <3>1 DEF DeliveryInv, TextInv
      <3>2. CASE ~Recorded(k)
        <4>1. receipts' = receipts \cup {[fix |-> k, text |-> k]} /\ \A r \in receipts : r.fix # k
          BY <2>4, <3>2 DEF Recorded
        <4>2. QED
          BY <2>1, <4>1 DEF DeliveryInv, TextInv
      <3>3. QED
        BY <3>1, <3>2
    <2>8. CallInv'
      <3>1. \A f \in Fix : Recorded(f) => Recorded(f)'
        BY <2>5
      <3>2. Recorded(call[c].fix)'
        BY <2>1, <2>3, <2>5, GoesFacts DEF DeliveryInv, Recorded
      <3>3. QED
        BY <2>1, <3>1, <3>2, CallsKept
    <2>9. LockInv'
      <3>1. ASSUME NEW d \in Shipper, d # c, Alone(d)
            PROVE  call[d].fix \in Fix \ {k} /\ pushLock[call[d].fix] = d
        <4>1. origin = "langsmith" /\ call[d].fix \in Fix
          BY <3>1 DEF DeliveryInv, CallInv, Alone
        <4>2. pushLock[call[c].fix] = c /\ pushLock[call[d].fix] = d
          BY <2>1, <3>1, <4>1 DEF DeliveryInv, LockInv, Alone
        <4>3. QED
          BY <2>3, <3>1, <4>1, <4>2
      <3>2. ASSUME NEW d \in Shipper, d # c
            PROVE  call'[d] = call[d] /\ (Alone(d)' <=> Alone(d))
        BY <2>1, <3>2, GoesFacts DEF DeliveryInv, Alone
      <3>3. ~Alone(c)'
        BY <2>1, GoesFacts DEF DeliveryInv, Alone
      <3>4. ASSUME NEW d \in Shipper, Alone(d)'
            PROVE  /\ pushLock'[call'[d].fix] = d
                   /\ call'[d].at # "recheck" => ~\E r \in receipts' : r.fix = call'[d].fix
        <4>1. d # c /\ Alone(d) /\ call'[d] = call[d]
          BY <3>2, <3>3, <3>4
        <4>2. PICK g \in Fix \ {k} : call[d].fix = g /\ pushLock[g] = d
          BY <3>1, <4>1
        <4>3. pushLock'[g] = d
          BY <2>1, <4>1, <4>2, ReleaseFacts DEF DeliveryInv
        <4>4. call[d].at # "recheck" => ~Recorded(g)
          BY <4>1, <4>2 DEF DeliveryInv, LockInv
        <4>5. call[d].at # "recheck" => ~Recorded(g)'
          BY <2>5, <4>4
        <4>6. QED
          BY <4>1, <4>2, <4>3, <4>5 DEF Recorded
      <3>5. QED
        BY <3>4 DEF LockInv, Recorded
    <2>10. CountInv'
      <3>1. Owed(k) = 1 /\ Owed(k)' = 1
        BY <2>1, <2>3, <2>5 DEF Owed
      <3>2. ASSUME NEW f \in Fix \ {k} PROVE Owed(f)' = Owed(f)
        <4>1. \A d \in Shipper : call'[d].fix = call[d].fix /\ (d # c => call'[d].at = call[d].at)
          BY <2>1, GoesFacts DEF DeliveryInv
        <4>2. Recorded(f)' = Recorded(f)
          BY <2>5
        <4>3. (\E d \in Shipper : call'[d].at = "record" /\ call'[d].fix = f)
                 <=> (\E d \in Shipper : call[d].at = "record" /\ call[d].fix = f)
          <5>1. call'[c].fix = k /\ call[c].fix = k
            BY <2>3, <4>1
          <5>2. QED
            BY <4>1, <5>1
        <4>4. QED
          BY <4>2, <4>3 DEF Owed
      <3>3. \A f \in Fix : Owed(f)' = Owed(f) /\ CommitsOf(f)' = CommitsOf(f)
        BY <2>1, <3>1, <3>2 DEF CommitsOf
      <3>4. QED
        BY <2>1, <3>3 DEF DeliveryInv, CountInv
    <2>11. QED
      BY <2>6, <2>7, <2>8, <2>9, <2>10 DEF DeliveryInv
  <1>10. ASSUME NEW c \in Shipper, Stop(c) PROVE DeliveryInv'
    <2>1. /\ UNCHANGED <<origin, fixState, liveFix, commits, receipts>>
          /\ call[c].at \in {"lock", "recheck", "push", "record"}
          /\ Goes(c, "failed") /\ "failed" \in Places \ {"record"} /\ Release(c)
          /\ strays' = IF call[c].at = "push" THEN strays \cup {[of |-> c, fix |-> call[c].fix, text |-> call[c].text]}
                       ELSE strays
          /\ IF call[c].at = "record" /\ origin = "langsmith" THEN Missed(call[c].fix) ELSE UNCHANGED unrecorded
      BY <1>10 DEF Stop, world, Places
    <2>2. /\ call[c].fix \in Fix /\ call[c].state = "deployed" /\ call[c].text = call[c].fix
          /\ call[c].at # "record" => origin = "langsmith"
      BY <2>1 DEF DeliveryInv, CallInv
    <2>3. PICK k \in Fix : call[c].fix = k
      BY <2>2
    <2>4. unrecorded' \in [Fix -> Nat] /\ \A f \in Fix : unrecorded'[f] >= unrecorded[f]
      <3>1. CASE Missed(k)
        BY <3>1, MissedFacts DEF DeliveryInv
      <3>2. CASE UNCHANGED unrecorded
        BY <3>2 DEF DeliveryInv, DeliveryTypeOK
      <3>3. QED
        BY <2>1, <2>3, <3>1, <3>2
    <2>5. DeliveryTypeOK'
      <3>1. [of |-> c, fix |-> call[c].fix, text |-> call[c].text] \in [of : Shipper, fix : Fix, text : Texts]
        BY <2>2 DEF Texts
      <3>2. strays' \subseteq [of : Shipper, fix : Fix, text : Texts]
        BY <2>1, <3>1 DEF DeliveryInv, DeliveryTypeOK
      <3>3. call' \in [Shipper -> [at : Places, fix : Texts, text : Texts,
                             state : {"absent", "approved-awaiting-deploy", "deployed", "rolled-back"}]]
        BY <2>1, GoesFacts DEF DeliveryInv
      <3>4. pushLock' \in [Fix -> Shipper \cup {NoFix}]
        BY <2>1, ReleaseFacts DEF DeliveryInv
      <3>5. QED
        BY <2>1, <2>4, <3>2, <3>3, <3>4 DEF DeliveryInv, DeliveryTypeOK
    <2>6. TextInv'
      BY <2>1, <2>2 DEF DeliveryInv, TextInv
    <2>7. CallInv'
      BY <2>1, CallsKept DEF Recorded
    <2>8. LockInv'
      <3>1. ~Alone(c)'
        BY <2>1, GoesFacts DEF DeliveryInv, Alone
      <3>2. QED
        BY <2>1, <3>1, LocksKept
    <2>9. CountInv'
      <3>1. CASE call[c].at # "record"
        BY <2>1, <3>1, OwedKept, CountKept DEF DeliveryInv
      <3>2. CASE call[c].at = "record"
        <4>1. \A f \in Fix : /\ Owed(f) \in {0, 1} /\ Owed(f)' \in {0, 1}
                             /\ Owed(f)' = 1 => Owed(f) = 1
                             /\ f # k => Owed(f)' = Owed(f)
          BY <2>1, <2>3, GoesFacts DEF DeliveryInv, Owed, Recorded
        <4>2. \A f \in Fix : CommitsOf(f)' = CommitsOf(f)
          BY <2>1 DEF CommitsOf
        <4>3. CASE origin = "langsmith"
          <5>1. unrecorded'[k] = unrecorded[k] + 1 /\ unrecorded[k] \in Nat
            BY <2>1, <2>3, <3>2, <4>3 DEF Missed, DeliveryInv, DeliveryTypeOK
          <5>2. \A f \in Fix : Cardinality(CommitsOf(f)) <= unrecorded'[f] + Owed(f)'
            <6>1. Cardinality(CommitsOf(k)) <= unrecorded'[k] + Owed(k)'
              <7>1. Cardinality(CommitsOf(k)) <= unrecorded[k] + Owed(k) /\ Cardinality(CommitsOf(k)) \in Nat
                BY CountType DEF DeliveryInv, CountInv
              <7>2. QED
                BY <4>1, <5>1, <7>1
            <6>2. ASSUME NEW f \in Fix, f # k PROVE Cardinality(CommitsOf(f)) <= unrecorded'[f] + Owed(f)'
              <7>1. Owed(f)' = Owed(f) /\ unrecorded'[f] >= unrecorded[f] /\ unrecorded[f] \in Nat /\ unrecorded'[f] \in Nat
                BY <2>4, <4>1, <6>2 DEF DeliveryInv, DeliveryTypeOK
              <7>2. Cardinality(CommitsOf(f)) <= unrecorded[f] + Owed(f) /\ Cardinality(CommitsOf(f)) \in Nat
                BY CountType DEF DeliveryInv, CountInv
              <7>3. QED
                BY <4>1, <7>1, <7>2
            <6>3. QED
              BY <6>1, <6>2
          <5>3. \A f \in Fix : Owed(f)' = 1 => CommitsOf(f) # {}
            BY <4>1, <4>3 DEF DeliveryInv, CountInv
          <5>4. \A f \in Fix : IsFiniteSet(CommitsOf(f))
            BY DEF DeliveryInv, CountInv
          <5>5. QED
            BY <4>2, <5>2, <5>3, <5>4 DEF CountInv
        <4>4. CASE origin # "langsmith"
          <5>1. \A f \in Fix : IsFiniteSet(CommitsOf(f)') /\ Cardinality(CommitsOf(f)') = 0
            <6>1. commits = <<>>
              BY <4>4 DEF DeliveryInv, TextInv
            <6>2. \A f \in Fix : CommitsOf(f)' = {}
              BY <2>1, <6>1 DEF CommitsOf
            <6>3. QED
              BY <6>2, FS_EmptySet
          <5>2. \A f \in Fix : unrecorded'[f] \in Nat
            BY <2>4
          <5>3. origin' # "langsmith"
            BY <2>1, <4>4
          <5>4. QED
            BY <4>1, <5>1, <5>2, <5>3 DEF CountInv
        <4>5. QED
          BY <4>3, <4>4
      <3>3. QED
        BY <3>1, <3>2
    <2>10. QED
      BY <2>5, <2>6, <2>7, <2>8, <2>9 DEF DeliveryInv
  <1>11. ASSUME NEW p \in strays, StrayLands(p) PROVE DeliveryInv'
    <2>1. /\ UNCHANGED <<origin, fixState, liveFix, receipts, call, pushLock>>
          /\ strays' = strays \ {p} /\ PromptCommit(p.fix, p.text) /\ Missed(p.fix)
      BY <1>11 DEF StrayLands, world
    <2>2. p.fix \in Fix /\ p.text = p.fix /\ origin = "langsmith"
      BY DEF DeliveryInv, TextInv, DeliveryTypeOK
    <2>3. PICK k \in Fix : p.fix = k
      BY <2>2
    <2>4. PromptCommit(k, k) /\ Missed(k)
      BY <2>1, <2>2, <2>3
    <2>5. DeliveryTypeOK' /\ TextInv'
      <3>1. commits' \in Seq([fix : Fix, text : Texts]) /\ \A i \in DOMAIN commits' : commits'[i].text = commits'[i].fix
        BY <2>4, CommitFacts DEF DeliveryInv, TextInv
      <3>2. unrecorded' \in [Fix -> Nat]
        BY <2>4, MissedFacts DEF DeliveryInv
      <3>3. DeliveryTypeOK'
        BY <2>1, <3>1, <3>2 DEF DeliveryInv, DeliveryTypeOK
      <3>4. TextInv'
        BY <2>1, <2>2, <3>1 DEF DeliveryInv, TextInv
      <3>5. QED
        BY <3>3, <3>4
    <2>6. CallInv' /\ LockInv'
      BY <2>1 DEF DeliveryInv, CallInv, LockInv, Alone, Recorded
    <2>7. \A f \in Fix : Owed(f)' = Owed(f)
      BY <2>1 DEF Owed, Recorded
    <2>8. CountInv'
      BY <2>1, <2>4, <2>7, MissedCommit DEF DeliveryInv
    <2>9. QED
      BY <2>5, <2>6, <2>8 DEF DeliveryInv
  <1>12. CASE UNCHANGED deliveryVars
    <2>1. CallInv' /\ LockInv' /\ TextInv' /\ DeliveryTypeOK'
      BY <1>12 DEF deliveryVars, DeliveryInv, CallInv, LockInv, Alone, TextInv, Recorded, DeliveryTypeOK
    <2>2. CountInv'
      BY <1>12 DEF deliveryVars, DeliveryInv, CountInv, CommitsOf, Owed, Recorded
    <2>3. QED
      BY <2>1, <2>2 DEF DeliveryInv
  <1>13. QED
    BY <1>1, <1>2, <1>3, <1>4, <1>5, <1>6, <1>7, <1>8, <1>9, <1>10, <1>11, <1>12 DEF DeliveryNext

\* The inductive invariant holds for ever.
LEMMA DeliveryInvariance == DeliverySpec => []DeliveryInv
  <1>1. DeliveryInit => DeliveryInv
    BY DeliveryInvInit
  <1>2. DeliveryInv /\ [DeliveryNext]_deliveryVars => DeliveryInv'
    BY DeliveryInvStep
  <1>3. QED
    BY <1>1, <1>2, PTL DEF DeliverySpec

\* The parts of the invariant give the promise.
LEMMA InvImpliesOnce ==
    ASSUME DeliveryInv
    PROVE  DeliveredOnce
  <1>1. \A r, s \in receipts : r.fix = s.fix => r = s
    BY DEF DeliveryInv, TextInv
  <1>2. ASSUME NEW r \in receipts PROVE r.text = r.fix /\ (origin = "langsmith" => CommitsOf(r.fix) # {})
    <2>1. r.text = r.fix /\ r.fix \in Fix /\ Owed(r.fix) = 1
      BY DEF DeliveryInv, TextInv, DeliveryTypeOK, Owed, Recorded
    <2>2. QED
      BY <2>1 DEF DeliveryInv, CountInv
  <1>3. \A i \in DOMAIN commits : commits[i].text = commits[i].fix
    BY DEF DeliveryInv, TextInv
  <1>4. ASSUME NEW f \in Fix PROVE Cardinality(CommitsOf(f)) <= 1 + unrecorded[f]
    <2>1. /\ Cardinality(CommitsOf(f)) <= unrecorded[f] + Owed(f) /\ Cardinality(CommitsOf(f)) \in Nat
          /\ unrecorded[f] \in Nat /\ Owed(f) \in {0, 1}
      BY CountType DEF DeliveryInv, CountInv, Owed, DeliveryTypeOK
    <2>2. QED
      BY <2>1
  <1>5. \A c \in Shipper : call[c].at \in {"delivered", "already"} => Recorded(call[c].fix)
    BY DEF DeliveryInv, CallInv
  <1>6. QED
    BY <1>1, <1>2, <1>3, <1>4, <1>5 DEF DeliveredOnce

\* What is known of proposals, commits, records and requests stays in its types.
THEOREM DeliveryTypeCorrect == DeliverySpec => []DeliveryTypeOK
  BY DeliveryInvariance, PTL DEF DeliveryInv

\* A fix is delivered once and with its own text, however many requests, lost
\* answers, failed records, deploys and rollbacks there are: the second look at
\* the log is under the lock, and the lock is kept to the record.
THEOREM ShipsOnce == DeliverySpec => []DeliveredOnce
  BY DeliveryInvariance, InvImpliesOnce, PTL
=============================================================================
