----------------------------- MODULE AuditChain -----------------------------
(***************************************************************************)
(* The hash chain of the audit log: append_audit_entry (audit/writer.py)   *)
(* statement by statement in transactions of several workspaces, the       *)
(* capped export, and what POST /audit/verify says of it after rows were   *)
(* damaged behind the WORM triggers' back.                                 *)
(*                                                                         *)
(* SHA-256 is the tuple of what is hashed: no two contents share a hash.    *)
(***************************************************************************)
EXTENDS Integers, FiniteSets, Sequences

CONSTANTS
    Appender,    \* transactions that append
    WorkspaceOf, \* the workspace a transaction is bound to
    MaxAppends,  \* how many appends a transaction makes
    ExportCap,   \* _EXPORT_MAX_ROWS
    NoOne        \* who holds a lock that is free

ASSUME AuditAssumption == NoOne \notin Appender /\ ExportCap \in Nat /\ MaxAppends \in [Appender -> Nat]

Workspaces == {WorkspaceOf[w] : w \in Appender}

VARIABLES
    entries,   \* committed rows of audit_entries: seq, ws, body, parent, hash
    lastSeq,   \* audit_entries_seq_seq, one sequence for all workspaces
    chainLock, \* holder of the advisory lock
    trans,     \* a transaction: where it is, what it has read, claimed and inserted
    damage     \* the damage done: sequence numbers altered, the row removed

auditVars == <<entries, lastSeq, chainLock, trans, damage>>

Genesis == <<>>
NoHash  == <<0>>

EntryHash(seq, body, parent) == <<seq, body, parent>>

\* Rows from before the migration that added the hashes have none.
OldRow(seq, ws) == [seq |-> seq, ws |-> ws, body |-> "written", parent |-> NoHash, hash |-> NoHash]

AuditInit ==
    /\ \/ entries = {} /\ lastSeq = 0
       \/ \E ws \in Workspaces : entries = {OldRow(1, ws)} /\ lastSeq = 1
    /\ chainLock = NoOne
    /\ trans = [w \in Appender |-> [at |-> "open", prev |-> Genesis, seq |-> 0, rows |-> {}, left |-> MaxAppends[w]]]
    /\ damage = [altered |-> {}, removed |-> {}]

Hashed(rows) == {e \in rows : e.hash # NoHash}
LastOf(rows) == CHOOSE e \in rows : \A f \in rows : f.seq <= e.seq

\* Row-level security: a transaction sees its workspace's rows, and its own.
Seen(w) == {e \in entries : e.ws = WorkspaceOf[w]} \cup trans[w].rows

\* pg_advisory_xact_lock: held to the end of the transaction.
LockFree_never(w) == TRUE
LockFree(w) == chainLock \in {w, NoOne}
LockChain(w) ==
    /\ trans[w].at = "open" /\ trans[w].left > 0 /\ LockFree(w)
    /\ chainLock' = w
    /\ trans' = [trans EXCEPT ![w].at = "read"]
    /\ UNCHANGED <<entries, lastSeq, damage>>

\* The hash of the newest hashed row.
ReadPrev(w) ==
    /\ trans[w].at = "read"
    /\ trans' = [trans EXCEPT ![w].at = "claim",
                              ![w].prev = IF Hashed(Seen(w)) = {} THEN Genesis ELSE LastOf(Hashed(Seen(w))).hash]
    /\ UNCHANGED <<entries, lastSeq, chainLock, damage>>

\* nextval: a number that is claimed is never given back.
ClaimSeq(w) ==
    /\ trans[w].at = "claim"
    /\ lastSeq' = lastSeq + 1
    /\ trans' = [trans EXCEPT ![w].at = "insert", ![w].seq = lastSeq + 1]
    /\ UNCHANGED <<entries, chainLock, damage>>

NewRow(w) == LET t == trans[w]
             IN  [seq |-> t.seq, ws |-> WorkspaceOf[w], body |-> "written", parent |-> t.prev,
                  hash |-> EntryHash(t.seq, "written", t.prev)]
InsertEntry(w) ==
    /\ trans[w].at = "insert"
    /\ trans' = [trans EXCEPT ![w].at = "open", ![w].rows = @ \cup {NewRow(w)}, ![w].left = @ - 1]
    /\ UNCHANGED <<entries, lastSeq, chainLock, damage>>

\* The insert breaks a unique index and the caller goes on after its savepoint:
\* the lock goes with the savepoint unless an earlier append had taken it.
InsertRefused(w) ==
    /\ trans[w].at = "insert"
    /\ trans' = [trans EXCEPT ![w].at = "open", ![w].left = @ - 1]
    /\ chainLock' = IF trans[w].rows = {} THEN NoOne ELSE chainLock
    /\ UNCHANGED <<entries, lastSeq, damage>>

Unlocked(w) == chainLock' = IF chainLock = w THEN NoOne ELSE chainLock

CommitEntries(w) ==
    /\ trans[w].at = "open" /\ trans[w].rows # {}
    /\ entries' = entries \cup trans[w].rows
    /\ trans' = [trans EXCEPT ![w].at = "over", ![w].rows = {}]
    /\ Unlocked(w)
    /\ UNCHANGED <<lastSeq, damage>>

RollEntries(w) ==
    /\ trans[w].at # "over"
    /\ trans' = [trans EXCEPT ![w].at = "over", ![w].rows = {}]
    /\ Unlocked(w)
    /\ UNCHANGED <<entries, lastSeq, damage>>

\* What the WORM triggers forbid, done with the triggers dropped, once and
\* while nobody appends: a body is altered, or a row removed.
Intact == damage.altered = {} /\ damage.removed = {}
AlterEntry(e) ==
    /\ Intact /\ chainLock = NoOne /\ e \in entries
    /\ entries' = (entries \ {e}) \cup {[e EXCEPT !.body = "altered"]}
    /\ damage' = [damage EXCEPT !.altered = {e.seq}]
    /\ UNCHANGED <<lastSeq, chainLock, trans>>
RemoveEntry(e) ==
    /\ Intact /\ chainLock = NoOne /\ e \in entries
    /\ entries' = entries \ {e}
    /\ damage' = [damage EXCEPT !.removed = {[row |-> e, upTo |-> lastSeq]}]
    /\ UNCHANGED <<lastSeq, chainLock, trans>>

AuditNext ==
    \/ \E w \in Appender : \/ LockChain(w) \/ ReadPrev(w) \/ ClaimSeq(w) \/ InsertEntry(w)
                           \/ InsertRefused(w) \/ CommitEntries(w) \/ RollEntries(w)
    \/ \E e \in entries : AlterEntry(e) \/ RemoveEntry(e)

AuditSpec == AuditInit /\ [][AuditNext]_auditVars

-----------------------------------------------------------------------------
\* export_audit_log of a workspace: its first ExportCap rows in seq order.
Export(ws) ==
    LET own == {e \in entries : e.ws = ws}
    IN  {e \in own : Cardinality({f \in own : f.seq <= e.seq}) <= ExportCap}

\* verify_chain: the first hashed row is anchored, every hash recomputes, every
\* parent is the hash of the hashed row before it.
Before(rows, e) == {f \in rows : f.seq < e.seq}
Anchor(rows, e) == IF Before(rows, e) = {} THEN Genesis ELSE LastOf(Before(rows, e)).hash
HashChainValid(ws) ==
    LET rows == Hashed(Export(ws))
    IN  \A e \in rows : /\ e.hash = EntryHash(e.seq, e.body, e.parent)
                        /\ e.parent = Anchor(rows, e)

AuditTypeOK ==
    /\ \A e \in entries : e.seq \in 1..lastSeq /\ e.ws \in Workspaces
    /\ chainLock \in Appender \cup {NoOne}
    /\ \A w \in Appender : /\ trans[w].at \in {"open", "read", "claim", "insert", "over"}
                           /\ trans[w].left \in 0..MaxAppends[w]

\* Verification tells damage from honest concurrency: the hash chain of a
\* workspace's export is broken exactly when a hashed row in it was altered, or
\* a hashed row was removed that one in it came after.  However appends of
\* several transactions and workspaces interleave, are refused or rolled back,
\* an undamaged chain verifies.
Torn(ws) ==
    LET rows == Hashed(Export(ws))
    IN  \/ \E e \in rows : e.seq \in damage.altered
        \/ \E r \in damage.removed : /\ r.row.ws = ws /\ r.row.hash # NoHash
                                     /\ \E e \in rows : r.row.seq < e.seq /\ e.seq <= r.upTo
VerifyTells == \A ws \in Workspaces : HashChainValid(ws) <=> ~Torn(ws)
=============================================================================
