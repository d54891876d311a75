---------------------------- MODULE RecordStore ----------------------------
(***************************************************************************)
(* What the import engine promises whoever hands it records, in whatever   *)
(* order calls come and fail: a batch is taken in whole or not at all,     *)
(* what is kept under a key stays, and a batch is known by its hash from   *)
(* the first attempt on, whether that succeeded or not.                    *)
(* ImportPipeline, step by step, and KrakenSync, which takes an import as  *)
(* one step, implement it; KrakenSync lets the importers beside the sync   *)
(* do whatever it allows.                                                  *)
(***************************************************************************)
CONSTANTS
    KeyOf(_),       \* the canonical key of a record
    RecordsOf(_)    \* the records of the batch that has a hash

VARIABLES
    kept,       \* the records in the store
    done,       \* the hashes under which an import succeeded
    failed      \* the hashes under which one failed

vars == <<kept, done, failed>>

KeysOnce(records) == \A x, y \in records : KeyOf(x) = KeyOf(y) => x = y

Init == kept = {} /\ done = {} /\ failed = {}

\* A batch that contradicts neither itself nor what is kept is added to it.
Keep(hash) ==
    /\ KeysOnce(kept \cup RecordsOf(hash))
    /\ kept' = kept \cup RecordsOf(hash)
    /\ done' = done \cup {hash}
    /\ UNCHANGED failed

\* A hash that is known is not looked behind.
Skip(hash) ==
    /\ hash \in done \cup failed
    /\ done' = done \cup {hash}
    /\ UNCHANGED <<kept, failed>>

Fail(hash) ==
    /\ failed' = failed \cup {hash}
    /\ UNCHANGED <<kept, done>>

\* Each of them makes its hash known.
Next == \E hash \in done' \cup failed' : Keep(hash) \/ Skip(hash) \/ Fail(hash)

Spec == Init /\ [][Next]_vars

\* No two records of the store have one key, and what was registered is kept unless it
\* was registered by a failure.
StoreSound ==
    /\ KeysOnce(kept)
    /\ \A hash \in done \ failed : RecordsOf(hash) \subseteq kept
=============================================================================
