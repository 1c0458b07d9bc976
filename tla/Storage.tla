------------------------------ MODULE Storage ------------------------------
(***************************************************************************)
(* The NVS namespace "dmboot" as the firmware sees it through the Storage  *)
(* interface: a map from keys to blobs that outlives every reset.  A blob  *)
(* is written or erased atomically, but a call that reports failure may    *)
(* have changed the flash or not: nvs_set_blob may succeed and nvs_commit  *)
(* fail, or the write may be durable and only its read-back fail.          *)
(***************************************************************************)
CONSTANTS
    Missing,    \* what a read of an absent key returns (size 0)
    Damaged     \* a blob that no reader recognises (bad size, CRC or magic)

VARIABLE nvs    \* key -> blob

Put(k, v) == [nvs EXCEPT ![k] = v]

\* One checkedWrite: write, commit, read back, compare.  Success means that
\* the blob is durable; failure says nothing about what the next boot reads.
CheckedWrite(k, v, ok) == nvs' \in IF ok THEN {Put(k, v)} ELSE {nvs, Put(k, v)}

\* An erase whose result nobody looks at.
UncheckedErase(k) == nvs' \in {nvs, Put(k, Missing)}

\* An erase that is followed by a read which must find nothing.
SilentErase(k, ok) == UncheckedErase(k)     \* mutant: not read back
CheckedErase(k, ok) == CheckedWrite(k, Missing, ok)
=============================================================================
