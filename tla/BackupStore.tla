----------------------------- MODULE BackupStore -----------------------------
(***************************************************************************)
(* What the backup directory promises to whoever has to restore from it:   *)
(* backups appear whole, one at a time, and the last one never goes away.  *)
(***************************************************************************)
CONSTANT BackupIds

VARIABLE good   \* backups the recovery tool would accept

StoreInit == good = {}

\* A new backup can be restored.
Keep(b) == b \notin good /\ good' = good \cup {b}

\* Retention gives one up while another one is left.
Expire(b) == b \in good /\ good # {b} /\ good' = good \ {b}

StoreNext == \E b \in BackupIds : Keep(b) \/ Expire(b)

StoreSpec == StoreInit /\ [][StoreNext]_good

=============================================================================
