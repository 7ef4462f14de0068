---------------------------- MODULE MCRecordSync ----------------------------
(* Instances of RecordSync for TLC. *)
EXTENDS RecordSync, TLC

CONSTANTS d1, d2, r1, r2

Symmetry == Permutations(Device) \cup Permutations(Record)

(* Some records are there already, created and pulled by all.              *)
MCInit ==
  \E there \in SUBSET Record \ {{}} : \E seq \in Bijection(there, 1..Cardinality(there)) :
    LET n == Cardinality(there)
        rows == { [seq |-> seq[r], rec |-> r, kind |-> "put", id |-> seq[r], ver |-> 1,
                   edits |-> {seq[r]}] : r \in there }
    IN  /\ log = rows
        /\ lastSeq = n
        /\ store = [d \in Device |-> { AsSynced(row) : row \in rows }]
        /\ outbox = [d \in Device |-> {}]
        /\ cursor = [d \in Device |-> n]
        /\ round = [d \in Device |-> Idle]
        /\ late = {}
        /\ nextId = n + 1
        /\ spent = [refused |-> 0, broken |-> 0, late |-> 0]
        /\ created = there
        /\ accepted = 1..n
        /\ belated = {}

MCSpec == MCInit /\ [][Next]_vars

(* Converged and NoEditLost with no record set apart, as they would be of   *)
(* a server that no push given up on ever reaches.                         *)
All == INSTANCE RecordSync WITH belated <- {}

(* Devices and server agree on belated records as well: not if a create    *)
(* arrives after the purge that counted as done (sync-manager.ts).         *)
ConvergedAll == All!Converged

(* No edit of a belated record is lost for good either, once nothing waits: *)
(* not if the first push arrives after its retry was refused               *)
(* (outbox-schema.ts).                                                     *)
NoEditLostAll == Settled => All!NoEditLost
=============================================================================
