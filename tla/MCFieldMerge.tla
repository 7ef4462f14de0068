---------------------------- MODULE MCFieldMerge ----------------------------
(* Instances of FieldMerge for TLC.                                        *)
EXTENDS FieldMerge, TLC

CONSTANTS d1, d2, d3, note, password, work

MCNoSkew == [d \in Device |-> 0]

(* One device's clock runs ahead by two writes, the others' are right.     *)
MCSkew == [d \in Device |-> IF d = d1 THEN 2 ELSE 0]

DeviceSymmetry == Permutations(Device)
=============================================================================
