--------------------------- MODULE MCAuditOutbox ---------------------------
(* Instances of AuditOutbox for TLC. *)
EXTENDS AuditOutbox, TLC

Symmetry == UNION {Permutations(Ids), Permutations(Contents),
                   Permutations(Tokens), Permutations(Relays)}
=============================================================================
