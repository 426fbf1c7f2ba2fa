---------------------------- MODULE MCProvisioning ----------------------------
(* A small instance of Provisioning: one device, shown by one page, two    *)
(* operations at a time.                                                   *)
EXTENDS Provisioning, TLC

CONSTANTS t1, x1, x2, u1, u2

(* Neither the calls nor the two users or certificates are told apart by   *)
(* any definition.                                                         *)
Alike == {f @@ g @@ h : f \in Permutations(Call), g \in Permutations({u1, u2}),
                        h \in Permutations({x1, x2})}
=============================================================================
