----------------------------- MODULE MCVerified -----------------------------
(***************************************************************************)
(* The programs of MCControlFlow with certificates for their code: the     *)
(* shapes that are reached when every branch is taken and everything that  *)
(* can throw does.  Where Sound fails the search goes no further, and      *)
(* CertificateAssumption does not hold.                                    *)
(***************************************************************************)
EXTENDS MCControlFlow, Verifier

RECURSIVE Reach(_, _, _)

Reach(ins, found, new) ==
  IF new = {} THEN found
  ELSE LET safe == {x \in new : x[1] \in DOMAIN ins /\ Sound(ins[x[1]], x[2])}
           all  == found \cup new
       IN  Reach(ins, all, UNION {Flow(ins[x[1]], x[1], x[2]) : x \in safe} \ all)

ShapesOf(ins) == LET found == Reach(ins, {}, {<<0, Start>>})
                 IN  [a \in {x[1] : x \in found} |-> {x[2] : x \in {y \in found : y[1] = a}}]

Verify == LET all == Compiled IN <<>> \o [n \in 1 .. Len(all) |-> ShapesOf(all[n].ins)]

MCCertificate == Verify
=============================================================================
