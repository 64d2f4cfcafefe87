------------------------------ MODULE MCIngest ------------------------------
(***************************************************************************)
(* Small instances of Ingest: the old release routes e1 to two             *)
(* destinations and does not know e2, the new one routes each to one.      *)
(***************************************************************************)
EXTENDS Ingest

CONSTANTS oldRelease, newRelease, e1, e2, d1, d2

MCMatch ==
  [p \in Processes |-> [e \in Events |->
     IF p = oldRelease THEN IF e = e1 THEN {d1, d2} ELSE {}
     ELSE IF e = e1 THEN {d1} ELSE {d2}]]
=============================================================================
