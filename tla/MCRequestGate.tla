--------------------------- MODULE MCRequestGate ---------------------------
(***************************************************************************)
(* An instance of RequestGate for TLC: an administrator and a tenant with  *)
(* a token that may only read.  Requests are interchangeable.              *)
(***************************************************************************)
EXTENDS RequestGate, TLC

MCToken    == {"root", "reader"}
MCTenantOf == [t \in MCToken |-> IF t = "root" THEN "dev" ELSE "acme"]
MCScopesOf == [t \in MCToken |-> IF t = "root" THEN Scope ELSE {"jobs:read"}]

RequestSymmetry == Permutations(Request)
=============================================================================
