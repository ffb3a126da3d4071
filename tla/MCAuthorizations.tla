-------------------------- MODULE MCAuthorizations --------------------------
(***************************************************************************)
(* Model-checking instances of Authorizations.                             *)
(* The formula below is one that a comment states and the code does not    *)
(* keep: README.md (Departures) says how it fails.                         *)
(***************************************************************************)
EXTENDS Authorizations

(* The authorizations are generated alike.                                 *)
MCSymmetry == Permutations(Auths)

(* "how many clients connected with this auth"                             *)
RefcntIsUsers ==
    \A a \in Auths : auths[a].valid => auths[a].refcnt = Cardinality(Users(a))
=============================================================================
