------------------------------ MODULE MCBrowser ------------------------------
(***************************************************************************)
(* Instances of Browser.                                                   *)
(***************************************************************************)
EXTENDS Browser, TLC

CONSTANTS t1, t2, k1, k2, k3

\* Two calls of one tab share a refresh; the other tab has its own.
TwoTabs == k1 :> t1 @@ k2 :> t1 @@ k3 :> t2

\* Passwords, request slots and the two calls of the first tab are alike.
Alike == Permutations(Password) \cup Permutations(Request) \cup Permutations({k1, k2})
=============================================================================
