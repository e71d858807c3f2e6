----------------------------- MODULE MCOnboarding ------------------------------
(***************************************************************************)
(* A finite instance of Onboarding: three requests, two spellings of one   *)
(* address and another address, one bank account of one user.              *)
(***************************************************************************)
EXTENDS Onboarding, TLC

CONSTANTS r1, r2, r3, ann, ANN, bob, pix

MCLower == (ann :> ann) @@ (ANN :> ann) @@ (bob :> bob)

MCCalls ==
    [kind : {"register"}, email : {ann, ANN, bob}] \cup [kind : {"link"}, ref : {pix}]
================================================================================
