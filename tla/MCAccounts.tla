----------------------------- MODULE MCAccounts ----------------------------
(* An instance of Accounts for TLC: one manager, and two people who are    *)
(* about to get accounts, one of whom spells an address in two ways.       *)
EXTENDS Accounts

CONSTANTS u1, u2, u3

TwoSpellings ==
  [a \in Spelling |-> IF a = "Ada@x.ng " THEN "ada@x.ng" ELSE a]

OneManager ==
  [u \in UserId |->
     IF u = u1 THEN [email |-> "boss@x.ng", role |-> "manager", active |-> TRUE]
     ELSE NoUser]
=============================================================================
