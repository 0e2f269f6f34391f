----------------------------- MODULE MCAccounts -----------------------------
(* Accounts with two requests in flight; requests are interchangeable, and so *)
(* are addresses.                                                             *)
EXTENDS Accounts, TLC

RequestsAndEmails == {f @@ g : f \in Permutations(Requests), g \in Permutations(Emails)}
=============================================================================
