------------------------------ MODULE MCMcpServer ------------------------------
(* Prices 1 to 3 against a threshold of 1, a cap of 2 per payment and of 2    *)
(* per day.  A challenge may also lead with a cheaper token nobody will pay   *)
(* in.  A hold lasts one tick and a day two.                                   *)
EXTENDS McpServer, TLC

Hbar(amount) == [network |-> "hedera:testnet", asset |-> "0.0.0", amount |-> amount]
Token(amount) == [network |-> "hedera:testnet", asset |-> "0.0.429274", amount |-> amount]

MCChallenges == {<<Hbar(1)>>, <<Hbar(2)>>, <<Hbar(3)>>, <<Token(1), Hbar(2)>>}

CallSymmetry == Permutations(Calls)
=============================================================================
