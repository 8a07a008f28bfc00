------------------------------ MODULE WalletPayment ------------------------------
(***************************************************************************)
(* Paying from a browser (client/src/payment.ts, client/src/browser): a    *)
(* fetch that answers a 402 by asking a wallet to sign, below the renter's *)
(* own cap, and that fails unless a settlement comes back.                 *)
(***************************************************************************)
EXTENDS Integers, Sequences

CONSTANT Absent   \* a field left out

\* One way to pay.  feePayer is the account the facilitator pays fees from.
PaymentRequirements ==
  [network : STRING, asset : STRING, amount : Nat, feePayer : {"facilitator", Absent}]

\* What a wallet does with a transaction it is asked to sign: sign it, put its own
\* account in the fee payer's place, or let the renter decline.
WalletSigners == {"signs", "refreezes", "declines"}

\* The option a challenge may be paid by: HBAR, on the node's network, below the
\* cap.
Acceptable(option, network, cap) ==
  option.network = network /\ option.asset = "0.0.0" /\ option.amount <= cap

\* A payload is built only for a named fee payer and a positive amount, and kept
\* only if the wallet left the fee payer where it was.
WalletSigns(option, wallet) ==
  /\ option.feePayer # Absent
  /\ option.amount > 0
  /\ wallet = "signs"

\* The paying fetch goes back to the node with a payload, or throws.
PaysChallenge(challenge, network, cap, wallet) ==
  LET options == SelectSeq(challenge, LAMBDA option : Acceptable(option, network, cap))
  IN options # <<>> /\ WalletSigns(options[1], wallet)
=============================================================================
