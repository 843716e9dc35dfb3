----------------------------- MODULE PaymentDomain -----------------------------
(***************************************************************************)
(* The values the payment tables and the Stellar ledger have in common.    *)
(***************************************************************************)
CONSTANTS
  Memos,        \* correlation memos, each with the account it is paid to
  Amounts,      \* decimal amounts
  TxHashes,     \* Stellar transaction hashes
  None          \* Option::None
=============================================================================
