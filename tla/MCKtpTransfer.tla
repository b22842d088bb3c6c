---------------------------- MODULE MCKtpTransfer ----------------------------
(* KtpTransfer for TLC: the bounds are the constants of the .cfg files.    *)
EXTENDS KtpTransferInv
=============================================================================
