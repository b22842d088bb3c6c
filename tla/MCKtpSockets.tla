---------------------------- MODULE MCKtpSockets -----------------------------
(* KtpSockets for TLC: processes that initsocket may signal are            *)
(* interchangeable, and so are those it may not; and so are the addresses, *)
(* which no step orders.                                                   *)
EXTENDS KtpSockets, TLC

Symmetry ==
    {f \in Permutations(Pids) : {f[p] : p \in Foreign} = Foreign}
        \cup Permutations(Addrs)
=============================================================================
