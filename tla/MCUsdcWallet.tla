---------------------------- MODULE MCUsdcWallet ----------------------------
(* An instance of UsdcWallet for TLC.                                      *)
EXTENDS UsdcWallet, FiniteSets, TLC

CONSTANT w1, w2

\* A voucher that is open for long, signed under either name, one that opens
\* late, and one that ends soon.
MCVouchers ==
  {[from |-> w1, value |-> 1, after |-> a, before |-> b, nonce |-> n, domain |-> d] :
     <<a, b, n, d>> \in {<<0, 9, 1, "USDC">>, <<0, 9, 1, "USD Coin">>, <<1, 9, 2, "USDC">>,
                        <<0, 2, 3, "USDC">>}}

\* Bounds: one kind of fault in a behaviour; two claims, or two requests with
\* at most one claim for their wallet.
OneFault      == Cardinality(faults) <= 1
Started(S)    == {t \in S : pc[t] # "idle"}
OneOrTheOther ==
  Started(Requests) # {} =>
    key = "owner" /\ Cardinality(Started(Claims)) <= 1 /\ \A c \in Started(Claims) : wallet[c] = w1
Interchangeable == Permutations(Claims) \cup Permutations(Requests)
=============================================================================
