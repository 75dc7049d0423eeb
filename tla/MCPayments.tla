----------------------------- MODULE MCPayments -----------------------------
(***************************************************************************)
(* Small instances of what several processes of origin-payments and        *)
(* origin-wallet do to the same files: executor passes and a command that  *)
(* overlap, the journal, audit log and commitments, the wallet file, and   *)
(* the x402 exchange with an endpoint.  One of them runs in each           *)
(* behaviour, the part chosen at the start; the variables of the others    *)
(* stay as their Init has them.                                            *)
(***************************************************************************)
EXTENDS MCExecutor, Books, Purse, X402

\* Books: two bills in two currencies, and what a PSP may report of them.
MCPrice == <<1, 2>>
MCRate == <<2, 1>>
MCCoin == <<"usd", "eur">>
MCFiles == <<"eur", "usd">>
MCPsp == <<{1, 3}, {}>>

\* Purse: a seed in two shards of which one suffices, and in three of which two do.
MCLayouts == {[n |-> 2, k |-> 1], [n |-> 3, k |-> 2]}

-----------------------------------------------------------------------------
paymentVars == <<part, vars, bookVars, purseVars, httpVars>>

PaymentsInit ==
  /\ part \in Parts
  /\ Init /\ BooksInit /\ PurseInit /\ HttpInit
  /\ part = "x402" \/ (pay.amount = 1 /\ pay.url = "e1")

PaymentsNext ==
  \/ part = "executor" /\ Next       /\ UNCHANGED <<part, bookVars, purseVars, httpVars>>
  \/ part = "books"    /\ BooksNext  /\ UNCHANGED <<part, vars, purseVars, httpVars>>
  \/ part = "purse"    /\ PurseNext  /\ UNCHANGED <<part, vars, bookVars, httpVars>>
  \/ part = "x402"     /\ HttpNext   /\ UNCHANGED <<part, vars, bookVars, purseVars>>

PaymentsSpec == PaymentsInit /\ [][PaymentsNext]_paymentVars
=============================================================================
