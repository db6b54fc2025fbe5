---------------------------- MODULE TradePromise ----------------------------
(***************************************************************************)
(* What the trading API promises about the intents of one agent.  Intents  *)
(* are executed at most once each, one per nonce and in nonce order.  An   *)
(* accepted intent has been executed.  A refused one has not and never     *)
(* will be: the caller may sign again.  Only an unknown answer leaves both *)
(* possible, and the caller has to look at the chain.                      *)
(***************************************************************************)
EXTENDS Naturals, Sequences

CONSTANT Requests

VARIABLES ledger,     \* requests whose intent was executed, in order
          signed,       \* nonce the intent of a request carries
          verdict     \* the answer: "none", "ok", "refused" or "unknown"

promiseVars == <<ledger, signed, verdict>>

Executed == {ledger[i] : i \in 1..Len(ledger)}

PromiseInit ==
    /\ ledger = <<>>
    /\ signed \in [Requests -> {0}]
    /\ verdict = [r \in Requests |-> "none"]

SignFor(r, nonce) ==
    /\ r \notin Executed /\ verdict[r] = "none"
    /\ signed' = [signed EXCEPT ![r] = nonce]
    /\ UNCHANGED <<ledger, verdict>>

ExecuteIntent(r) ==
    /\ r \notin Executed /\ verdict[r] \in {"none", "unknown"}
    /\ signed[r] = Len(ledger)
    /\ ledger' = Append(ledger, r)
    /\ UNCHANGED <<signed, verdict>>

Answer(r) ==
    /\ verdict[r] = "none"
    /\ \E answer \in {"unknown"} \cup (IF r \in Executed THEN {"ok"} ELSE {"refused"}) :
            verdict' = [verdict EXCEPT ![r] = answer]
    /\ UNCHANGED <<ledger, signed>>

PromiseNext ==
    \E r \in Requests :
        \/ \E nonce \in 0..Len(ledger) : SignFor(r, nonce)
        \/ ExecuteIntent(r)
        \/ Answer(r)

PromiseSpec == PromiseInit /\ [][PromiseNext]_promiseVars
=============================================================================
