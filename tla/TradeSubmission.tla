-------------------------- MODULE TradeSubmission --------------------------
(***************************************************************************)
(* The intents of one agent on their way from a quote of the trading API   *)
(* to the chain and back (trading.service.ts, trade-router.service.ts).    *)
(* A client asks for a quote, signs, and submits; the API checks the       *)
(* intent with several reads, one after the other, lets the relayer send   *)
(* the transaction and waits for its receipt.  Between any two steps other *)
(* requests of the agent, keepers, the operator and the owner move the     *)
(* chain; a transaction may be mined late, in any order, or never; the     *)
(* answer of the node, the receipt or the request itself may be lost.      *)
(*                                                                         *)
(* The chain is what the checks look at: nonce, signer, status, the one    *)
(* position of the agent and the part of its allocation in use.  Nonces    *)
(* are kept per agent, so agents do not interact here.                     *)
(***************************************************************************)
EXTENDS Naturals, Sequences

CONSTANTS Requests,       \* trades the clients attempt
          Signers,        \* keys the agent's signer may be
          Kinds,          \* subset of {"open", "add", "reduce", "ladder"}
          Cap             \* the agent's allocation, in trades

ASSUME SubmissionAssumption ==
    /\ Kinds \subseteq {"open", "add", "reduce", "ladder"}
    /\ Cap \in Nat

VARIABLES nonce, signer, active,   \* router nonce, registry signer and status
          isOpen, used,            \* the position and the allocation in use
          ledger,                  \* requests executed, in order
          request,                 \* the requests in the API
          tx,                      \* their transactions
          expired                  \* requests whose deadline has passed

chainVars == <<nonce, signer, active, isOpen, used, ledger>>
submissionVars == <<chainVars, request, tx, expired>>

Stages == {"idle", "quoting", "quoted", "signed", "agent", "nonce", "send", "wait", "done"}
NewRequest == [stage |-> "idle", kind |-> "ladder", nonce |-> 0, available |-> 0,
               key |-> CHOOSE k \in Signers : TRUE, answer |-> "none"]

SubmissionInit ==
    /\ nonce = 0 /\ signer \in Signers /\ active = TRUE
    /\ isOpen = FALSE /\ used = 0 /\ ledger = <<>>
    /\ request = [r \in Requests |-> NewRequest]
    /\ tx = [r \in Requests |-> "none"]
    /\ expired = {}

-----------------------------------------------------------------------------
(* The chain: TradeRouter, and everybody else who moves it. *)

Adjusts(kind) == kind # "open"
Spends(kind) == kind \in {"open", "add"}

\* _validateOpenIntent, _validateAddIntent, _validateReduceIntent and their like.
ValidSignature(r) == request[r].key = signer
ValidNonce(r) == request[r].nonce = nonce
InTime(r) == r \notin expired
Tradable(r) ==
    /\ active
    /\ isOpen <=> Adjusts(request[r].kind)
    /\ Spends(request[r].kind) => used < Cap
Accepts(r) == ValidNonce(r) /\ InTime(r) /\ ValidSignature(r) /\ Tradable(r)

\* Each of the four functions increments the nonce on its own.
NextNonceOfTrades(kind) == IF kind = "ladder" THEN nonce ELSE nonce + 1
NextNonce(kind) == nonce + 1

\* The transaction is mined: it executes the intent, or reverts and changes nothing.
Mine(r) ==
    /\ tx[r] = "pending"
    /\ IF Accepts(r)
         THEN /\ tx' = [tx EXCEPT ![r] = "success"]
              /\ nonce' = NextNonce(request[r].kind)
              /\ ledger' = Append(ledger, r)
              /\ used' = CASE request[r].kind = "reduce" -> 0
                           [] request[r].kind = "ladder" -> used
                           [] OTHER -> used + 1
              /\ isOpen' = (request[r].kind # "reduce")
         ELSE /\ tx' = [tx EXCEPT ![r] = "reverted"]
              /\ UNCHANGED <<nonce, ledger, used, isOpen>>
    /\ UNCHANGED <<signer, active, request, expired>>

\* A node forgets the transaction.
Drop(r) ==
    /\ tx[r] = "pending"
    /\ tx' = [tx EXCEPT ![r] = "dropped"]
    /\ UNCHANGED <<chainVars, request, expired>>

\* executeExit or forceClose closes the position; neither uses a nonce.
CloseByOther ==
    /\ isOpen
    /\ isOpen' = FALSE /\ used' = 0
    /\ UNCHANGED <<nonce, signer, active, ledger, request, tx, expired>>

SetStatus ==
    /\ active' = ~active
    /\ UNCHANGED <<nonce, signer, isOpen, used, ledger, request, tx, expired>>

SetSigner(k) ==
    /\ signer' = k
    /\ UNCHANGED <<nonce, active, isOpen, used, ledger, request, tx, expired>>

\* A deadline is some minutes after the quote.
Expire(r) ==
    /\ request[r].stage # "idle" /\ r \notin expired
    /\ expired' = expired \cup {r}
    /\ UNCHANGED <<chainVars, request, tx>>

-----------------------------------------------------------------------------
(* Quotes and signatures. *)

Move(r, from, new) ==
    /\ request[r].stage = from
    /\ request' = [request EXCEPT ![r] = new]
    /\ UNCHANGED <<chainVars, expired>>
Goto(r, from, to) == Move(r, from, [request[r] EXCEPT !.stage = to])
Reply(r, from, answer) ==
    Move(r, from, [request[r] EXCEPT !.stage = "done", !.answer = answer])
Quiet == UNCHANGED tx

Available(kind) == IF Spends(kind) THEN Cap - used ELSE 0
ReadNonce(r) ==
    \E kind \in Kinds :
        Move(r, "idle", [request[r] EXCEPT !.stage = "quoting", !.kind = kind, !.nonce = nonce])
ReadAllocation(r) ==
    Move(r, "quoting",
         [request[r] EXCEPT !.stage = "quoted", !.available = Available(request[r].kind)])
AllocationFirst(r) ==
    \/ \E kind \in Kinds :
        Move(r, "idle", [request[r] EXCEPT !.stage = "quoting", !.kind = kind,
                                           !.available = Available(kind)])
    \/ Move(r, "quoting", [request[r] EXCEPT !.stage = "quoted", !.nonce = nonce])

\* getQuote and buildPositionQuote: the nonce first, the allocation after it.
getQuote(r) == ReadNonce(r) \/ ReadAllocation(r)

\* buildPositionQuote refuses a position that is not open; its read is concurrent with
\* the nonce's, so a quote for a closed position may pass as well.
QuoteRefused(r) ==
    /\ Adjusts(request[r].kind) /\ ~isOpen
    /\ Reply(r, "quoting", "refused")

\* The client signs with the key it has, which may be an earlier signer's.
SignIntent(r, k) ==
    Move(r, "quoted", [request[r] EXCEPT !.stage = "signed", !.key = k])

-----------------------------------------------------------------------------
(* submitIntent and submitAdjustIntent. *)

\* What an error is worth to the caller: a check of the API and a revert named by the
\* simulation are 4xx or 503, everything else is 502.
AllRefused(error) == "refused"
mapSubmitError(error) == IF error = "revert" THEN "refused" ELSE "unknown"

\* getAgent and, for an adjustment, getPosition.
CheckAgent(r) ==
    IF active /\ (Adjusts(request[r].kind) => isOpen)
      THEN Goto(r, "signed", "agent")
      ELSE Reply(r, "signed", "refused")

\* validateNonceDeadline.
CheckNonce(r) ==
    IF InTime(r) /\ ValidNonce(r)
      THEN Goto(r, "agent", "nonce")
      ELSE Reply(r, "agent", "refused")

\* signerOf and the verification of the typed data.
CheckSignature(r) ==
    IF ValidSignature(r)
      THEN Goto(r, "nonce", "send")
      ELSE Reply(r, "nonce", "refused")

\* writeContract simulates the call and sends it; the node's answer may be lost, with or
\* without the transaction.
Send(r) ==
    \/ /\ Accepts(r)
       /\ \/ Goto(r, "send", "wait")
          \/ Reply(r, "send", mapSubmitError("network"))
       /\ tx' = [tx EXCEPT ![r] = "pending"]
    \/ /\ ~Accepts(r)
       /\ Reply(r, "send", mapSubmitError("revert")) /\ Quiet
    \/ Reply(r, "send", mapSubmitError("network")) /\ Quiet

\* waitForTransactionReceipt: the receipt, or a timeout in any state of the transaction.
ReceiptSeen(r) ==
    /\ tx[r] \in {"success", "reverted"}
    /\ Reply(r, "wait", IF tx[r] = "success" THEN "ok" ELSE mapSubmitError("reverted"))
WaitForReceipt(r) == ReceiptSeen(r) /\ Quiet
writeAndWait(r) ==
    /\ ReceiptSeen(r) \/ Reply(r, "wait", mapSubmitError("timeout"))
    /\ Quiet

\* The request dies: the caller sees a broken connection and knows nothing.
RequestLost(r) ==
    /\ request[r].stage \in {"signed", "agent", "nonce", "send", "wait"}
    /\ Reply(r, request[r].stage, "unknown") /\ Quiet

SubmitStep(r) ==
    \/ (CheckAgent(r) \/ CheckNonce(r) \/ CheckSignature(r)) /\ Quiet
    \/ Send(r)
    \/ writeAndWait(r)

QuoteStep(r) ==
    /\ \/ getQuote(r)
       \/ QuoteRefused(r)
       \/ \E k \in Signers : SignIntent(r, k)
    /\ Quiet

SubmissionNext ==
    \/ \E r \in Requests :
        \/ QuoteStep(r) \/ SubmitStep(r) \/ RequestLost(r)
        \/ Mine(r) \/ Drop(r) \/ Expire(r)
    \/ CloseByOther \/ SetStatus
    \/ \E k \in Signers : SetSigner(k)

\* A request that was submitted goes on: every await of the handler ends, the wait for a
\* receipt by its timeout at the latest.  Nothing is assumed of the chain.
SubmissionSpec ==
    /\ SubmissionInit /\ [][SubmissionNext]_submissionVars
    /\ \A r \in Requests : WF_submissionVars(SubmitStep(r))

-----------------------------------------------------------------------------
(* Properties. *)

\* Types, and the ledger as a record of the nonce.
SubmissionTypeOK ==
    /\ nonce \in Nat /\ nonce = Len(ledger)
    /\ signer \in Signers /\ active \in BOOLEAN /\ isOpen \in BOOLEAN
    /\ used \in 0..Cap /\ (isOpen <=> used > 0)
    /\ ledger \in Seq(Requests)
    /\ request \in [Requests -> [stage : Stages, kind : Kinds \cup {"ladder"}, nonce : 0..nonce,
                                 available : 0..Cap, key : Signers,
                                 answer : {"none", "ok", "refused", "unknown"}]]
    /\ tx \in [Requests -> {"none", "pending", "success", "reverted", "dropped"}]
    /\ expired \subseteq Requests

\* The API keeps its promise: an answer ok means executed, a 4xx or 503 means never to be
\* executed, whatever is mined, dropped, lost or timed out in between, and nonces are used
\* one by one (submitIntent, submitAdjustIntent, mapSubmitError, writeAndWait).
Promise == INSTANCE TradePromise WITH
    signed <- [r \in Requests |-> request[r].nonce],
    verdict <- [r \in Requests |-> request[r].answer]
PromiseKept == Promise!PromiseSpec

\* The allocation a quote reports still covers the trade when it is executed: the nonce is
\* read before the allocation, so a trade of the agent in between makes the nonce stale
\* instead of the amount (getQuote, buildPositionQuote).
QuoteStillCovers ==
    [][\A r \in Requests :
        (tx'[r] = "success" /\ tx[r] # "success" /\ Spends(request[r].kind)) =>
            request[r].available <= Cap - used]_submissionVars

\* Every submitted request is answered, though its transaction may never be mined.
RequestsAnswered ==
    \A r \in Requests : request[r].stage = "signed" ~> request[r].stage = "done"
=============================================================================
