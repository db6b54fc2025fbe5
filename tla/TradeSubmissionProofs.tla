----------------------- MODULE TradeSubmissionProofs -----------------------
(***************************************************************************)
(* The submission of intents keeps TradePromise, for any number of         *)
(* requests, signers and any allocation: what a request was answered is    *)
(* true of the ledger for ever, a quote covers the trade it leads to, and  *)
(* a request goes through the handler once.                                *)
(***************************************************************************)
EXTENDS TradeSubmission, TLAPS

\* A transaction exists only after the checks, the ledger holds those that succeeded, and
\* an answer never contradicts them.
AnswerTrue(row, status) ==
    /\ row.answer # "none" <=> row.stage = "done"
    /\ status # "none" => row.stage \in {"wait", "done"}
    /\ row.answer = "ok" => status = "success"
    /\ row.answer = "refused" => status = "none"

\* The allocation in a quote is right as long as its nonce is: only a trade of the agent
\* makes less of it available, and every trade takes a nonce.
QuoteCovers(row) ==
    /\ row.stage \in {"idle", "quoting"} => row.available = 0
    /\ (Spends(row.kind) /\ row.nonce = nonce) =>
            row.stage \in {"idle", "quoting"} \/ row.available <= Cap - used

SubmissionInv ==
    /\ SubmissionTypeOK
    /\ \A r \in Requests :
        /\ AnswerTrue(request[r], tx[r])
        /\ r \in Promise!Executed <=> tx[r] = "success"
        /\ QuoteCovers(request[r])

Row == [stage : Stages, kind : Kinds \cup {"ladder"}, nonce : 0..nonce, available : 0..Cap,
        key : Signers, answer : {"none", "ok", "refused", "unknown"}]
Status == {"none", "pending", "success", "reverted", "dropped"}

USE SubmissionAssumption

-----------------------------------------------------------------------------
(* The inductive invariant. *)

LEMMA InitInv == SubmissionInit => SubmissionInv
  <1> SUFFICES ASSUME SubmissionInit PROVE SubmissionInv
    OBVIOUS
  <1>0. ledger \in Seq(Requests) /\ Len(ledger) = 0
    BY DEF SubmissionInit
  <1> DEFINE key == CHOOSE k \in Signers : TRUE
  <1>1. key \in Signers
    <2>1. \E k \in Signers : TRUE
      BY DEF SubmissionInit
    <2> QED
      BY <2>1, Zenon
  <1>2. NewRequest \in Row
    BY <1>1 DEF NewRequest, Row, Stages, SubmissionInit
  <1>3. SubmissionTypeOK
    <2>1. signer \in Signers /\ used \in 0..Cap /\ ~(used > 0) /\ expired \subseteq Requests
      BY DEF SubmissionInit
    <2>4. active \in BOOLEAN /\ isOpen \in BOOLEAN /\ (isOpen <=> used > 0)
      BY <2>1, Zenon DEF SubmissionInit
    <2>5. nonce \in Nat /\ ledger \in Seq(Requests) /\ nonce = Len(ledger)
      BY <1>0 DEF SubmissionInit
    <2>2. request \in [Requests -> Row]
      BY <1>2 DEF SubmissionInit
    <2>3. tx \in [Requests -> Status]
      BY DEF SubmissionInit, Status
    <2> QED
      BY <2>1, <2>2, <2>3, <2>4, <2>5 DEF SubmissionTypeOK, Row, Status
  <1>4. \A r \in Requests : AnswerTrue(request[r], tx[r]) /\ QuoteCovers(request[r])
    BY DEF SubmissionInit, AnswerTrue, QuoteCovers, NewRequest
  <1>5. \A r \in Requests : r \in Promise!Executed <=> tx[r] = "success"
    <2>1. 1..Len(ledger) = {}
      BY <1>0
    <2>2. Promise!Executed = {}
      BY <2>1, Zenon DEF Promise!Executed
    <2>3. \A r \in Requests : tx[r] = "none"
      BY DEF SubmissionInit
    <2> QED
      BY <2>2, <2>3
  <1> QED
    BY <1>3, <1>4, <1>5 DEF SubmissionInv

\* A step of a request: its record and the fate of its transaction change, the chain not.
LEMMA MoveKeeps ==
    ASSUME SubmissionInv, NEW r \in Requests, NEW from, NEW row \in Row, NEW status \in Status,
           Move(r, from, row), tx' = [tx EXCEPT ![r] = status],
           AnswerTrue(row, status), QuoteCovers(row), status = "success" <=> tx[r] = "success"
    PROVE  SubmissionInv'
  <1> USE DEF Move
  <1>1. SubmissionTypeOK'
    BY DEF SubmissionInv, SubmissionTypeOK, Row, Status, chainVars
  <1>2. ASSUME NEW s \in Requests
        PROVE  /\ AnswerTrue(request'[s], tx'[s])
               /\ s \in (Promise!Executed)' <=> tx'[s] = "success"
               /\ QuoteCovers(request[s])'
    <2>1. CASE s = r
      BY <2>1 DEF SubmissionInv, SubmissionTypeOK, QuoteCovers, chainVars, Promise!Executed
    <2>2. CASE s # r
      BY <2>2 DEF SubmissionInv, SubmissionTypeOK, QuoteCovers, chainVars, Promise!Executed
    <2> QED
      BY <2>1, <2>2
  <1> QED
    BY <1>1, <1>2 DEF SubmissionInv, AnswerTrue

\* A request that goes on, or is answered, is still a request.
LEMMA RowFacts ==
    ASSUME NEW row \in Row, NEW to \in Stages
    PROVE  /\ [row EXCEPT !.stage = to] \in Row
           /\ \A answer \in {"ok", "refused", "unknown"} :
                [row EXCEPT !.stage = to, !.answer = answer] \in Row
  BY DEF Row

\* A request that has no transaction yet, or keeps the one it has.
LEMMA ReplyKeeps ==
    ASSUME SubmissionInv, NEW r \in Requests, NEW from \in Stages \ {"done"},
           NEW answer \in {"ok", "refused", "unknown"}, NEW status \in Status,
           Reply(r, from, answer), tx' = [tx EXCEPT ![r] = status],
           answer = "ok" => status = "success", answer = "refused" => status = "none",
           status = "success" <=> tx[r] = "success"
    PROVE  SubmissionInv'
  <1> DEFINE row == [request[r] EXCEPT !.stage = "done", !.answer = answer]
  <1>1. row \in Row
    <2>1. request[r] \in Row
      BY DEF SubmissionInv, SubmissionTypeOK, Row
    <2>2. "done" \in Stages
      BY DEF Stages
    <2> QED
      BY <2>1, <2>2, RowFacts
  <1>2. AnswerTrue(row, status)
    BY DEF SubmissionInv, SubmissionTypeOK, AnswerTrue
  <1>3. QuoteCovers(row)
    BY DEF SubmissionInv, SubmissionTypeOK, QuoteCovers, Reply, Move
  <1> QED
    BY <1>1, <1>2, <1>3, MoveKeeps DEF Reply

LEMMA GotoKeeps ==
    ASSUME SubmissionInv, NEW r \in Requests,
           NEW from \in {"signed", "agent", "nonce", "send"},
           NEW to \in {"agent", "nonce", "send", "wait"}, NEW status \in {"none", "pending"},
           Goto(r, from, to), tx' = [tx EXCEPT ![r] = status],
           status = "pending" => to = "wait"
    PROVE  SubmissionInv'
  <1> DEFINE row == [request[r] EXCEPT !.stage = to]
  <1>1. row \in Row
    <2>1. request[r] \in Row
      BY DEF SubmissionInv, SubmissionTypeOK, Row
    <2>2. to \in Stages
      BY DEF Stages
    <2> QED
      BY <2>1, <2>2, RowFacts
  <1>2. tx[r] = "none" /\ AnswerTrue(row, status)
    BY DEF SubmissionInv, SubmissionTypeOK, AnswerTrue, Goto, Move
  <1>3. /\ request[r].stage = from /\ QuoteCovers(request[r])
        /\ row.stage = to /\ row.kind = request[r].kind
        /\ row.nonce = request[r].nonce /\ row.available = request[r].available
    BY DEF SubmissionInv, SubmissionTypeOK, Goto, Move
  <1>4. QuoteCovers(row)
    BY <1>3 DEF QuoteCovers
  <1> QED
    BY <1>1, <1>2, <1>4, MoveKeeps DEF Goto, Status

\* Quotes and signatures.
LEMMA QuoteStepKeeps ==
    ASSUME SubmissionInv, NEW r \in Requests, QuoteStep(r)
    PROVE  SubmissionInv'
  <1>0. /\ request[r] \in Row /\ tx[r] \in Status /\ tx' = [tx EXCEPT ![r] = tx[r]]
        /\ AnswerTrue(request[r], tx[r]) /\ QuoteCovers(request[r])
        /\ nonce \in Nat /\ used \in 0..Cap
    BY DEF SubmissionInv, SubmissionTypeOK, Row, Status, QuoteStep, Quiet
  <1>1. ASSUME NEW kind \in Kinds,
               Move(r, "idle", [request[r] EXCEPT !.stage = "quoting", !.kind = kind, !.nonce = nonce])
        PROVE  SubmissionInv'
    <2> DEFINE row == [request[r] EXCEPT !.stage = "quoting", !.kind = kind, !.nonce = nonce]
    <2>1. row \in Row
      <3>1. request[r] \in Row /\ nonce \in 0..nonce /\ kind \in Kinds \cup {"ladder"}
        BY <1>0
      <3> QED
        BY <3>1 DEF Row, Stages
    <2>2. /\ request[r].stage = "idle" /\ row.stage = "quoting"
          /\ row.answer = request[r].answer /\ row.available = request[r].available
      BY <1>0, <1>1 DEF Row, Move
    <2>3. AnswerTrue(row, tx[r]) /\ QuoteCovers(row)
      BY <1>0, <2>2 DEF AnswerTrue, QuoteCovers
    <2> QED
      BY <1>0, <1>1, <2>1, <2>3, MoveKeeps
  <1>2. ASSUME ReadAllocation(r) PROVE SubmissionInv'
    <2> DEFINE row ==
          [request[r] EXCEPT !.stage = "quoted", !.available = Available(request[r].kind)]
    <2>1. Available(request[r].kind) \in 0..Cap
      BY <1>0 DEF Available
    <2>2. row \in Row
      BY <1>0, <2>1 DEF Row, Stages
    <2>3. AnswerTrue(row, tx[r])
      BY <1>0, <1>2 DEF AnswerTrue, ReadAllocation, Move, Row
    <2>4. row.kind = request[r].kind /\ row.stage = "quoted"
          /\ row.available = Available(request[r].kind)
      BY <1>0 DEF Row
    <2>5. QuoteCovers(row)
      BY <1>0, <2>4 DEF QuoteCovers, Available
    <2> QED
      BY <1>0, <1>2, <2>2, <2>3, <2>5, MoveKeeps DEF ReadAllocation
  <1>3. ASSUME QuoteRefused(r) PROVE SubmissionInv'
    <2>1. tx[r] = "none"
      BY <1>0, <1>3 DEF AnswerTrue, QuoteRefused, Reply, Move
    <2> QED
      BY <1>0, <1>3, <2>1, ReplyKeeps DEF QuoteRefused, Stages
  <1>4. ASSUME NEW k \in Signers, SignIntent(r, k) PROVE SubmissionInv'
    <2> DEFINE row == [request[r] EXCEPT !.stage = "signed", !.key = k]
    <2>1. row \in Row
      BY <1>0 DEF Row, Stages
    <2>2. AnswerTrue(row, tx[r])
      BY <1>0, <1>4 DEF AnswerTrue, SignIntent, Move, Row
    <2>3. /\ request[r].stage = "quoted" /\ row.stage = "signed" /\ row.kind = request[r].kind
          /\ row.nonce = request[r].nonce /\ row.available = request[r].available
      BY <1>0, <1>4 DEF Row, SignIntent, Move
    <2>4. QuoteCovers(row)
      BY <1>0, <2>3 DEF QuoteCovers
    <2> QED
      BY <1>0, <1>4, <2>1, <2>2, <2>4, MoveKeeps DEF SignIntent
  <1> QED
    BY <1>1, <1>2, <1>3, <1>4 DEF QuoteStep, getQuote, ReadNonce

\* The checks of the API, the relayer and the receipt.
LEMMA SubmitStepKeeps ==
    ASSUME SubmissionInv, NEW r \in Requests, SubmitStep(r) \/ RequestLost(r)
    PROVE  SubmissionInv'
  <1>0. /\ tx[r] \in Status /\ tx = [tx EXCEPT ![r] = tx[r]]
        /\ request[r].stage \in Stages /\ AnswerTrue(request[r], tx[r])
    BY DEF SubmissionInv, SubmissionTypeOK, Status
  <1>1. request[r].stage \in {"signed", "agent", "nonce", "send"} => tx[r] = "none"
    BY <1>0 DEF AnswerTrue
  <1>2. ASSUME CheckAgent(r), Quiet PROVE SubmissionInv'
    BY <1>0, <1>1, <1>2, GotoKeeps, ReplyKeeps
       DEF CheckAgent, Quiet, Goto, Reply, Move, Stages, Status
  <1>3. ASSUME CheckNonce(r), Quiet PROVE SubmissionInv'
    BY <1>0, <1>1, <1>3, GotoKeeps, ReplyKeeps
       DEF CheckNonce, Quiet, Goto, Reply, Move, Stages, Status
  <1>4. ASSUME CheckSignature(r), Quiet PROVE SubmissionInv'
    BY <1>0, <1>1, <1>4, GotoKeeps, ReplyKeeps
       DEF CheckSignature, Quiet, Goto, Reply, Move, Stages, Status
  <1>5. ASSUME Send(r) PROVE SubmissionInv'
    <2>1. request[r].stage = "send" /\ tx[r] = "none"
      BY <1>1, <1>5 DEF Send, Goto, Reply, Move
    <2>2. ASSUME NEW status \in {"none", "pending"}, NEW answer \in {"refused", "unknown"},
                 answer = "refused" => status = "none",
                 Reply(r, "send", answer), tx' = [tx EXCEPT ![r] = status]
          PROVE  SubmissionInv'
      BY <2>1, <2>2, ReplyKeeps DEF Stages, Status
    <2>3. CASE Goto(r, "send", "wait") /\ tx' = [tx EXCEPT ![r] = "pending"]
      BY <2>3, GotoKeeps
    <2> QED
      BY <1>0, <1>5, <2>1, <2>2, <2>3 DEF Send, Quiet, mapSubmitError
  <1>6. ASSUME writeAndWait(r) PROVE SubmissionInv'
    BY <1>0, <1>6, ReplyKeeps
       DEF writeAndWait, ReceiptSeen, Quiet, mapSubmitError, Stages
  <1>7. ASSUME RequestLost(r) PROVE SubmissionInv'
    BY <1>0, <1>7, ReplyKeeps DEF RequestLost, Quiet, Stages
  <1> QED
    BY <1>2, <1>3, <1>4, <1>5, <1>6, <1>7 DEF SubmitStep

\* A transaction is mined.
LEMMA MineKeeps ==
    ASSUME SubmissionInv, NEW r \in Requests, Mine(r)
    PROVE  SubmissionInv'
  <1>0. /\ SubmissionTypeOK /\ tx[r] = "pending"
        /\ request[r].kind \in {"open", "add", "reduce", "ladder"}
        /\ \A s \in Requests : request[s].nonce <= nonce
    BY DEF SubmissionInv, SubmissionTypeOK, Mine
  <1>1. CASE ~Accepts(r)
    <2>1. UNCHANGED <<chainVars, request, expired>> /\ tx' = [tx EXCEPT ![r] = "reverted"]
      BY <1>1 DEF Mine, chainVars
    <2>2. SubmissionTypeOK'
      BY <1>0, <2>1 DEF SubmissionTypeOK, chainVars
    <2>3. \A s \in Requests : AnswerTrue(request'[s], tx'[s])
      BY <1>0, <2>1 DEF SubmissionInv, SubmissionTypeOK, AnswerTrue
    <2>4. \A s \in Requests : s \in (Promise!Executed)' <=> tx'[s] = "success"
      <3>1. (Promise!Executed)' = Promise!Executed
        BY <2>1 DEF Promise!Executed, chainVars
      <3>2. \A s \in Requests : tx'[s] = "success" <=> tx[s] = "success"
        BY <1>0, <2>1 DEF SubmissionTypeOK
      <3> QED
        BY <3>1, <3>2 DEF SubmissionInv
    <2>5. \A s \in Requests : QuoteCovers(request[s])'
      BY <2>1 DEF SubmissionInv, QuoteCovers, chainVars
    <2> QED
      BY <2>2, <2>3, <2>4, <2>5 DEF SubmissionInv, AnswerTrue
  <1>2. CASE Accepts(r)
    <2>1. /\ nonce' = nonce + 1 /\ ledger' = Append(ledger, r)
          /\ tx' = [tx EXCEPT ![r] = "success"]
          /\ UNCHANGED <<signer, active, request, expired>>
      BY <1>2 DEF Mine, NextNonce
    <2>2. /\ used' \in 0..Cap /\ isOpen' \in BOOLEAN /\ (isOpen' <=> used' > 0)
      <3>1. /\ used \in 0..Cap /\ isOpen \in BOOLEAN /\ (isOpen <=> used > 0)
        BY <1>0 DEF SubmissionTypeOK
      <3>2. Tradable(r)
        BY <1>2 DEF Accepts
      <3>3. CASE request[r].kind \in {"open", "add"}
        <4>1. used' = used + 1 /\ isOpen' = TRUE /\ used < Cap
          BY <1>2, <3>2, <3>3 DEF Mine, Tradable, Spends
        <4> QED
          BY <3>1, <4>1
      <3>4. CASE request[r].kind = "reduce"
        <4>1. used' = 0 /\ isOpen' = FALSE
          BY <1>2, <3>4 DEF Mine
        <4>2. used' \in 0..Cap /\ ~(used' > 0)
          BY <4>1
        <4> QED
          BY <4>1, <4>2, Zenon
      <3>5. CASE request[r].kind = "ladder"
        <4>1. used' = used /\ isOpen' = TRUE /\ isOpen
          BY <1>2, <3>2, <3>5 DEF Mine, Tradable, Adjusts
        <4> QED
          BY <3>1, <4>1
      <3> QED
        BY <1>0, <3>3, <3>4, <3>5
    <2>3. SubmissionTypeOK'
      <3>1. request' \in [Requests -> Row']
        BY <1>0, <2>1 DEF SubmissionTypeOK, Row
      <3>2. ledger' \in Seq(Requests) /\ nonce' = Len(ledger') /\ nonce' \in Nat
        BY <1>0, <2>1 DEF SubmissionTypeOK
      <3> QED
        BY <1>0, <2>1, <2>2, <3>1, <3>2 DEF SubmissionTypeOK, Row
    <2>4. \A s \in Requests : AnswerTrue(request'[s], tx'[s])
      BY <1>0, <2>1 DEF SubmissionInv, SubmissionTypeOK, AnswerTrue
    <2>5. (Promise!Executed)' = Promise!Executed \cup {r}
      <3>1. /\ Len(ledger') = Len(ledger) + 1 /\ ledger'[Len(ledger) + 1] = r
            /\ \A i \in 1..Len(ledger) : ledger'[i] = ledger[i]
            /\ Len(ledger) \in Nat
        BY <1>0, <2>1 DEF SubmissionTypeOK
      <3> QED
        BY <3>1 DEF Promise!Executed
    <2>6. \A s \in Requests : s \in (Promise!Executed)' <=> tx'[s] = "success"
      BY <1>0, <2>1, <2>5 DEF SubmissionInv, SubmissionTypeOK
    <2>7. \A s \in Requests : QuoteCovers(request[s])'
      <3>1. \A s \in Requests : request'[s] = request[s] /\ request[s].nonce # nonce'
        BY <1>0, <2>1 DEF SubmissionTypeOK
      <3> QED
        BY <3>1 DEF SubmissionInv, QuoteCovers
    <2> QED
      BY <2>3, <2>4, <2>6, <2>7 DEF SubmissionInv, AnswerTrue
  <1> QED
    BY <1>1, <1>2

\* Keepers, the operator, the owner, the nodes and the clock.
LEMMA EnvironmentKeeps ==
    ASSUME SubmissionInv,
           \/ \E r \in Requests : Drop(r) \/ Expire(r)
           \/ CloseByOther \/ SetStatus \/ \E k \in Signers : SetSigner(k)
    PROVE  SubmissionInv'
  <1>0. SubmissionTypeOK
    BY DEF SubmissionInv
  <1>1. ASSUME NEW r \in Requests, Drop(r) PROVE SubmissionInv'
    <2>1. SubmissionTypeOK'
      BY <1>0, <1>1 DEF Drop, SubmissionTypeOK, chainVars
    <2>2. \A s \in Requests : AnswerTrue(request'[s], tx'[s])
      BY <1>0, <1>1 DEF Drop, SubmissionInv, SubmissionTypeOK, AnswerTrue
    <2>3. \A s \in Requests : s \in (Promise!Executed)' <=> tx'[s] = "success"
      <3>1. (Promise!Executed)' = Promise!Executed
        BY <1>1 DEF Drop, Promise!Executed, chainVars
      <3>2. \A s \in Requests : tx'[s] = "success" <=> tx[s] = "success"
        BY <1>0, <1>1 DEF Drop, SubmissionTypeOK
      <3> QED
        BY <3>1, <3>2 DEF SubmissionInv
    <2>4. \A s \in Requests : QuoteCovers(request[s])'
      BY <1>1 DEF Drop, SubmissionInv, QuoteCovers, chainVars
    <2> QED
      BY <2>1, <2>2, <2>3, <2>4 DEF SubmissionInv, AnswerTrue
  <1>2. ASSUME NEW r \in Requests, Expire(r) PROVE SubmissionInv'
    BY <1>0, <1>2 DEF Expire, SubmissionInv, SubmissionTypeOK, AnswerTrue, QuoteCovers,
                      Promise!Executed, chainVars
  <1>3. ASSUME CloseByOther PROVE SubmissionInv'
    <2>1. SubmissionTypeOK'
      <3>1. used' = 0 /\ isOpen' = FALSE
            /\ UNCHANGED <<nonce, signer, active, ledger, request, tx, expired>>
        BY <1>3 DEF CloseByOther
      <3>2. used' \in 0..Cap /\ ~(used' > 0)
        BY <3>1
      <3> QED
        BY <1>0, <3>1, <3>2, Zenon DEF SubmissionTypeOK
    <2>2. \A s \in Requests : AnswerTrue(request[s], tx[s])'
      BY <1>3 DEF CloseByOther, SubmissionInv, AnswerTrue
    <2>3. \A s \in Requests : s \in (Promise!Executed)' <=> tx'[s] = "success"
      BY <1>3 DEF CloseByOther, SubmissionInv, Promise!Executed
    <2>4. ASSUME NEW s \in Requests PROVE QuoteCovers(request[s])'
      <3>1. request[s].available \in 0..Cap /\ used' = 0 /\ nonce' = nonce /\ request' = request
        BY <1>0, <1>3 DEF CloseByOther, SubmissionTypeOK
      <3> QED
        BY <3>1 DEF SubmissionInv, QuoteCovers
    <2> QED
      BY <2>1, <2>2, <2>3, <2>4 DEF SubmissionInv
  <1>4. ASSUME SetStatus \/ \E k \in Signers : SetSigner(k) PROVE SubmissionInv'
    <2>1. SubmissionTypeOK'
      <3>1. signer' \in Signers /\ active' \in BOOLEAN
            /\ UNCHANGED <<nonce, isOpen, used, ledger, request, tx, expired>>
        BY <1>0, <1>4, Zenon DEF SetStatus, SetSigner, SubmissionTypeOK
      <3> QED
        BY <1>0, <3>1, Zenon DEF SubmissionTypeOK
    <2> QED
      BY <1>4, <2>1 DEF SetStatus, SetSigner, SubmissionInv, AnswerTrue, QuoteCovers,
                        Promise!Executed
  <1> QED
    BY <1>1, <1>2, <1>3, <1>4

LEMMA NextInv == SubmissionInv /\ [SubmissionNext]_submissionVars => SubmissionInv'
  <1> SUFFICES ASSUME SubmissionInv, [SubmissionNext]_submissionVars PROVE SubmissionInv'
    OBVIOUS
  <1>1. CASE UNCHANGED submissionVars
    <2>1. /\ UNCHANGED <<nonce, signer, active, isOpen, used, ledger>>
          /\ UNCHANGED <<request, tx, expired>>
      BY <1>1 DEF submissionVars, chainVars
    <2>2. (Promise!Executed)' = Promise!Executed
      BY <2>1 DEF Promise!Executed
    <2>3. SubmissionTypeOK'
      BY <2>1 DEF SubmissionInv, SubmissionTypeOK
    <2> QED
      BY <2>1, <2>2, <2>3 DEF SubmissionInv, AnswerTrue, QuoteCovers
  <1>2. CASE SubmissionNext
    BY <1>2, QuoteStepKeeps, SubmitStepKeeps, MineKeeps, EnvironmentKeeps DEF SubmissionNext
  <1> QED
    BY <1>1, <1>2

\* In every reachable state: the types, and what relates answers, transactions and quotes to
\* the ledger.
THEOREM SubmissionInvariant == SubmissionSpec => []SubmissionInv
  BY InitInv, NextInv, PTL DEF SubmissionSpec

\* Nonce, ledger, position, allocation and requests keep their types, for any number of
\* concurrent requests of the agent and any cap (trading.service.ts, TradeRouter.sol).
THEOREM SubmissionTypeCorrect == SubmissionSpec => []SubmissionTypeOK
  <1>1. SubmissionInv => SubmissionTypeOK
    BY DEF SubmissionInv
  <1> QED
    BY <1>1, SubmissionInvariant, PTL

-----------------------------------------------------------------------------
(* The promise of the API. *)

LEMMA InitKeepsPromise == SubmissionInit => Promise!PromiseInit
  BY DEF SubmissionInit, Promise!PromiseInit, NewRequest

\* Every step is a step of the promise, or none at all.
LEMMA StepKeepsPromise ==
    ASSUME SubmissionInv, [SubmissionNext]_submissionVars
    PROVE  [Promise!PromiseNext]_Promise!promiseVars
  <1> USE DEF Promise!promiseVars
  <1>0. /\ \A r \in Requests : /\ request[r] \in Row /\ tx[r] \in Status
                               /\ AnswerTrue(request[r], tx[r])
                               /\ r \in Promise!Executed <=> tx[r] = "success"
        /\ request \in [Requests -> Row] /\ nonce = Len(ledger) /\ nonce \in Nat
    BY DEF SubmissionInv, SubmissionTypeOK, Row, Status
  <1> DEFINE signed == [r \in Requests |-> request[r].nonce]
             verdict == [r \in Requests |-> request[r].answer]
  \* A step of a request that is not answered, leaves its nonce and answers nothing.
  <1>1. ASSUME NEW r \in Requests, NEW from, NEW row, Move(r, from, row),
               row.nonce = request[r].nonce, row.answer = request[r].answer
        PROVE  UNCHANGED <<ledger, signed, verdict>>
    BY <1>0, <1>1 DEF Move, chainVars
  \* An answer that is true of the ledger.
  <1>2. ASSUME NEW r \in Requests, NEW from \in Stages \ {"done"},
               NEW answer \in {"ok", "refused", "unknown"}, Reply(r, from, answer),
               answer = "ok" => tx[r] = "success", answer = "refused" => tx[r] # "success"
        PROVE  Promise!Answer(r)
    <2>1. request[r].stage = from /\ ledger' = ledger
          /\ request' = [request EXCEPT ![r] =
                            [request[r] EXCEPT !.stage = "done", !.answer = answer]]
      BY <1>2 DEF Reply, Move, chainVars
    <2>2. request[r].answer = "none"
      BY <1>0, <2>1 DEF AnswerTrue, Row
    <2>3. signed' = signed /\ verdict' = [verdict EXCEPT ![r] = answer]
      BY <1>0, <2>1 DEF Row
    <2>4. answer \in {"unknown"} \cup (IF r \in Promise!Executed THEN {"ok"} ELSE {"refused"})
      BY <1>0, <1>2
    <2> QED
      BY <2>1, <2>2, <2>3, <2>4 DEF Promise!Answer
  <1>3. ASSUME NEW r \in Requests, NEW from \in {"signed", "agent", "nonce", "send"},
               Reply(r, from, "refused")
        PROVE  Promise!Answer(r)
    <2>1. tx[r] = "none"
      BY <1>0, <1>3 DEF AnswerTrue, Reply, Move
    <2> QED
      BY <1>2, <1>3, <2>1 DEF Stages
  <1>4. ASSUME NEW r \in Requests, NEW from \in Stages \ {"done"}, Reply(r, from, "unknown")
        PROVE  Promise!Answer(r)
    BY <1>2, <1>4
  <1>5. ASSUME NEW r \in Requests, NEW from, NEW to, Goto(r, from, to)
        PROVE  UNCHANGED <<ledger, signed, verdict>>
    <2>1. /\ [request[r] EXCEPT !.stage = to].nonce = request[r].nonce
          /\ [request[r] EXCEPT !.stage = to].answer = request[r].answer
      BY <1>0 DEF Row
    <2> QED
      BY <1>1, <1>5, <2>1 DEF Goto
  <1>6. ASSUME NEW r \in Requests, QuoteStep(r)
        PROVE  \/ UNCHANGED <<ledger, signed, verdict>> \/ Promise!Answer(r)
               \/ \E n \in 0..Len(ledger) : Promise!SignFor(r, n)
    <2>1. CASE ReadNonce(r)
      <3>1. PICK kind \in Kinds :
                Move(r, "idle",
                     [request[r] EXCEPT !.stage = "quoting", !.kind = kind, !.nonce = nonce])
        BY <2>1 DEF ReadNonce
      <3>2. request[r].stage = "idle" /\ ledger' = ledger
            /\ request' = [request EXCEPT ![r] =
                   [request[r] EXCEPT !.stage = "quoting", !.kind = kind, !.nonce = nonce]]
        BY <3>1 DEF Move, chainVars
      <3>3. request[r].answer = "none" /\ tx[r] # "success"
        BY <1>0, <3>2 DEF AnswerTrue, Row
      <3>4. signed' = [signed EXCEPT ![r] = nonce] /\ verdict' = verdict
        BY <1>0, <3>2 DEF Row
      <3>5. PICK n \in 0..Len(ledger) : n = nonce
        BY <1>0
      <3>6. Promise!SignFor(r, n)
        BY <1>0, <3>2, <3>3, <3>4, <3>5 DEF Promise!SignFor
      <3> QED
        BY <3>6
    <2>2. CASE ReadAllocation(r)
      <3> DEFINE row ==
            [request[r] EXCEPT !.stage = "quoted", !.available = Available(request[r].kind)]
      <3>1. row.nonce = request[r].nonce /\ row.answer = request[r].answer
        BY <1>0 DEF Row
      <3> QED
        BY <1>1, <2>2, <3>1 DEF ReadAllocation
    <2>3. CASE QuoteRefused(r)
      <3>1. tx[r] # "success"
        BY <1>0, <2>3 DEF QuoteRefused, Reply, Move, AnswerTrue
      <3> QED
        BY <1>2, <2>3, <3>1 DEF QuoteRefused, Stages
    <2>4. CASE \E k \in Signers : SignIntent(r, k)
      <3>1. PICK k \in Signers :
                Move(r, "quoted", [request[r] EXCEPT !.stage = "signed", !.key = k])
        BY <2>4 DEF SignIntent
      <3>2. /\ [request[r] EXCEPT !.stage = "signed", !.key = k].nonce = request[r].nonce
            /\ [request[r] EXCEPT !.stage = "signed", !.key = k].answer = request[r].answer
        BY <1>0 DEF Row
      <3> QED
        BY <1>1, <3>1, <3>2
    <2> QED
      BY <1>6, <2>1, <2>2, <2>3, <2>4 DEF QuoteStep, getQuote
  <1>7. ASSUME NEW r \in Requests, SubmitStep(r) \/ RequestLost(r)
        PROVE  UNCHANGED <<ledger, signed, verdict>> \/ Promise!Answer(r)
    <2>1. CASE CheckAgent(r) \/ CheckNonce(r) \/ CheckSignature(r)
      BY <1>3, <1>5, <2>1 DEF CheckAgent, CheckNonce, CheckSignature
    <2>2. CASE Send(r)
      BY <1>3, <1>4, <1>5, <2>2 DEF Send, mapSubmitError, Stages
    <2>3. CASE writeAndWait(r)
      <3>1. CASE ReceiptSeen(r)
        BY <1>2, <1>4, <3>1 DEF ReceiptSeen, mapSubmitError, Stages
      <3>2. CASE Reply(r, "wait", mapSubmitError("timeout"))
        BY <1>4, <3>2 DEF mapSubmitError, Stages
      <3> QED
        BY <2>3, <3>1, <3>2 DEF writeAndWait
    <2>4. CASE RequestLost(r)
      BY <1>4, <2>4 DEF RequestLost, Stages
    <2> QED
      BY <1>7, <2>1, <2>2, <2>3, <2>4 DEF SubmitStep
  <1>8. ASSUME NEW r \in Requests, Mine(r)
        PROVE  UNCHANGED <<ledger, signed, verdict>> \/ Promise!ExecuteIntent(r)
    <2>1. tx[r] = "pending" /\ request' = request
      BY <1>8 DEF Mine
    <2>2. request[r].answer \in {"none", "unknown"}
      BY <1>0, <2>1 DEF AnswerTrue, Row
    <2>3. CASE Accepts(r)
      <3>1. ledger' = Append(ledger, r) /\ request[r].nonce = nonce
        BY <1>8, <2>3 DEF Mine, Accepts, ValidNonce
      <3>2. signed[r] = Len(ledger) /\ r \notin Promise!Executed
        BY <1>0, <2>1, <3>1
      <3> QED
        BY <2>1, <2>2, <3>1, <3>2 DEF Promise!ExecuteIntent
    <2>4. CASE ~Accepts(r)
      BY <1>8, <2>1, <2>4 DEF Mine
    <2> QED
      BY <2>3, <2>4
  <1>9. ASSUME \/ \E r \in Requests : Drop(r) \/ Expire(r)
               \/ CloseByOther \/ SetStatus \/ (\E k \in Signers : SetSigner(k))
               \/ UNCHANGED submissionVars
        PROVE  UNCHANGED <<ledger, signed, verdict>>
    BY <1>9 DEF Drop, Expire, CloseByOther, SetStatus, SetSigner, submissionVars, chainVars
  <1>10. CASE \E r \in Requests : QuoteStep(r) \/ SubmitStep(r) \/ RequestLost(r) \/ Mine(r)
    <2>1. PICK r \in Requests : QuoteStep(r) \/ SubmitStep(r) \/ RequestLost(r) \/ Mine(r)
      BY <1>10
    <2>2. \/ UNCHANGED <<ledger, signed, verdict>>
          \/ \E n \in 0..Len(ledger) : Promise!SignFor(r, n)
          \/ Promise!ExecuteIntent(r) \/ Promise!Answer(r)
      BY <1>6, <1>7, <1>8, <2>1
    <2> QED
      BY <2>2 DEF Promise!PromiseNext
  <1>11. CASE \/ \E r \in Requests : Drop(r) \/ Expire(r)
              \/ CloseByOther \/ SetStatus \/ (\E k \in Signers : SetSigner(k))
              \/ UNCHANGED submissionVars
    BY <1>9, <1>11
  <1> QED
    BY <1>10, <1>11 DEF SubmissionNext

\* What the API answers stays true: ok means executed, a refusal means never to be executed,
\* for any number of concurrent requests (submitIntent, submitAdjustIntent, mapSubmitError).
THEOREM SubmissionKeepsPromise == SubmissionSpec => PromiseKept
  BY SubmissionInvariant, InitKeepsPromise, StepKeepsPromise, PTL
     DEF SubmissionSpec, PromiseKept, Promise!PromiseSpec

-----------------------------------------------------------------------------
(* The quote. *)

LEMMA StepKeepsCover ==
    ASSUME SubmissionInv, [SubmissionNext]_submissionVars, NEW r \in Requests,
           tx'[r] = "success", tx[r] # "success", Spends(request[r].kind)
    PROVE  request[r].available <= Cap - used
  <1>0. \A s \in Requests : AnswerTrue(request[s], tx[s]) /\ QuoteCovers(request[s])
    BY DEF SubmissionInv
  <1>1. tx \in [Requests -> Status]
    BY DEF SubmissionInv, SubmissionTypeOK, Status
  <1>2. Mine(r) /\ Accepts(r)
    <2>1. CASE \E s \in Requests : Mine(s)
      BY <1>1, <2>1 DEF Mine
    <2>2. CASE \E s \in Requests : QuoteStep(s) \/ RequestLost(s) \/ Drop(s) \/ Expire(s)
      BY <1>1, <2>2 DEF QuoteStep, RequestLost, Drop, Expire, Quiet
    <2>3. CASE \E s \in Requests : SubmitStep(s)
      BY <1>1, <2>3 DEF SubmitStep, Send, writeAndWait, Quiet
    <2>4. CASE CloseByOther \/ SetStatus \/ (\E k \in Signers : SetSigner(k))
               \/ UNCHANGED submissionVars
      BY <2>4 DEF CloseByOther, SetStatus, SetSigner, submissionVars
    <2> QED
      BY <2>1, <2>2, <2>3, <2>4 DEF SubmissionNext
  <1>3. request[r].nonce = nonce /\ tx[r] = "pending"
    BY <1>2 DEF Mine, Accepts, ValidNonce
  <1>4. request[r].stage \in {"wait", "done"}
    BY <1>0, <1>3 DEF AnswerTrue
  <1> QED
    BY <1>0, <1>3, <1>4 DEF QuoteCovers

\* The allocation a quote reports covers the trade at its execution, whatever the agent's
\* other requests, keepers and the operator did in between (getQuote, buildPositionQuote).
THEOREM QuoteCoversTrade == SubmissionSpec => QuoteStillCovers
  <1>1. SubmissionInv /\ [SubmissionNext]_submissionVars =>
            [\A r \in Requests :
                (tx'[r] = "success" /\ tx[r] # "success" /\ Spends(request[r].kind)) =>
                    request[r].available <= Cap - used]_submissionVars
    BY StepKeepsCover
  <1> QED
    BY <1>1, SubmissionInvariant, PTL DEF SubmissionSpec, QuoteStillCovers

-----------------------------------------------------------------------------
(* Progress without fairness: a request goes through the handler once. *)

StageRank == [idle |-> 0, quoting |-> 1, quoted |-> 2, signed |-> 3, agent |-> 4,
              nonce |-> 5, send |-> 6, wait |-> 7, done |-> 8]
AfterSigning == {"signed", "agent", "nonce", "send", "wait", "done"}

\* A request stands still or gets further, an intent that is signed stays the same to the
\* end, and it is sent at most once, after all checks, whatever becomes of the answer.
Advances(r) ==
    /\ \/ request'[r] = request[r]
       \/ StageRank[request[r].stage] < StageRank[request'[r].stage]
    /\ request[r].stage \in AfterSigning =>
          /\ request'[r].kind = request[r].kind /\ request'[r].nonce = request[r].nonce
          /\ request'[r].key = request[r].key
    /\ \/ tx'[r] = tx[r]
       \/ /\ tx[r] = "none" /\ tx'[r] = "pending"
          /\ request[r].stage = "send" /\ request'[r].stage \in {"wait", "done"}
       \/ /\ tx[r] = "pending" /\ tx'[r] \in {"success", "reverted", "dropped"}
          /\ request'[r] = request[r]
RequestsAdvance == [][\A r \in Requests : Advances(r)]_submissionVars

\* What moves one request and leaves its transaction alone, or sends it.
LEMMA MoveAdvances ==
    ASSUME SubmissionInv, NEW r \in Requests, NEW from \in Stages, NEW row,
           Move(r, from, row), StageRank[from] < StageRank[row.stage],
           from \in AfterSigning =>
               /\ row.kind = request[r].kind /\ row.nonce = request[r].nonce
               /\ row.key = request[r].key,
           \/ UNCHANGED tx
           \/ /\ tx' = [tx EXCEPT ![r] = "pending"]
              /\ from = "send" /\ row.stage \in {"wait", "done"},
           NEW s \in Requests
    PROVE  Advances(s)
  <1>1. /\ request'[r] = row /\ request[r].stage = from
        /\ \A t \in Requests \ {r} : request'[t] = request[t]
    BY DEF Move, SubmissionInv, SubmissionTypeOK
  <1>2. \/ \A t \in Requests : tx'[t] = tx[t]
        \/ /\ tx'[r] = "pending" /\ \A t \in Requests \ {r} : tx'[t] = tx[t]
           /\ from = "send" /\ row.stage \in {"wait", "done"}
    BY DEF SubmissionInv, SubmissionTypeOK
  <1>3. from = "send" => tx[r] = "none"
    BY <1>1 DEF SubmissionInv, AnswerTrue
  <1>4. CASE s = r
    BY <1>1, <1>2, <1>3, <1>4 DEF Advances
  <1>5. CASE s # r
    BY <1>1, <1>2, <1>5 DEF Advances
  <1> QED
    BY <1>4, <1>5

LEMMA ReplyAdvances ==
    ASSUME SubmissionInv, NEW r \in Requests, NEW from \in Stages \ {"done"}, NEW answer,
           Reply(r, from, answer),
           UNCHANGED tx \/ (tx' = [tx EXCEPT ![r] = "pending"] /\ from = "send"),
           NEW s \in Requests
    PROVE  Advances(s)
  <1> DEFINE row == [request[r] EXCEPT !.stage = "done", !.answer = answer]
  <1>1. /\ row.stage = "done" /\ row.kind = request[r].kind
        /\ row.nonce = request[r].nonce /\ row.key = request[r].key
    BY DEF SubmissionInv, SubmissionTypeOK
  <1>2. Move(r, from, row)
    BY DEF Reply
  <1> HIDE DEF row
  <1>3. StageRank[from] < StageRank[row.stage]
    BY <1>1 DEF StageRank, Stages
  <1> QED
    BY <1>1, <1>2, <1>3, MoveAdvances

LEMMA GotoAdvances ==
    ASSUME SubmissionInv, NEW r \in Requests, NEW from \in Stages, NEW to \in Stages,
           Goto(r, from, to), StageRank[from] < StageRank[to],
           UNCHANGED tx \/ (tx' = [tx EXCEPT ![r] = "pending"] /\ from = "send" /\ to = "wait"),
           NEW s \in Requests
    PROVE  Advances(s)
  <1> DEFINE row == [request[r] EXCEPT !.stage = to]
  <1>1. /\ row.stage = to /\ row.kind = request[r].kind
        /\ row.nonce = request[r].nonce /\ row.key = request[r].key
    BY DEF SubmissionInv, SubmissionTypeOK
  <1>2. Move(r, from, row)
    BY DEF Goto
  <1> HIDE DEF row
  <1> QED
    BY <1>1, <1>2, MoveAdvances

LEMMA QuoteAdvances ==
    ASSUME SubmissionInv, NEW r \in Requests, QuoteStep(r), NEW s \in Requests
    PROVE  Advances(s)
  <1>0. UNCHANGED tx
    BY DEF QuoteStep, Quiet
  <1>1. ASSUME NEW from \in {"idle", "quoting", "quoted"}, NEW row, Move(r, from, row),
               StageRank[from] < StageRank[row.stage]
        PROVE  Advances(s)
    BY <1>0, <1>1, MoveAdvances DEF AfterSigning, Stages
  <1>2. ASSUME NEW kind \in Kinds,
               Move(r, "idle", [request[r] EXCEPT !.stage = "quoting", !.kind = kind,
                                                  !.nonce = nonce])
        PROVE  Advances(s)
    <2> DEFINE row == [request[r] EXCEPT !.stage = "quoting", !.kind = kind, !.nonce = nonce]
    <2>1. row.stage = "quoting"
      BY DEF SubmissionInv, SubmissionTypeOK
    <2> HIDE DEF row
    <2>2. StageRank["idle"] < StageRank[row.stage]
      BY <2>1 DEF StageRank
    <2> QED
      BY <1>1, <1>2, <2>2 DEF row
  <1>3. ASSUME NEW available,
               Move(r, "quoting", [request[r] EXCEPT !.stage = "quoted",
                                                     !.available = available])
        PROVE  Advances(s)
    <2> DEFINE row == [request[r] EXCEPT !.stage = "quoted", !.available = available]
    <2>1. row.stage = "quoted"
      BY DEF SubmissionInv, SubmissionTypeOK
    <2> HIDE DEF row
    <2>2. StageRank["quoting"] < StageRank[row.stage]
      BY <2>1 DEF StageRank
    <2> QED
      BY <1>1, <1>3, <2>2 DEF row
  <1>4. CASE QuoteRefused(r)
    BY <1>0, <1>4, ReplyAdvances DEF QuoteRefused, Stages
  <1>5. ASSUME NEW k, SignIntent(r, k) PROVE Advances(s)
    <2> DEFINE row == [request[r] EXCEPT !.stage = "signed", !.key = k]
    <2>1. row.stage = "signed"
      BY DEF SubmissionInv, SubmissionTypeOK
    <2>2. Move(r, "quoted", row)
      BY <1>5 DEF SignIntent
    <2> HIDE DEF row
    <2>3. StageRank["quoted"] < StageRank[row.stage]
      BY <2>1 DEF StageRank
    <2> QED
      BY <1>1, <2>2, <2>3
  <1> QED
    BY <1>2, <1>3, <1>4, <1>5 DEF QuoteStep, getQuote, ReadNonce, ReadAllocation

LEMMA SubmitAdvances ==
    ASSUME SubmissionInv, NEW r \in Requests, SubmitStep(r) \/ RequestLost(r), NEW s \in Requests
    PROVE  Advances(s)
  <1> USE DEF Stages, StageRank, Quiet
  <1>1. CASE CheckAgent(r) /\ Quiet
    BY <1>1, GotoAdvances, ReplyAdvances DEF CheckAgent
  <1>2. CASE CheckNonce(r) /\ Quiet
    BY <1>2, GotoAdvances, ReplyAdvances DEF CheckNonce
  <1>3. CASE CheckSignature(r) /\ Quiet
    BY <1>3, GotoAdvances, ReplyAdvances DEF CheckSignature
  <1>4. CASE Send(r)
    BY <1>4, GotoAdvances, ReplyAdvances DEF Send
  <1>5. CASE writeAndWait(r)
    BY <1>5, ReplyAdvances DEF writeAndWait, ReceiptSeen
  <1>6. CASE RequestLost(r)
    BY <1>6, ReplyAdvances DEF RequestLost
  <1> QED
    BY <1>1, <1>2, <1>3, <1>4, <1>5, <1>6 DEF SubmitStep

LEMMA ChainAdvances ==
    ASSUME SubmissionInv, NEW r \in Requests, Mine(r) \/ Drop(r), NEW s \in Requests
    PROVE  Advances(s)
  <1>1. /\ UNCHANGED request /\ tx[r] = "pending"
        /\ \E status \in {"success", "reverted", "dropped"} : tx' = [tx EXCEPT ![r] = status]
    BY DEF Mine, Drop
  <1> QED
    BY <1>1 DEF Advances, SubmissionInv, SubmissionTypeOK

\* submitIntent, submitAdjustIntent, writeAndWait: no request goes in circles, submits its
\* intent twice or replaces it after a check, however its reads, its transaction and the
\* chain's other actors interleave.  With fairness it is why every request is answered.
THEOREM RequestsAdvanceOnce == SubmissionSpec => RequestsAdvance
  <1>1. ASSUME SubmissionInv, [SubmissionNext]_submissionVars, NEW s \in Requests
        PROVE  Advances(s)
    <2>1. ASSUME UNCHANGED <<request, tx>> PROVE Advances(s)
      BY <2>1 DEF Advances
    <2>2. CASE \E r \in Requests : QuoteStep(r) \/ SubmitStep(r) \/ RequestLost(r)
      BY <1>1, <2>2, QuoteAdvances, SubmitAdvances
    <2>3. CASE \E r \in Requests : Mine(r) \/ Drop(r)
      BY <1>1, <2>3, ChainAdvances
    <2>4. CASE \/ \E r \in Requests : Expire(r)
               \/ CloseByOther \/ SetStatus \/ \E k \in Signers : SetSigner(k)
      BY <2>1, <2>4 DEF Expire, CloseByOther, SetStatus, SetSigner
    <2>5. CASE UNCHANGED submissionVars
      BY <2>1, <2>5 DEF submissionVars
    <2> QED
      BY <1>1, <2>2, <2>3, <2>4, <2>5 DEF SubmissionNext
  <1>2. SubmissionInv /\ [SubmissionNext]_submissionVars =>
            [\A r \in Requests : Advances(r)]_submissionVars
    BY <1>1
  <1> QED
    BY <1>2, SubmissionInvariant, PTL DEF SubmissionSpec, RequestsAdvance
=============================================================================
