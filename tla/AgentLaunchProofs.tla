------------------------- MODULE AgentLaunchProofs -------------------------
(***************************************************************************)
(* Custody of keys and payment against delivery, for any number of drafts, *)
(* keys, handles and concurrent requests: a key is in one place and belongs *)
(* to its agent, and who pays gets the agent.                              *)
(***************************************************************************)
EXTENDS AgentLaunch, FiniteSetTheorems, TLAPS

USE ManagedAssumption, DraftsAssumption, LaunchAssumption

\* Stages of a request that has registered an agent, and of a launch whose draft has
\* given its key away.
Registered == {"record", "signer", "profile", "settle"}
HandedOver == {"signer", "profile", "settle"}

\* What a request is at each of its stages.
Shape(q) ==
    /\ q.stage = "idle" => q = NoRequest
    /\ q.kind = "none" => q.stage = "idle"
    /\ q.kind \in {"create", "edit"} => q.stage = "write"
    /\ q.kind = "create" => q.row.key = NoRow
    /\ q.kind = "provision" => q.stage = "provision"
    /\ q.kind = "register" => q.stage \in {"relay", "settle"}
    /\ q.kind = "launch" =>
        /\ q.stage \notin {"write", "provision"}
        /\ q.row.key \in Keys /\ q.row.address = q.row.key
    /\ q.kind \notin {"none", "register"} => q.draft \in DraftIds
    /\ q.agent # 0 <=> q.stage \in Registered

\* A registered agent has the signer the request names; of the drafts only the one that is
\* launched may have the key of the launch, and only until the launch is recorded.
RequestOK(r) ==
    LET q == request[r]
        a == q.agent
    IN
    /\ Shape(q)
    /\ a # 0 =>
        /\ agents[a] = SignerOf(r)
        /\ \A s \in Requests \ {r} : request[s].agent # a
    /\ q.kind = "launch" =>
        /\ q.row.key \in usedKeys
        /\ \A d \in DraftIds : drafts[d].key = q.row.key =>
                d = q.draft /\ q.stage \notin HandedOver
        /\ q.stage \in {"profile", "settle"} => signers[a] # NoRow
        /\ q.stage = "settle" => profiles[a] # NoRow

\* A key in a table has been generated: a fresh one is nowhere yet.
KeysUsed ==
    /\ \A d \in DraftIds : drafts[d].key # NoRow => drafts[d].key \in usedKeys
    /\ \A a \in ManagedIds : HasKey(a) => signers[a] \in usedKeys

\* There is room on chain for the registrations that are not mined yet.
RoomKept == IsFiniteSet(inFlight) /\ Len(agents) + Cardinality(inFlight) <= MaxRegistered

LaunchInv ==
    /\ LaunchTypeOK
    /\ RoomKept
    /\ \A r \in Requests : RequestOK(r)
    /\ KeysUsed /\ CustodyExact

Request == [kind : Kinds, stage : RequestStages, draft : DraftIds \cup {NoRow}, row : DraftRow,
            agent : 0..Len(agents)]

-----------------------------------------------------------------------------
(* The steps of a request, field by field. *)

LEMMA Answers ==
    ASSUME NEW r \in Requests, NEW from, request[r] \in Request, Answered(r, from)
    PROVE  /\ request[r].stage = from
           /\ request' = [request EXCEPT ![r] = NoRequest]
<1> DEFINE q == request[r]
<1>1. DOMAIN q = {"kind", "stage", "draft", "row", "agent"}
  BY DEF Request
<1>2. [f \in DOMAIN q |-> IF f \in DOMAIN NoRequest THEN NoRequest[f] ELSE q[f]] = NoRequest
  BY <1>1 DEF NoRequest
<1> QED
  BY <1>2 DEF Answered, Go

LEMMA Begins ==
    ASSUME NEW r \in Requests, NEW kind, NEW stage, NEW d, NEW row, request[r] \in Request,
           Begin(r, kind, stage, d, row)
    PROVE  /\ request[r].stage = "idle"
           /\ request' = [request EXCEPT ![r] = [kind |-> kind, stage |-> stage, draft |-> d,
                                                 row |-> row, agent |-> request[r].agent]]
<1> DEFINE q == request[r]
           new == [kind |-> kind, stage |-> stage, draft |-> d, row |-> row]
<1>1. DOMAIN q = {"kind", "stage", "draft", "row", "agent"}
  BY DEF Request
<1>2. [f \in DOMAIN q |-> IF f \in DOMAIN new THEN new[f] ELSE q[f]] =
        [kind |-> kind, stage |-> stage, draft |-> d, row |-> row, agent |-> q.agent]
  BY <1>1
<1> QED
  BY <1>2 DEF Begin, Go

LEMMA MovesOn ==
    ASSUME NEW r \in Requests, NEW from, NEW to, request[r] \in Request, Go(r, from, [stage |-> to])
    PROVE  /\ request[r].stage = from
           /\ request' = [request EXCEPT ![r] = [request[r] EXCEPT !.stage = to]]
<1> DEFINE q == request[r]
           new == [stage |-> to]
<1>1. DOMAIN q = {"kind", "stage", "draft", "row", "agent"} /\ "stage" \in DOMAIN q
  BY DEF Request
<1>2. [f \in DOMAIN q |-> IF f \in DOMAIN new THEN new[f] ELSE q[f]] = [q EXCEPT !.stage = to]
  BY <1>1
<1> QED
  BY <1>2 DEF Go

LEMMA GetsAgent ==
    ASSUME NEW r \in Requests, NEW from, NEW a, NEW to, request[r] \in Request,
           Go(r, from, [agent |-> a, stage |-> to])
    PROVE  /\ request[r].stage = from
           /\ request' = [request EXCEPT ![r] =
                  [kind |-> request[r].kind, stage |-> to, draft |-> request[r].draft,
                   row |-> request[r].row, agent |-> a]]
<1> DEFINE q == request[r]
           new == [agent |-> a, stage |-> to]
<1>1. DOMAIN q = {"kind", "stage", "draft", "row", "agent"}
  BY DEF Request
<1>2. [f \in DOMAIN q |-> IF f \in DOMAIN new THEN new[f] ELSE q[f]] =
        [kind |-> q.kind, stage |-> to, draft |-> q.draft, row |-> q.row, agent |-> a]
  BY <1>1
<1> QED
  BY <1>2 DEF Go

-----------------------------------------------------------------------------
(* What a step that concerns another request leaves true of this one. *)

\* Registered agents stay, rows of signers and profiles stay, a key that enters a draft is
\* a fresh one.
TablesGrow ==
    /\ \A a \in 1..Len(agents) : agents'[a] = agents[a]
    /\ usedKeys \subseteq usedKeys'
    /\ \A d \in DraftIds : drafts'[d].key \in {drafts[d].key, NoRow} \cup (Keys \ usedKeys)
    /\ \A a \in ManagedIds : /\ signers[a] # NoRow => signers'[a] # NoRow
                             /\ profiles[a] # NoRow => profiles'[a] # NoRow

\* Rows keep their key or lose it.
KeysLeave ==
    \A d \in DraftIds : \/ drafts'[d].key = NoRow
                        \/ drafts'[d].key = drafts[d].key /\ drafts'[d].address = drafts[d].address

LEMMA OthersStay ==
    ASSUME LaunchInv, TablesGrow, NEW s \in Requests, request'[s] = request[s],
           \A r \in Requests : request'[r].agent \in {0, request[r].agent, Len(agents) + 1}
    PROVE  RequestOK(s)'
<1> DEFINE q == request[s]
           a == request[s].agent
<1>1. RequestOK(s) /\ q \in Request
  BY DEF LaunchInv, LaunchTypeOK, Request
<1>2. Shape(q)'
  BY <1>1 DEF RequestOK, Shape, NoRequest, NoDraft
<1>3. a \in 0..Len(agents) /\ Len(agents) \in Nat /\ Len(agents) <= MaxRegistered
  BY <1>1 DEF Request, LaunchInv, LaunchTypeOK
<1>4. a # 0 => agents'[a] = SignerOf(s)'
  BY <1>1, <1>3 DEF RequestOK, SignerOf, TablesGrow
<1>5. a # 0 => \A r \in Requests \ {s} : request'[r].agent # a
  BY <1>1, <1>3 DEF RequestOK
<1>6. q.kind = "launch" =>
        /\ q.row.key \in usedKeys'
        /\ \A d \in DraftIds : drafts'[d].key = q.row.key => d = q.draft /\ q.stage \notin HandedOver
  <2> SUFFICES ASSUME q.kind = "launch" PROVE /\ q.row.key \in usedKeys'
        /\ \A d \in DraftIds : drafts'[d].key = q.row.key => d = q.draft /\ q.stage \notin HandedOver
    OBVIOUS
  <2>1. q.row.key \in usedKeys /\ q.row.key \in Keys
    BY <1>1 DEF RequestOK, Shape
  <2>2. q.row.key # NoRow
    BY <2>1
  <2> QED
    BY <2>1, <2>2, <1>1 DEF RequestOK, TablesGrow
<1>7. q.kind = "launch" => /\ q.stage \in {"profile", "settle"} => signers'[a] # NoRow
                           /\ q.stage = "settle" => profiles'[a] # NoRow
  <2>1. q.kind = "launch" /\ q.stage \in {"profile", "settle"} => a \in ManagedIds
    BY <1>1, <1>3 DEF RequestOK, Shape, Registered
  <2> QED
    BY <2>1, <1>1 DEF RequestOK, TablesGrow
<1> QED
  BY <1>2, <1>4, <1>5, <1>6, <1>7 DEF RequestOK

\* The tables alone.
LEMMA CustodyStays ==
    ASSUME LaunchInv, TablesGrow, KeysLeave, Len(agents) <= Len(agents'), Len(agents') \in Nat,
           \A a \in ManagedIds : signers'[a] \in {signers[a], Wiped},
           \A a \in ManagedIds : profiles'[a] # NoRow => profiles[a] # NoRow
    PROVE  CustodyExact' /\ KeysUsed'
<1>1. CustodyExact /\ KeysUsed /\ Len(agents) \in Nat
  BY DEF LaunchInv, LaunchTypeOK
<1>2. \A a \in ManagedIds : HasKey(a)' => signers'[a] = signers[a] /\ HasKey(a)
  BY DEF HasKey
<1>3. \A a \in ManagedIds : HasKey(a)' =>
        /\ a <= Len(agents)' /\ agents'[a] = signers'[a]
        /\ \A d \in DraftIds : drafts'[d].key # signers'[a]
  <2> SUFFICES ASSUME NEW a \in ManagedIds, HasKey(a)'
               PROVE  /\ a <= Len(agents)' /\ agents'[a] = signers'[a]
                      /\ \A d \in DraftIds : drafts'[d].key # signers'[a]
    OBVIOUS
  <2>1. signers'[a] = signers[a] /\ HasKey(a) /\ signers[a] # NoRow
    BY <1>2 DEF HasKey
  <2>2. a \in 1..Len(agents) /\ agents[a] = signers[a] /\ \A d \in DraftIds : drafts[d].key # signers[a]
    BY <1>1, <2>1 DEF CustodyExact
  <2>3. agents'[a] = agents[a] /\ a <= Len(agents')
    BY <2>2, <1>1 DEF TablesGrow
  <2> QED
    BY <2>1, <2>2, <2>3 DEF KeysLeave
<1>4. \A d \in DraftIds : drafts'[d].key # NoRow =>
        /\ drafts'[d].address = drafts'[d].key
        /\ \A e \in DraftIds \ {d} : drafts'[e].key # drafts'[d].key
  BY <1>1 DEF CustodyExact, KeysLeave
<1>5. \A a \in ManagedIds : profiles'[a] # NoRow => signers'[a] # NoRow
  BY <1>1 DEF CustodyExact
<1>6. KeysUsed'
  BY <1>1, <1>2 DEF KeysUsed, KeysLeave, TablesGrow
<1> QED
  BY <1>3, <1>4, <1>5, <1>6 DEF CustodyExact

\* A step that rewrites its own request and nothing else.
LEMMA RequestOnly ==
    ASSUME LaunchInv, NEW r \in Requests, NEW q \in Request,
           request' = [request EXCEPT ![r] = q], q.agent \in {0, request[r].agent},
           UNCHANGED <<managedVars, drafts, profileHandle, usedKeys, chain>>,
           renames' \in 0..MaxRenames, RequestOK(r)'
    PROVE  LaunchInv'
<1>1. LaunchTypeOK'
  BY DEF LaunchInv, LaunchTypeOK, Request, managedVars, chain, ManagedTypeOK, HandlesUnique
<1>2. \A s \in Requests : request'[s] = IF s = r THEN q ELSE request[s]
  BY DEF LaunchInv, LaunchTypeOK
<1>3. TablesGrow
  BY DEF TablesGrow, managedVars, chain
<1>4. \A s \in Requests : RequestOK(s)'
  BY <1>2, <1>3, OthersStay
<1>5. RoomKept' /\ CustodyExact' /\ KeysUsed'
  BY DEF LaunchInv, RoomKept, CustodyExact, KeysUsed, HasKey, managedVars, chain
<1> QED
  BY <1>1, <1>4, <1>5 DEF LaunchInv

-----------------------------------------------------------------------------
(* Requests that begin, move on or are answered. *)

LEMMA RequestFacts ==
    ASSUME LaunchInv, NEW r \in Requests
    PROVE  /\ request[r] \in Request /\ RequestOK(r) /\ Len(agents) \in Nat
           /\ NoRequest \in Request /\ NoDraft \in DraftRow
           /\ request[r].stage = "idle" => request[r] = NoRequest /\ request[r].agent = 0
<1>1. request[r] \in Request /\ RequestOK(r) /\ Len(agents) \in Nat
  BY DEF LaunchInv, LaunchTypeOK, Request
<1>2. NoDraft \in DraftRow
  BY DEF NoDraft, DraftRow, DraftStatus
<1>3. NoRequest \in Request
  BY <1>1, <1>2 DEF NoRequest, Request, Kinds, RequestStages
<1> QED
  BY <1>1, <1>2, <1>3 DEF RequestOK, Shape, NoRequest

LEMMA NewRow ==
    ASSUME LaunchInv, NEW r \in Requests, NEW q, q \in Request, request' = [request EXCEPT ![r] = q]
    PROVE  request'[r] = q
  BY DEF LaunchInv, LaunchTypeOK

LEMMA AnswerKeeps ==
    ASSUME LaunchInv, NEW r \in Requests, NEW from, Answered(r, from),
           UNCHANGED <<managedVars, drafts, profileHandle, usedKeys, chain>>,
           renames' \in 0..MaxRenames
    PROVE  LaunchInv'
<1>1. request' = [request EXCEPT ![r] = NoRequest] /\ NoRequest \in Request
  BY RequestFacts, Answers
<1>2. request'[r] = NoRequest
  BY <1>1, NewRow
<1>3. RequestOK(r)'
  BY <1>2 DEF RequestOK, Shape, NoRequest, Registered
<1> QED
  BY <1>1, <1>3, RequestOnly DEF NoRequest

\* A request that begins has registered nothing yet.
LEMMA BeginKeeps ==
    ASSUME LaunchInv, NEW r \in Requests, NEW kind \in Kinds, NEW stage \in RequestStages,
           NEW d \in DraftIds \cup {NoRow}, NEW row \in DraftRow,
           Begin(r, kind, stage, d, row),
           \/ /\ kind \in {"create", "edit"} /\ stage = "write" /\ d \in DraftIds
              /\ row.key = NoRow
           \/ kind = "provision" /\ stage = "provision" /\ d \in DraftIds
           \/ kind = "register" /\ stage = "relay"
           \/ /\ kind = "launch" /\ stage = "count" /\ d \in DraftIds
              /\ row = drafts[d] /\ row.key # NoRow,
           UNCHANGED <<managedVars, drafts, profileHandle, usedKeys, chain>>,
           renames' \in 0..MaxRenames
    PROVE  LaunchInv'
<1> DEFINE q == [kind |-> kind, stage |-> stage, draft |-> d, row |-> row, agent |-> 0]
<1>1. request' = [request EXCEPT ![r] = q]
  BY RequestFacts, Begins
<1>2. q \in Request
  BY RequestFacts DEF Request
<1>3. request'[r] = q
  BY <1>1, <1>2, NewRow
<1>4. drafts' = drafts /\ usedKeys' = usedKeys
  OBVIOUS
<1>5. kind = "launch" => /\ row.key \in Keys /\ row.address = row.key /\ row.key \in usedKeys
                         /\ \A e \in DraftIds : drafts[e].key = row.key => e = d
  BY DEF LaunchInv, KeysUsed, CustodyExact, DraftRow
<1>6. RequestOK(r)'
  BY <1>3, <1>4, <1>5 DEF RequestOK, Shape, Registered, HandedOver
<1> QED
  BY <1>1, <1>2, <1>6, RequestOnly

LEMMA NewRequestKeeps ==
    ASSUME LaunchInv, NEW r \in Requests, NewRequest(r)
    PROVE  LaunchInv'
<1>1. PICK d \in DraftIds :
        \/ /\ \/ \E h \in Handles : createDraft(r, d, h) \/ updateDraft(r, d, h)
              \/ provisionWallet(r, d) /\ Keys # usedKeys
           /\ UNCHANGED chain
        \/ launchDraft(r, d)
        \/ registerAgent(r)
  BY DEF NewRequest
<1>2. drafts[d] \in DraftRow /\ NoDraft \in DraftRow /\ renames \in 0..MaxRenames
  BY RequestFacts DEF LaunchInv, LaunchTypeOK
<1>3. ASSUME NEW h \in Handles, createDraft(r, d, h), UNCHANGED chain
      PROVE  LaunchInv'
  <2>1. /\ [NoDraft EXCEPT !.status = "draft", !.handle = h] \in DraftRow
        /\ [NoDraft EXCEPT !.status = "draft", !.handle = h].key = NoRow
    BY DEF NoDraft, DraftRow, DraftStatus
  <2> QED
    BY <1>2, <1>3, <2>1, BeginKeeps DEF createDraft, Kinds, RequestStages, generated
<1>4. ASSUME NEW h \in Handles, updateDraft(r, d, h), UNCHANGED chain
      PROVE  LaunchInv'
  <2>1. [NoDraft EXCEPT !.handle = h] \in DraftRow /\ [NoDraft EXCEPT !.handle = h].key = NoRow
    BY DEF NoDraft, DraftRow, DraftStatus
  <2>2. renames' \in 0..MaxRenames
    BY <1>2, <1>4 DEF updateDraft
  <2> QED
    BY <1>2, <1>4, <2>1, <2>2, BeginKeeps DEF updateDraft, Kinds, RequestStages
<1>5. CASE provisionWallet(r, d) /\ UNCHANGED chain
  BY <1>2, <1>5, BeginKeeps DEF provisionWallet, Kinds, RequestStages, generated
<1>6. CASE launchDraft(r, d)
  BY <1>2, <1>6, BeginKeeps DEF launchDraft, assertLaunchReady, Kinds, RequestStages, generated
<1>7. CASE registerAgent(r)
  BY <1>2, <1>7, BeginKeeps DEF registerAgent, Kinds, RequestStages, generated
<1> QED
  BY <1>1, <1>3, <1>4, <1>5, <1>6, <1>7

LEMMA LostKeeps ==
    ASSUME LaunchInv, NEW r \in Requests, RequestLost(r)
    PROVE  LaunchInv'
  BY AnswerKeeps DEF RequestLost, generated, LaunchInv, LaunchTypeOK

LEMMA SettleKeeps ==
    ASSUME LaunchInv, NEW r \in Requests, Settle(r)
    PROVE  LaunchInv'
  BY AnswerKeeps DEF Settle, generated, LaunchInv, LaunchTypeOK

\* A request that moves on and keeps the rest.
LEMMA CountKeeps ==
    ASSUME LaunchInv, NEW r \in Requests, CountAgents(r)
    PROVE  LaunchInv'
<1>1. renames' \in 0..MaxRenames
  BY DEF LaunchInv, LaunchTypeOK, CountAgents, generated
<1>2. CASE HandlerFails(r, "count")
  BY <1>1, <1>2, AnswerKeeps DEF HandlerFails, CountAgents, generated
<1>3. CASE Go(r, "count", [stage |-> "mark"])
  <2> DEFINE q == [request[r] EXCEPT !.stage = "mark"]
  <2>1. /\ request[r].stage = "count" /\ request' = [request EXCEPT ![r] = q]
        /\ request[r] \in Request /\ RequestOK(r)
    BY <1>3, RequestFacts, MovesOn
  <2>2. q \in Request
    BY <2>1 DEF Request, RequestStages
  <2>3. request'[r] = q
    BY <2>1, <2>2, NewRow
  <2>4. UNCHANGED <<managedVars, drafts, profileHandle, usedKeys, chain>>
    BY DEF CountAgents, generated
  <2>5. RequestOK(r)'
    BY <2>1, <2>3, <2>4 DEF RequestOK, Shape, Registered, HandedOver, Request
  <2>6. q.agent = request[r].agent
    BY <2>1 DEF Request
  <2> QED
    BY <1>1, <2>1, <2>2, <2>4, <2>5, <2>6, RequestOnly
<1> QED
  BY <1>2, <1>3 DEF CountAgents

-----------------------------------------------------------------------------
(* Requests that write a table. *)

LEMMA Assemble ==
    ASSUME LaunchInv, NEW r \in Requests, NEW q, request' = [request EXCEPT ![r] = q],
           q.agent \in {0, request[r].agent, Len(agents) + 1},
           TablesGrow, LaunchTypeOK', RoomKept', RequestOK(r)', CustodyExact', KeysUsed'
    PROVE  LaunchInv'
<1>1. \A s \in Requests : request'[s] = IF s = r THEN q ELSE request[s]
  BY DEF LaunchInv, LaunchTypeOK
<1>2. \A s \in Requests : RequestOK(s)'
  BY <1>1, OthersStay
<1> QED
  BY <1>2 DEF LaunchInv

\* A draft's row is rewritten and gets no new key; its handle is free if it is editable.
LEMMA RowWritten ==
    ASSUME LaunchInv, NEW d \in DraftIds, NEW row \in DraftRow, UpdateRow(d, row),
           row.key = NoRow \/ (row.key = drafts[d].key /\ row.address = drafts[d].address),
           \/ row.status # "draft"
           \/ row.status = drafts[d].status /\ row.handle = drafts[d].handle
           \/ UpdateAllowed(d, row),
           UNCHANGED <<managedVars, usedKeys, chain>>
    PROVE  /\ drafts' \in [DraftIds -> DraftRow] /\ HandlesUnique(drafts')
           /\ TablesGrow /\ KeysLeave /\ CustodyExact' /\ KeysUsed'
<1>1. drafts \in [DraftIds -> DraftRow] /\ HandlesUnique(drafts)
  BY DEF LaunchInv, LaunchTypeOK
<1>2. \A e \in DraftIds : drafts'[e] = IF e = d THEN row ELSE drafts[e]
  BY <1>1 DEF UpdateRow
<1>3. drafts' \in [DraftIds -> DraftRow]
  BY <1>1 DEF UpdateRow
<1>4. HandlesUnique(drafts')
  BY <1>1, <1>2 DEF HandlesUnique, UpdateAllowed, UpdateRow
<1>5. KeysLeave
  BY <1>2 DEF KeysLeave
<1>6. TablesGrow
  BY <1>5 DEF TablesGrow, KeysLeave, managedVars, chain
<1>7. CustodyExact' /\ KeysUsed'
  <2>1. Len(agents) <= Len(agents') /\ Len(agents') \in Nat
    BY DEF LaunchInv, LaunchTypeOK, chain
  <2>2. /\ \A a \in ManagedIds : signers'[a] \in {signers[a], Wiped}
        /\ \A a \in ManagedIds : profiles'[a] # NoRow => profiles[a] # NoRow
    BY DEF managedVars
  <2> QED
    BY <1>5, <1>6, <2>1, <2>2, CustodyStays
<1> QED
  BY <1>3, <1>4, <1>5, <1>6, <1>7

\* Types and room when only a draft and a request are written.
LEMMA RowTypes ==
    ASSUME LaunchInv, NEW r \in Requests, NEW q \in Request, request' = [request EXCEPT ![r] = q],
           drafts' \in [DraftIds -> DraftRow], HandlesUnique(drafts'),
           UNCHANGED <<managedVars, profileHandle, generated, chain>>
    PROVE  LaunchTypeOK' /\ RoomKept'
<1>1. LaunchTypeOK'
  BY DEF LaunchInv, LaunchTypeOK, Request, managedVars, chain, generated, ManagedTypeOK, HandlesUnique
<1>2. RoomKept'
  BY DEF LaunchInv, RoomKept, chain
<1> QED
  BY <1>1, <1>2

\* An answer given while a draft is written.
LEMMA AnswerWrites ==
    ASSUME LaunchInv, NEW r \in Requests, request' = [request EXCEPT ![r] = NoRequest],
           drafts' \in [DraftIds -> DraftRow], HandlesUnique(drafts'),
           TablesGrow, CustodyExact', KeysUsed',
           UNCHANGED <<managedVars, profileHandle, generated, chain>>
    PROVE  LaunchInv'
<1>1. NoRequest \in Request /\ NoRequest.agent = 0
  BY RequestFacts DEF NoRequest
<1>2. request'[r] = NoRequest
  BY <1>1, NewRow
<1>3. RequestOK(r)'
  BY <1>2 DEF RequestOK, Shape, NoRequest, Registered
<1> QED
  BY <1>1, <1>3, RowTypes, Assemble

LEMMA WriteDraftKeeps ==
    ASSUME LaunchInv, NEW r \in Requests, WriteDraft(r), UNCHANGED chain
    PROVE  LaunchInv'
<1> DEFINE d == request[r].draft
           row == IF request[r].kind = "create" THEN request[r].row
                  ELSE EditedRow(drafts[d], request[r].row)
<1>1. /\ request[r].stage = "write" /\ request' = [request EXCEPT ![r] = NoRequest]
      /\ request[r] \in Request /\ RequestOK(r) /\ NoRequest \in Request
  BY RequestFacts, Answers DEF WriteDraft
<1>2. UNCHANGED <<managedVars, profileHandle, generated, chain>>
  BY DEF WriteDraft
<1>3. CASE UNCHANGED drafts
  BY <1>1, <1>2, <1>3, AnswerKeeps DEF WriteDraft, generated, LaunchInv, LaunchTypeOK
<1>4. CASE UpdateAllowed(d, row) /\ (request[r].kind = "create" => drafts[d] = NoDraft)
           /\ UpdateRow(d, row)
  <2>1. request[r].kind \in {"create", "edit"} /\ d \in DraftIds
    BY <1>1 DEF RequestOK, Shape, Request, Kinds
  <2>2. drafts[d] \in DraftRow /\ request[r].row \in DraftRow
    BY <1>1, <2>1 DEF LaunchInv, LaunchTypeOK, Request
  <2>3. row \in DraftRow
    BY <2>2 DEF EditedRow, DraftRow
  <2>4. request[r].kind = "edit" => row.key = drafts[d].key /\ row.address = drafts[d].address
    BY <2>2 DEF EditedRow, DraftRow
  <2>5. request[r].kind = "create" => row.key = NoRow
    BY <1>1 DEF RequestOK, Shape
  <2> HIDE DEF row
  <2>6. /\ drafts' \in [DraftIds -> DraftRow] /\ HandlesUnique(drafts')
        /\ TablesGrow /\ KeysLeave /\ CustodyExact' /\ KeysUsed'
    BY <1>2, <1>4, <2>1, <2>3, <2>4, <2>5, RowWritten DEF generated
  <2> QED
    BY <1>1, <1>2, <2>6, AnswerWrites
<1> QED
  BY <1>3, <1>4 DEF WriteDraft

LEMMA WriteKeyKeeps ==
    ASSUME LaunchInv, NEW r \in Requests, WriteKey(r), UNCHANGED chain
    PROVE  LaunchInv'
<1> DEFINE d == request[r].draft
<1>1. PICK k \in Keys \ usedKeys : usedKeys' = usedKeys \cup {k}
                                   /\ UpdateRow(d, Provisioned(drafts[d], k))
  BY DEF WriteKey
<1>2. /\ request[r].stage = "provision" /\ request' = [request EXCEPT ![r] = NoRequest]
      /\ request[r] \in Request /\ RequestOK(r) /\ NoRequest \in Request /\ NoRequest.agent = 0
  BY RequestFacts, Answers DEF WriteKey, NoRequest
<1>3. d \in DraftIds
  BY <1>2 DEF RequestOK, Shape, Request, Kinds
<1> DEFINE row == Provisioned(drafts[d], k)
<1>4. drafts \in [DraftIds -> DraftRow] /\ HandlesUnique(drafts) /\ drafts[d] \in DraftRow
  BY <1>3 DEF LaunchInv, LaunchTypeOK
<1>5. /\ row \in DraftRow /\ row.key = k /\ row.address = k
      /\ row.status = drafts[d].status /\ row.handle = drafts[d].handle
  BY <1>4, <1>1 DEF Provisioned, DraftRow
<1> HIDE DEF row
<1>6. \A e \in DraftIds : drafts'[e] = IF e = d THEN row ELSE drafts[e]
  BY <1>1, <1>4 DEF UpdateRow, row
<1>7. drafts' \in [DraftIds -> DraftRow] /\ HandlesUnique(drafts')
  <2>1. drafts' \in [DraftIds -> DraftRow]
    BY <1>1, <1>4, <1>5 DEF UpdateRow, row
  <2>2. HandlesUnique(drafts')
    BY <1>4, <1>5, <1>6 DEF HandlesUnique
  <2> QED
    BY <2>1, <2>2
<1>8. UNCHANGED <<profiles, signers, archiving, profileHandle, renames, agents, inFlight>>
  BY DEF WriteKey, managedVars, chain
<1>9. TablesGrow
  BY <1>1, <1>5, <1>6, <1>8 DEF TablesGrow
<1>10. LaunchTypeOK' /\ RoomKept'
  <2>1. LaunchTypeOK'
    BY <1>1, <1>2, <1>7, <1>8 DEF LaunchInv, LaunchTypeOK, Request, ManagedTypeOK
  <2>2. RoomKept'
    BY <1>8 DEF LaunchInv, RoomKept
  <2> QED
    BY <2>1, <2>2
<1>11. KeysUsed'
  BY <1>1, <1>5, <1>6, <1>8 DEF LaunchInv, KeysUsed, HasKey
<1>12. CustodyExact'
  <2>1. \A a \in ManagedIds : HasKey(a) => signers[a] # k
    BY <1>1 DEF LaunchInv, KeysUsed
  <2>2. \A e \in DraftIds : drafts[e].key # k
    BY <1>1 DEF LaunchInv, KeysUsed
  <2>3. \A a \in ManagedIds : HasKey(a)' =>
          /\ a <= Len(agents)' /\ agents'[a] = signers'[a]
          /\ \A e \in DraftIds : drafts'[e].key # signers'[a]
    BY <1>5, <1>6, <1>8, <2>1 DEF LaunchInv, CustodyExact, HasKey
  <2>4. \A e \in DraftIds : drafts'[e].key # NoRow =>
          /\ drafts'[e].address = drafts'[e].key
          /\ \A f \in DraftIds \ {e} : drafts'[f].key # drafts'[e].key
    BY <1>5, <1>6, <2>2 DEF LaunchInv, CustodyExact
  <2>5. \A a \in ManagedIds : profiles'[a] # NoRow => signers'[a] # NoRow
    BY <1>8 DEF LaunchInv, CustodyExact
  <2> QED
    BY <2>3, <2>4, <2>5 DEF CustodyExact
<1>13. request'[r] = NoRequest
  BY <1>2, NewRow
<1>14. RequestOK(r)'
  BY <1>13 DEF RequestOK, Shape, NoRequest, Registered
<1> QED
  BY <1>2, <1>9, <1>10, <1>11, <1>12, <1>14, Assemble

\* A launch marks its draft, whatever the draft has become.
LEMMA MarkKeeps ==
    ASSUME LaunchInv, NEW r \in Requests, MarkLaunching(r)
    PROVE  LaunchInv'
<1> DEFINE d == request[r].draft
           q == [request[r] EXCEPT !.stage = "relay"]
           row == [drafts[d] EXCEPT !.status = "launching"]
<1>1. /\ request[r].stage = "mark" /\ request' = [request EXCEPT ![r] = q]
      /\ request[r] \in Request /\ RequestOK(r)
  BY RequestFacts, MovesOn DEF MarkLaunching
<1>2. request[r].kind = "launch" /\ d \in DraftIds
  BY <1>1 DEF RequestOK, Shape, Request, Kinds
<1>3. /\ row \in DraftRow /\ row.key = drafts[d].key /\ row.address = drafts[d].address
      /\ row.status # "draft"
  <2>1. drafts[d] \in DraftRow
    BY <1>2 DEF LaunchInv, LaunchTypeOK
  <2> QED
    BY <2>1 DEF DraftRow, DraftStatus
<1>4. UpdateRow(d, row) /\ UNCHANGED <<managedVars, profileHandle, generated, chain>>
  BY DEF MarkLaunching
<1> HIDE DEF row
<1>5. /\ drafts' \in [DraftIds -> DraftRow] /\ HandlesUnique(drafts')
      /\ TablesGrow /\ KeysLeave /\ CustodyExact' /\ KeysUsed'
  BY <1>2, <1>3, <1>4, RowWritten DEF generated
<1>6. q \in Request /\ q.agent = request[r].agent
  BY <1>1 DEF Request, RequestStages
<1>7. request'[r] = q
  BY <1>1, <1>6, NewRow
<1>8. RequestOK(r)'
  BY <1>1, <1>2, <1>4, <1>5, <1>7
     DEF RequestOK, Shape, Registered, HandedOver, Request, KeysLeave, generated
<1> QED
  BY <1>1, <1>4, <1>5, <1>6, <1>8, RowTypes, Assemble

\* The key leaves the draft before the signer row exists: nobody else has it now.
LEMMA RecordKeeps ==
    ASSUME LaunchInv, NEW r \in Requests, RecordLaunch(r)
    PROVE  LaunchInv'
<1> DEFINE d == request[r].draft
           q == [request[r] EXCEPT !.stage = "signer"]
           row == LaunchedRow(drafts[d], request[r].agent)
<1>1. UNCHANGED <<managedVars, profileHandle, generated, chain>> /\ renames' \in 0..MaxRenames
  BY DEF RecordLaunch, generated, LaunchInv, LaunchTypeOK
<1>2. CASE HandlerFails(r, "record") /\ UNCHANGED drafts
  BY <1>1, <1>2, AnswerKeeps DEF HandlerFails, generated
<1>3. CASE Go(r, "record", [stage |-> "signer"]) /\ UpdateRow(d, row)
  <2>1. /\ request[r].stage = "record" /\ request' = [request EXCEPT ![r] = q]
        /\ request[r] \in Request /\ RequestOK(r)
    BY <1>3, RequestFacts, MovesOn
  <2>2. request[r].kind = "launch" /\ d \in DraftIds
    BY <2>1 DEF RequestOK, Shape, Request, Kinds
  <2>3. request[r].agent \in ManagedIds \cup {0}
    BY <2>1 DEF Request, LaunchInv, LaunchTypeOK
  <2>4. row \in DraftRow /\ row.key = NoRow /\ row.status # "draft"
    <3>1. drafts[d] \in DraftRow
      BY <2>2 DEF LaunchInv, LaunchTypeOK
    <3> QED
      BY <2>3, <3>1 DEF DraftRow, DraftStatus, LaunchedRow
  <2>5. drafts' = [drafts EXCEPT ![d] = row]
    BY <1>3 DEF UpdateRow
  <2> HIDE DEF row
  <2>6. /\ drafts' \in [DraftIds -> DraftRow] /\ HandlesUnique(drafts')
        /\ TablesGrow /\ KeysLeave /\ CustodyExact' /\ KeysUsed'
    BY <1>1, <1>3, <2>2, <2>4, RowWritten DEF generated
  <2>7. \A e \in DraftIds : drafts'[e] = IF e = d THEN row ELSE drafts[e]
    BY <2>5 DEF LaunchInv, LaunchTypeOK
  <2>8. q \in Request /\ q.agent = request[r].agent
    BY <2>1 DEF Request, RequestStages
  <2>9. request'[r] = q
    BY <2>1, <2>8, NewRow
  <2>10. Shape(q) /\ q.row.key = request[r].row.key /\ q.row.key \in Keys /\ q.row.key # NoRow
    BY <2>1, <2>2 DEF RequestOK, Shape, Registered, Request
  <2>11. \A e \in DraftIds : drafts'[e].key # q.row.key
    BY <2>1, <2>2, <2>4, <2>7, <2>10 DEF RequestOK
  <2>12. RequestOK(r)'
    BY <1>1, <2>1, <2>2, <2>8, <2>9, <2>10, <2>11 DEF RequestOK, Shape, Registered, Request, generated,
       chain, SignerOf
  <2> QED
    BY <1>1, <2>1, <2>6, <2>8, <2>12, RowTypes, Assemble
<1> QED
  BY <1>2, <1>3 DEF RecordLaunch

LEMMA UndoKeeps ==
    ASSUME LaunchInv, NEW r \in Requests, UndoLaunch(r)
    PROVE  LaunchInv'
<1> DEFINE d == request[r].draft
           row == [drafts[d] EXCEPT !.status = "draft"]
<1>1. /\ request[r].stage = "undo" /\ request' = [request EXCEPT ![r] = NoRequest]
      /\ request[r] \in Request /\ RequestOK(r)
  BY RequestFacts, Answers DEF UndoLaunch, HandlerFails
<1>2. UNCHANGED <<managedVars, profileHandle, generated, chain>> /\ renames' \in 0..MaxRenames
  BY DEF UndoLaunch, generated, LaunchInv, LaunchTypeOK
<1>3. CASE UNCHANGED drafts
  BY <1>2, <1>3, AnswerKeeps DEF UndoLaunch, HandlerFails, generated
<1>4. CASE UpdateAllowed(d, row) /\ UpdateRow(d, row)
  <2>1. d \in DraftIds
    BY <1>1 DEF RequestOK, Shape, Request, Kinds
  <2>2. row \in DraftRow /\ row.key = drafts[d].key /\ row.address = drafts[d].address
    <3>1. drafts[d] \in DraftRow
      BY <2>1 DEF LaunchInv, LaunchTypeOK
    <3> QED
      BY <3>1 DEF DraftRow, DraftStatus
  <2> HIDE DEF row
  <2>3. /\ drafts' \in [DraftIds -> DraftRow] /\ HandlesUnique(drafts')
        /\ TablesGrow /\ KeysLeave /\ CustodyExact' /\ KeysUsed'
    BY <1>2, <1>4, <2>1, <2>2, RowWritten DEF generated
  <2> QED
    BY <1>1, <1>2, <2>3, AnswerWrites
<1> QED
  BY <1>3, <1>4 DEF UndoLaunch

-----------------------------------------------------------------------------
(* The chain, the signer row and the profile. *)

LEMMA RelayKeeps ==
    ASSUME LaunchInv, NEW r \in Requests, registerWithRelayer(r)
    PROVE  LaunchInv'
<1> DEFINE n == Len(agents) + 1
           launching == request[r].kind = "launch"
           to == IF launching THEN "record" ELSE "settle"
<1>1. /\ UNCHANGED <<managedVars, drafts, profileHandle, generated>>
      /\ renames' \in 0..MaxRenames /\ renames' = renames
      /\ request[r] \in Request /\ RequestOK(r) /\ Len(agents) \in Nat
      /\ agents \in Seq(Keys \cup {ClientKey}) /\ inFlight \subseteq Keys \cup {ClientKey}
      /\ IsFiniteSet(inFlight) /\ Len(agents) + Cardinality(inFlight) <= MaxRegistered
      /\ Cardinality(inFlight) \in Nat
  BY RequestFacts, FS_CardinalityType
     DEF registerWithRelayer, generated, LaunchInv, LaunchTypeOK, RoomKept
<1>2. request[r].stage = "relay" => /\ SignerOf(r) \in Keys \cup {ClientKey}
                                    /\ request[r].kind \in {"launch", "register"}
  BY <1>1 DEF RequestOK, Shape, SignerOf, Request, Kinds
<1>3. CASE /\ Room /\ agents' = Append(agents, SignerOf(r)) /\ UNCHANGED inFlight
           /\ Go(r, "relay", [agent |-> n, stage |-> to])
  <2> DEFINE q == [kind |-> request[r].kind, stage |-> to, draft |-> request[r].draft,
                   row |-> request[r].row, agent |-> n]
  <2>1. request[r].stage = "relay" /\ request' = [request EXCEPT ![r] = q]
    BY <1>1, <1>3, GetsAgent
  <2>2. /\ agents' \in Seq(Keys \cup {ClientKey}) /\ Len(agents') = n
        /\ agents'[n] = SignerOf(r) /\ \A a \in 1..Len(agents) : agents'[a] = agents[a]
    BY <1>1, <1>2, <1>3, <2>1
  <2>3. n + Cardinality(inFlight) <= MaxRegistered /\ n <= MaxRegistered
    BY <1>1, <1>3 DEF Room
  <2>4. q \in [kind : Kinds, stage : RequestStages, draft : DraftIds \cup {NoRow},
               row : DraftRow, agent : 0..n]
    BY <1>1 DEF Request, RequestStages
  <2>5. \A s \in Requests : request'[s] = IF s = r THEN q ELSE request[s]
    BY <2>1 DEF LaunchInv, LaunchTypeOK
  <2>6. TablesGrow
    BY <1>1, <2>2 DEF TablesGrow, managedVars, generated
  <2>7. \A s \in Requests : request[s] \in Request
    BY DEF LaunchInv, LaunchTypeOK, Request
  <2> HIDE DEF q
  <2>8. request' \in [Requests -> [kind : Kinds, stage : RequestStages,
                 draft : DraftIds \cup {NoRow}, row : DraftRow, agent : 0..n]]
    <3>1. \A s \in Requests : request[s] \in [kind : Kinds, stage : RequestStages,
                 draft : DraftIds \cup {NoRow}, row : DraftRow, agent : 0..n]
      BY <1>1, <2>7 DEF Request
    <3>2. request \in [Requests -> [kind : Kinds, stage : RequestStages,
                 draft : DraftIds \cup {NoRow}, row : DraftRow, agent : 0..n]]
      BY <3>1 DEF LaunchInv, LaunchTypeOK
    <3> QED
      BY <2>1, <2>4, <3>2
  <2>9. LaunchTypeOK'
    BY <1>1, <1>3, <2>2, <2>3, <2>8
       DEF LaunchInv, LaunchTypeOK, ManagedTypeOK, HandlesUnique, managedVars, generated
  <2>10. RoomKept'
    BY <1>1, <1>3, <2>2, <2>3 DEF RoomKept
  <2>11. CustodyExact' /\ KeysUsed'
    <3>1. KeysLeave /\ \A a \in ManagedIds : signers'[a] \in {signers[a], Wiped}
      BY <1>1 DEF KeysLeave, managedVars
    <3>2. \A a \in ManagedIds : profiles'[a] # NoRow => profiles[a] # NoRow
      BY <1>1 DEF managedVars
    <3>3. Len(agents) <= Len(agents') /\ Len(agents') \in Nat
      BY <1>1, <2>2
    <3> QED
      BY <2>6, <3>1, <3>2, <3>3, CustodyStays
  <2>12. RequestOK(r)'
    <3>1. request'[r] = q /\ SignerOf(r)' = SignerOf(r)
      BY <2>5 DEF SignerOf, q
    <3>2. Shape(q)
      BY <1>1, <1>2, <2>1 DEF RequestOK, Shape, q, Registered
    <3>3. \A s \in Requests \ {r} : request'[s].agent # n
      BY <1>1, <2>5, <2>7 DEF Request
    <3>4. q.agent = n /\ agents'[n] = SignerOf(r)'
      BY <2>2, <3>1 DEF q
    <3>5. q.kind = "launch" =>
            /\ q.row.key \in usedKeys'
            /\ \A d \in DraftIds : drafts'[d].key = q.row.key =>
                    d = q.draft /\ q.stage \notin HandedOver
            /\ q.stage = "record"
      BY <1>1 DEF q, RequestOK, generated, HandedOver
    <3> QED
      BY <3>1, <3>2, <3>3, <3>4, <3>5 DEF RequestOK
  <2> QED
    BY <2>1, <2>6, <2>9, <2>10, <2>11, <2>12, Assemble DEF q
<1>4. CASE /\ IF launching THEN Go(r, "relay", [stage |-> "undo"]) ELSE HandlerFails(r, "relay")
           /\ \/ UNCHANGED inFlight
              \/ Room /\ inFlight' = inFlight \cup {SignerOf(r)}
           /\ UNCHANGED agents
  <2> DEFINE q == IF launching THEN [request[r] EXCEPT !.stage = "undo"] ELSE NoRequest
  <2>1. request[r].stage = "relay" /\ request' = [request EXCEPT ![r] = q]
    <3>1. CASE launching
      BY <1>1, <1>4, <3>1, MovesOn
    <3>2. CASE ~launching
      BY <1>1, <1>4, <3>2, Answers DEF HandlerFails
    <3> QED
      BY <3>1, <3>2
  <2>2. q \in Request /\ q.agent \in {0, request[r].agent}
    BY <1>1, RequestFacts DEF Request, RequestStages, NoRequest
  <2>3. request'[r] = q
    BY <2>1, <2>2, NewRow
  <2>4. inFlight' \subseteq Keys \cup {ClientKey} /\ RoomKept'
    <3>1. CASE UNCHANGED inFlight
      BY <1>1, <1>4, <3>1 DEF RoomKept
    <3>2. CASE Room /\ inFlight' = inFlight \cup {SignerOf(r)}
      <4>1. IsFiniteSet(inFlight') /\ Cardinality(inFlight') \in Nat
            /\ Cardinality(inFlight') <= Cardinality(inFlight) + 1
        <5> DEFINE k == SignerOf(r)
        <5>1. inFlight' = inFlight \cup {k} /\ IsFiniteSet(inFlight)
          BY <1>1, <3>2
        <5> HIDE DEF k
        <5>2. /\ IsFiniteSet(inFlight \cup {k})
              /\ Cardinality(inFlight \cup {k}) =
                    IF k \in inFlight THEN Cardinality(inFlight) ELSE Cardinality(inFlight) + 1
          BY <5>1, FS_AddElement
        <5> QED
          BY <1>1, <5>1, <5>2, FS_CardinalityType
      <4> QED
        BY <1>1, <1>2, <1>4, <2>1, <3>2, <4>1 DEF RoomKept, Room
    <3> QED
      BY <1>4, <3>1, <3>2
  <2>5. LaunchTypeOK'
    BY <1>1, <1>4, <2>1, <2>2, <2>4
       DEF LaunchInv, LaunchTypeOK, Request, ManagedTypeOK, HandlesUnique, managedVars, generated
  <2>6. TablesGrow
    BY <1>1, <1>4 DEF TablesGrow, managedVars, generated
  <2>7. CustodyExact' /\ KeysUsed'
    BY <1>1, <1>4 DEF LaunchInv, CustodyExact, KeysUsed, HasKey, managedVars, generated
  <2>8. RequestOK(r)'
    <3>1. CASE launching
      BY <1>1, <1>4, <2>1, <2>3, <3>1
         DEF RequestOK, Shape, Registered, HandedOver, Request, managedVars, generated
    <3>2. CASE ~launching
      BY <2>3, <3>2 DEF RequestOK, Shape, NoRequest, Registered
    <3> QED
      BY <3>1, <3>2
  <2> HIDE DEF q
  <2> QED
    BY <2>1, <2>2, <2>4, <2>5, <2>6, <2>7, <2>8, Assemble
<1> QED
  BY <1>3, <1>4 DEF registerWithRelayer

LEMMA MineKeeps ==
    ASSUME LaunchInv, NEW k, MineLate(k)
    PROVE  LaunchInv'
<1>1. /\ k \in inFlight /\ agents' = Append(agents, k) /\ inFlight' = inFlight \ {k}
      /\ UNCHANGED <<managedVars, drafts, profileHandle, request, usedKeys, renames>>
  BY DEF MineLate, draftVars, generated
<1>2. /\ agents \in Seq(Keys \cup {ClientKey}) /\ Len(agents) \in Nat
      /\ inFlight \subseteq Keys \cup {ClientKey} /\ IsFiniteSet(inFlight)
      /\ Len(agents) + Cardinality(inFlight) <= MaxRegistered
  BY DEF LaunchInv, LaunchTypeOK, RoomKept
<1>3. /\ IsFiniteSet(inFlight') /\ Cardinality(inFlight') = Cardinality(inFlight) - 1
      /\ Cardinality(inFlight) \in Nat /\ Cardinality(inFlight') \in Nat
  BY <1>1, <1>2, FS_RemoveElement, FS_CardinalityType
<1>4. /\ agents' \in Seq(Keys \cup {ClientKey}) /\ Len(agents') = Len(agents) + 1
      /\ \A a \in 1..Len(agents) : agents'[a] = agents[a]
  BY <1>1, <1>2
<1>5. RoomKept' /\ Len(agents') <= MaxRegistered
  BY <1>2, <1>3, <1>4 DEF RoomKept
<1>6. TablesGrow /\ KeysLeave
  BY <1>1, <1>4 DEF TablesGrow, KeysLeave, managedVars
<1>7. \A r \in Requests : RequestOK(r)'
  BY <1>1, <1>6, OthersStay
<1>8. CustodyExact' /\ KeysUsed'
  <2>1. /\ \A a \in ManagedIds : signers'[a] \in {signers[a], Wiped}
        /\ \A a \in ManagedIds : profiles'[a] # NoRow => profiles[a] # NoRow
    BY <1>1 DEF managedVars
  <2>2. Len(agents) <= Len(agents') /\ Len(agents') \in Nat
    BY <1>2, <1>4
  <2> QED
    BY <1>6, <2>1, <2>2, CustodyStays
<1>9. LaunchTypeOK'
  <2>1. \A r \in Requests : request[r] \in [kind : Kinds, stage : RequestStages,
            draft : DraftIds \cup {NoRow}, row : DraftRow, agent : 0..Len(agents')]
    BY <1>2, <1>4 DEF LaunchInv, LaunchTypeOK
  <2>2. request' \in [Requests -> [kind : Kinds, stage : RequestStages,
            draft : DraftIds \cup {NoRow}, row : DraftRow, agent : 0..Len(agents')]]
    BY <1>1, <2>1 DEF LaunchInv, LaunchTypeOK
  <2>3. inFlight' \subseteq Keys \cup {ClientKey}
    BY <1>1, <1>2
  <2> QED
    BY <1>1, <1>4, <1>5, <2>2, <2>3
       DEF LaunchInv, LaunchTypeOK, ManagedTypeOK, HandlesUnique, managedVars
<1> QED
  BY <1>5, <1>7, <1>8, <1>9 DEF LaunchInv

LEMMA SignerKeeps ==
    ASSUME LaunchInv, NEW r \in Requests, CreateSigner(r)
    PROVE  LaunchInv'
<1> DEFINE q == [request[r] EXCEPT !.stage = "profile"]
           a == request[r].agent
           k == HandedKey(r)
<1>1. /\ UNCHANGED <<profiles, archiving, drafts, profileHandle, generated, chain>>
      /\ renames' \in 0..MaxRenames
      /\ request[r] \in Request /\ RequestOK(r) /\ Len(agents) \in Nat
  BY RequestFacts DEF CreateSigner, generated, LaunchInv, LaunchTypeOK
<1>2. CASE HandlerFails(r, "signer") /\ UNCHANGED signers
  BY <1>1, <1>2, AnswerKeeps DEF HandlerFails, generated, managedVars
<1>3. CASE Go(r, "signer", [stage |-> "profile"]) /\ signers' = [signers EXCEPT ![a] = k]
  <2>1. request[r].stage = "signer" /\ request' = [request EXCEPT ![r] = q]
    BY <1>1, <1>3, MovesOn
  <2>2. request[r].kind = "launch" /\ a # 0 /\ a \in 0..Len(agents)
    BY <1>1, <2>1 DEF RequestOK, Shape, Registered, Request, Kinds
  <2>3. /\ a \in ManagedIds /\ a <= Len(agents) /\ agents[a] = k /\ k \in Keys /\ k \in usedKeys
        /\ \A d \in DraftIds : drafts[d].key # k
    BY <1>1, <2>1, <2>2 DEF RequestOK, Shape, SignerOf, HandedKey, KeyRead, HandedOver,
       LaunchInv, LaunchTypeOK
  <2> HIDE DEF k
  <2>4. \A b \in ManagedIds : signers'[b] = IF b = a THEN k ELSE signers[b]
    BY <1>3 DEF LaunchInv, LaunchTypeOK, ManagedTypeOK
  <2>5. q \in Request /\ q.agent = request[r].agent
    BY <1>1 DEF Request, RequestStages
  <2>6. request'[r] = q
    BY <2>1, <2>5, NewRow
  <2>7. TablesGrow
    BY <1>1, <2>3, <2>4 DEF TablesGrow, generated, chain
  <2>8. LaunchTypeOK'
    <3>1. signers' \in [ManagedIds -> Keys \cup {NoRow, Wiped}]
      BY <1>3, <2>3 DEF LaunchInv, LaunchTypeOK, ManagedTypeOK
    <3> QED
      BY <1>1, <2>1, <2>5, <3>1
         DEF LaunchInv, LaunchTypeOK, Request, ManagedTypeOK, HandlesUnique, generated, chain
  <2>9. RoomKept'
    BY <1>1 DEF LaunchInv, RoomKept, chain
  <2>10. KeysUsed'
    BY <1>1, <2>3, <2>4 DEF LaunchInv, KeysUsed, HasKey, generated
  <2>11. CustodyExact'
    <3>1. \A b \in ManagedIds : HasKey(b)' =>
            /\ b <= Len(agents)' /\ agents'[b] = signers'[b]
            /\ \A d \in DraftIds : drafts'[d].key # signers'[b]
      <4> SUFFICES ASSUME NEW b \in ManagedIds, HasKey(b)'
                   PROVE  /\ b <= Len(agents)' /\ agents'[b] = signers'[b]
                          /\ \A d \in DraftIds : drafts'[d].key # signers'[b]
        OBVIOUS
      <4>1. CASE b = a
        BY <1>1, <2>3, <2>4, <4>1 DEF chain
      <4>2. CASE b # a
        BY <1>1, <2>4, <4>2 DEF chain, LaunchInv, CustodyExact, HasKey
      <4> QED
        BY <4>1, <4>2
    <3>2. \A d \in DraftIds : drafts'[d].key # NoRow =>
            /\ drafts'[d].address = drafts'[d].key
            /\ \A e \in DraftIds \ {d} : drafts'[e].key # drafts'[d].key
      BY <1>1 DEF LaunchInv, CustodyExact
    <3>3. \A b \in ManagedIds : profiles'[b] # NoRow => signers'[b] # NoRow
      BY <1>1, <2>3, <2>4 DEF LaunchInv, CustodyExact
    <3> QED
      BY <3>1, <3>2, <3>3 DEF CustodyExact
  <2>12. RequestOK(r)'
    <3>1. Shape(q) /\ q.row = request[r].row /\ q.draft = request[r].draft /\ q.stage = "profile"
          /\ q.kind = "launch"
      BY <1>1, <2>1, <2>2 DEF RequestOK, Shape, Registered, Request
    <3>2. agents'[a] = SignerOf(r)'
      BY <1>1, <2>2, <2>6, <3>1 DEF RequestOK, SignerOf, chain
    <3>3. \A s \in Requests \ {r} : request'[s].agent # a
      BY <1>1, <2>1, <2>2 DEF RequestOK, LaunchInv, LaunchTypeOK
    <3>4. signers'[a] # NoRow
      BY <2>3, <2>4
    <3>5. q.row.key \in usedKeys' /\ \A d \in DraftIds : drafts'[d].key # q.row.key
      BY <1>1, <2>1, <2>2, <3>1 DEF RequestOK, HandedOver, generated
    <3> QED
      BY <2>5, <2>6, <3>1, <3>2, <3>3, <3>4, <3>5 DEF RequestOK
  <2> QED
    BY <2>1, <2>5, <2>7, <2>8, <2>9, <2>10, <2>11, <2>12, Assemble
<1> QED
  BY <1>2, <1>3 DEF CreateSigner

LEMMA ProfileKeeps ==
    ASSUME LaunchInv, NEW r \in Requests, CreateProfile(r)
    PROVE  LaunchInv'
<1> DEFINE q == [request[r] EXCEPT !.stage = "settle"]
           a == request[r].agent
           handle == request[r].row.handle
<1>1. /\ UNCHANGED <<signers, archiving, drafts, generated, chain>>
      /\ renames' \in 0..MaxRenames
      /\ request[r] \in Request /\ RequestOK(r) /\ Len(agents) \in Nat
  BY RequestFacts DEF CreateProfile, generated, LaunchInv, LaunchTypeOK
<1>2. CASE HandlerFails(r, "profile") /\ UNCHANGED <<profiles, profileHandle>>
  BY <1>1, <1>2, AnswerKeeps DEF HandlerFails, generated, managedVars
<1>3. CASE /\ Go(r, "profile", [stage |-> "settle"])
           /\ profiles' = [profiles EXCEPT ![a] = "active"]
           /\ profileHandle' = [profileHandle EXCEPT ![a] = handle]
  <2>1. request[r].stage = "profile" /\ request' = [request EXCEPT ![r] = q]
    BY <1>1, <1>3, MovesOn
  <2>2. request[r].kind = "launch" /\ a # 0 /\ a \in 0..Len(agents)
    BY <1>1, <2>1 DEF RequestOK, Shape, Registered, Request, Kinds
  <2>3. a \in ManagedIds /\ signers[a] # NoRow /\ handle \in Handles \cup {NoRow}
    BY <1>1, <2>1, <2>2 DEF RequestOK, LaunchInv, LaunchTypeOK, Request, DraftRow
  <2>4. \A b \in ManagedIds : profiles'[b] = IF b = a THEN "active" ELSE profiles[b]
    BY <1>3 DEF LaunchInv, LaunchTypeOK, ManagedTypeOK
  <2>5. q \in Request /\ q.agent = request[r].agent
    BY <1>1 DEF Request, RequestStages
  <2>6. request'[r] = q
    BY <2>1, <2>5, NewRow
  <2>7. TablesGrow
    BY <1>1, <2>3, <2>4 DEF TablesGrow, generated, chain
  <2>8. LaunchTypeOK'
    <3>1. profiles' \in [ManagedIds -> {NoRow, "active", "archived"}]
      BY <1>3 DEF LaunchInv, LaunchTypeOK, ManagedTypeOK
    <3>2. profileHandle' \in [ManagedIds -> Handles \cup {NoRow}]
      BY <1>3, <2>3 DEF LaunchInv, LaunchTypeOK
    <3> QED
      BY <1>1, <2>1, <2>5, <3>1, <3>2
         DEF LaunchInv, LaunchTypeOK, Request, ManagedTypeOK, HandlesUnique, generated, chain
  <2>9. RoomKept'
    BY <1>1 DEF LaunchInv, RoomKept, chain
  <2>10. KeysUsed' /\ CustodyExact'
    BY <1>1, <2>3, <2>4 DEF LaunchInv, KeysUsed, CustodyExact, HasKey, generated, chain
  <2>12. RequestOK(r)'
    <3>1. Shape(q) /\ q.row = request[r].row /\ q.draft = request[r].draft /\ q.stage = "settle"
          /\ q.kind = "launch"
      BY <1>1, <2>1, <2>2 DEF RequestOK, Shape, Registered, Request
    <3>2. agents'[a] = SignerOf(r)'
      BY <1>1, <2>2, <2>6, <3>1 DEF RequestOK, SignerOf, chain
    <3>3. \A s \in Requests \ {r} : request'[s].agent # a
      BY <1>1, <2>1, <2>2 DEF RequestOK, LaunchInv, LaunchTypeOK
    <3>4. signers'[a] # NoRow /\ profiles'[a] # NoRow
      BY <1>1, <2>3, <2>4
    <3>5. q.row.key \in usedKeys' /\ \A d \in DraftIds : drafts'[d].key # q.row.key
      BY <1>1, <2>1, <2>2, <3>1 DEF RequestOK, HandedOver, generated
    <3> QED
      BY <2>5, <2>6, <3>1, <3>2, <3>3, <3>4, <3>5 DEF RequestOK
  <2> QED
    BY <2>1, <2>5, <2>7, <2>8, <2>9, <2>10, <2>12, Assemble
<1> QED
  BY <1>2, <1>3 DEF CreateProfile

-----------------------------------------------------------------------------
(* Steps of the others: the owner, the clean-up job, archive requests. *)

\* Rows that leave their handle and key.
LEMMA DropKeeps ==
    ASSUME LaunchInv, drafts' \in [DraftIds -> DraftRow],
           \A d \in DraftIds : \/ drafts'[d] = drafts[d]
                               \/ drafts'[d].status # "draft" /\ drafts'[d].key = NoRow,
           UNCHANGED <<managedVars, profileHandle, request, generated, chain>>
    PROVE  LaunchInv'
<1>1. TablesGrow /\ KeysLeave
  BY DEF TablesGrow, KeysLeave, managedVars, generated, chain
<1>2. \A r \in Requests : RequestOK(r)'
  BY <1>1, OthersStay
<1>3. CustodyExact' /\ KeysUsed'
  <2>1. Len(agents) <= Len(agents') /\ Len(agents') \in Nat
    BY DEF LaunchInv, LaunchTypeOK, chain
  <2>2. /\ \A a \in ManagedIds : signers'[a] \in {signers[a], Wiped}
        /\ \A a \in ManagedIds : profiles'[a] # NoRow => profiles[a] # NoRow
    BY DEF managedVars
  <2> QED
    BY <1>1, <2>1, <2>2, CustodyStays
<1>4. HandlesUnique(drafts')
  BY DEF LaunchInv, LaunchTypeOK, HandlesUnique
<1>5. LaunchTypeOK'
  BY <1>4 DEF LaunchInv, LaunchTypeOK, ManagedTypeOK, managedVars, generated, chain
<1>6. RoomKept'
  BY DEF LaunchInv, RoomKept, chain
<1> QED
  BY <1>2, <1>3, <1>5, <1>6 DEF LaunchInv

LEMMA AbandonedFacts ==
    ASSUME NEW row \in DraftRow
    PROVE  /\ AbandonedRow(row) \in DraftRow
           /\ AbandonedRow(row).status # "draft" /\ AbandonedRow(row).key = NoRow
  BY DEF AbandonedRow, DraftRow, DraftStatus

LEMMA AbandonKeeps ==
    ASSUME LaunchInv, UNCHANGED chain, abandonStale \/ \E d \in DraftIds : abandonDraft(d)
    PROVE  LaunchInv'
<1>1. drafts \in [DraftIds -> DraftRow] /\ \A d \in DraftIds : drafts[d] \in DraftRow
  BY DEF LaunchInv, LaunchTypeOK
<1>2. ASSUME NEW d \in DraftIds, abandonDraft(d) PROVE LaunchInv'
  <2> DEFINE row == AbandonedRow(drafts[d])
  <2>1. row \in DraftRow /\ row.status # "draft" /\ row.key = NoRow
    BY <1>1, AbandonedFacts
  <2>2. drafts' = [drafts EXCEPT ![d] = row]
    BY <1>2 DEF abandonDraft, UpdateRow
  <2>3. UNCHANGED <<managedVars, profileHandle, request, generated>>
    BY <1>2 DEF abandonDraft
  <2> HIDE DEF row
  <2> QED
    BY <1>1, <2>1, <2>2, <2>3, DropKeeps
<1>3. ASSUME abandonStale PROVE LaunchInv'
  <2>1. PICK stale \in SUBSET {d \in DraftIds : drafts[d].status = "draft"} :
          drafts' = [d \in DraftIds |-> IF d \in stale THEN AbandonedRow(drafts[d]) ELSE drafts[d]]
    BY <1>3 DEF abandonStale
  <2>2. UNCHANGED <<managedVars, profileHandle, request, generated>>
    BY <1>3 DEF abandonStale
  <2>3. \A d \in DraftIds : /\ AbandonedRow(drafts[d]) \in DraftRow
                            /\ AbandonedRow(drafts[d]).status # "draft"
                            /\ AbandonedRow(drafts[d]).key = NoRow
    BY <1>1, AbandonedFacts
  <2> QED
    BY <1>1, <2>1, <2>2, <2>3, DropKeeps
<1> QED
  BY <1>2, <1>3

LEMMA ArchiveKeeps ==
    ASSUME LaunchInv, NEW a \in ManagedIds, Archive(a)
    PROVE  LaunchInv'
<1>1. /\ UNCHANGED <<draftVars, chain>>
      /\ ManagedTypeOK
  BY DEF Archive, LaunchInv, LaunchTypeOK
<1>2. /\ ManagedTypeOK'
      /\ \A b \in ManagedIds : /\ signers'[b] \in {signers[b], Wiped}
                               /\ signers[b] # NoRow => signers'[b] # NoRow
                               /\ profiles[b] # NoRow <=> profiles'[b] # NoRow
  <2>1. CASE ArchiveProfile(a)
    BY <1>1, <2>1 DEF ArchiveProfile, ManagedTypeOK, IsActive
  <2>2. CASE WipeKey(a)
    BY <1>1, <2>2 DEF WipeKey, KeyAfterWipe, ManagedTypeOK
  <2>3. CASE ArchiveCrash(a)
    BY <1>1, <2>3 DEF ArchiveCrash, ManagedTypeOK
  <2> QED
    BY <2>1, <2>2, <2>3 DEF Archive
<1>3. TablesGrow /\ KeysLeave
  BY <1>1, <1>2 DEF TablesGrow, KeysLeave, draftVars, generated, chain
<1>4. \A r \in Requests : RequestOK(r)'
  BY <1>1, <1>3, OthersStay DEF draftVars
<1>5. CustodyExact' /\ KeysUsed'
  <2>1. Len(agents) <= Len(agents') /\ Len(agents') \in Nat
    BY <1>1 DEF LaunchInv, LaunchTypeOK, chain
  <2> QED
    BY <1>2, <1>3, <2>1, CustodyStays
<1>6. LaunchTypeOK' /\ RoomKept'
  BY <1>1, <1>2 DEF LaunchInv, LaunchTypeOK, RoomKept, HandlesUnique, draftVars, generated, chain
<1> QED
  BY <1>4, <1>5, <1>6 DEF LaunchInv

-----------------------------------------------------------------------------
(* The theorems. *)

LEMMA LaunchStarts == LaunchInit => LaunchInv
<1> SUFFICES ASSUME LaunchInit PROVE LaunchInv
  OBVIOUS
<1>1. NoDraft \in DraftRow
  BY DEF NoDraft, DraftRow, DraftStatus
<1>2. Len(agents) = 0 /\ agents \in Seq(Keys \cup {ClientKey})
  BY DEF LaunchInit
<1>3. NoRequest \in Request
  BY <1>1, <1>2 DEF NoRequest, Request, Kinds, RequestStages
<1>4. LaunchTypeOK
  BY <1>1, <1>2, <1>3
     DEF LaunchInit, LaunchTypeOK, ManagedTypeOK, Request, HandlesUnique, NoDraft
<1>5. RoomKept
  BY <1>2, FS_EmptySet DEF LaunchInit, RoomKept
<1>6. \A r \in Requests : RequestOK(r)
  BY DEF LaunchInit, RequestOK, Shape, NoRequest, Registered
<1>7. KeysUsed /\ CustodyExact
  BY DEF LaunchInit, KeysUsed, CustodyExact, NoDraft, HasKey
<1> QED
  BY <1>4, <1>5, <1>6, <1>7 DEF LaunchInv

LEMMA LaunchNextKeeps == LaunchInv /\ [LaunchNext]_launchVars => LaunchInv'
<1> SUFFICES ASSUME LaunchInv, [LaunchNext]_launchVars PROVE LaunchInv'
  OBVIOUS
<1>1. ASSUME NEW r \in Requests, RequestStep(r) PROVE LaunchInv'
  BY <1>1, WriteDraftKeeps, WriteKeyKeeps, CountKeeps, MarkKeeps, RelayKeeps, RecordKeeps,
     SignerKeeps, ProfileKeeps, UndoKeeps, SettleKeeps DEF RequestStep
<1>2. CASE UNCHANGED launchVars
  <2>1. UNCHANGED <<managedVars, drafts, profileHandle, request, usedKeys, renames, agents, inFlight>>
    BY <1>2 DEF launchVars, draftVars, generated
  <2>2. LaunchTypeOK' /\ RoomKept' /\ KeysUsed' /\ CustodyExact'
    BY <2>1 DEF LaunchInv, LaunchTypeOK, ManagedTypeOK, HandlesUnique, RoomKept, KeysUsed,
       CustodyExact, HasKey, managedVars
  <2>3. TablesGrow
    BY <2>1 DEF TablesGrow, managedVars
  <2>4. \A r \in Requests : RequestOK(r)'
    BY <2>1, <2>3, OthersStay
  <2> QED
    BY <2>2, <2>4 DEF LaunchInv
<1> QED
  BY <1>1, <1>2, NewRequestKeeps, LostKeeps, AbandonKeeps, ArchiveKeeps, MineKeeps DEF LaunchNext

\* The invariant, whatever requests overlap, fail or die.
THEOREM LaunchInvariant == LaunchSpec => []LaunchInv
  BY LaunchStarts, LaunchNextKeeps, PTL DEF LaunchSpec

\* Tables, requests and chain keep their types; the index on handles holds although no
\* request that reads it writes at once.
THEOREM LaunchTypeCorrect == LaunchSpec => []LaunchTypeOK
<1>1. LaunchInv => LaunchTypeOK
  BY DEF LaunchInv
<1> QED
  BY <1>1, LaunchInvariant, PTL

\* A custodial key is in one place, and the key of a signer row is the one its agent was
\* registered with: launches, provisioning and abandoning may interleave at every await.
THEOREM CustodyCorrect == LaunchSpec => []CustodyExact
<1>1. LaunchInv => CustodyExact
  BY DEF LaunchInv
<1> QED
  BY <1>1, LaunchInvariant, PTL

\* Whoever is charged has an agent of his own, with its signer row and its profile.
THEOREM DeliveryCorrect == LaunchSpec => []PaidIsDelivered
<1>1. LaunchInv => PaidIsDelivered
  BY DEF LaunchInv, PaidIsDelivered, RequestOK, Shape, Registered
<1> QED
  BY <1>1, LaunchInvariant, PTL
=============================================================================
