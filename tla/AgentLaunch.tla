----------------------------- MODULE AgentLaunch -----------------------------
(***************************************************************************)
(* From a draft to a registered agent, against payment.  A launch verifies *)
(* an x402 payment, reads the draft, counts the owner's agents, marks the  *)
(* draft, has the relayer register the agent on chain, hands the custodial *)
(* key over from the draft to the signer row, creates the profile, and     *)
(* settles or cancels the payment.  A registration without a draft takes   *)
(* the same payment and the same relayer.  Requests run concurrently, every *)
(* step may fail, and the platform may kill a request anywhere.            *)
(***************************************************************************)
EXTENDS AgentDrafts, Integers, Sequences

CONSTANTS MaxAgentsPerUser,   \* MAX_AGENTS_PER_USER, 5 in the code
          MaxRegistered,      \* bound: agents ever registered
          ClientKey           \* the key of a client that registers without a draft

ASSUME LaunchAssumption ==
    /\ MaxAgentsPerUser \in Nat /\ MaxRegistered \in Nat
    /\ ManagedIds = 1..MaxRegistered
    /\ ClientKey \notin Keys \cup {NoRow, Wiped}

VARIABLES agents,             \* external: signers of the registered agents, by id
          inFlight            \* external: signers of registrations sent and not yet mined

launchVars == <<managedVars, draftVars, agents, inFlight>>
chain == <<agents, inFlight>>

Kinds == {"none", "create", "edit", "provision", "launch", "register"}
RequestStages == {"idle", "write", "provision", "count", "mark",
                  "relay", "record", "signer", "profile", "undo", "settle"}

LaunchInit ==
    /\ drafts = [d \in DraftIds |-> NoDraft]
    /\ profiles = [a \in ManagedIds |-> NoRow]
    /\ signers = [a \in ManagedIds |-> NoRow]
    /\ archiving = {}
    /\ profileHandle = [a \in ManagedIds |-> NoRow]
    /\ request = [r \in Requests |-> NoRequest]
    /\ usedKeys = {} /\ renames = 0
    /\ agents = <<>> /\ inFlight = {}

-----------------------------------------------------------------------------
(* The payment around a handler: runRegistrationFeeProtectedRequest.  It is verified before *)
(* the handler reads anything and settled after it; a request whose payment is refused does *)
(* nothing.  A fee of zero is a payment verified and settled without fail.                  *)

\* The handler throws or answers 400 and above: the payment is cancelled.
HandlerGoesOn(r, from) ==
    IF from = "profile" THEN Go(r, from, [stage |-> "settle"]) ELSE Answered(r, from)
HandlerFails(r, from) == Answered(r, from)

\* Settled or not, the answer is given.  When the settlement is refused or the facilitator
\* fails the answer is an error, though the agent exists.
Settle(r) ==
    /\ Answered(r, "settle")
    /\ UNCHANGED <<managedVars, drafts, profileHandle, generated, chain>>

\* POST /agents: the signature is verified, then the relayer registers for the client.
registerAgent(r) ==
    /\ Begin(r, "register", "relay", NoRow, NoDraft)
    /\ UNCHANGED <<managedVars, drafts, profileHandle, generated, chain>>

-----------------------------------------------------------------------------
(* launchDraft. *)

\* assertLaunchReady: the key is there; a row without the rest is not launched.
assertLaunchReady(row) == row.key # NoRow

\* The row is read once; it is all the launch will know of the draft.
launchDraft(r, d) ==
    /\ requireEditableDraft(d) /\ assertLaunchReady(drafts[d])
    /\ Begin(r, "launch", "count", d, drafts[d])
    /\ UNCHANGED <<managedVars, drafts, profileHandle, generated, chain>>

countActiveByOwner == Cardinality({a \in ManagedIds : IsActive(a)})

CountAgents(r) ==
    /\ IF countActiveByOwner < MaxAgentsPerUser
         THEN Go(r, "count", [stage |-> "mark"])
         ELSE HandlerFails(r, "count")
    /\ UNCHANGED <<managedVars, drafts, profileHandle, generated, chain>>

MarkLaunching(r) ==
    /\ Go(r, "mark", [stage |-> "relay"])
    /\ UpdateRow(request[r].draft, [drafts[request[r].draft] EXCEPT !.status = "launching"])
    /\ UNCHANGED <<managedVars, profileHandle, generated, chain>>

\* The signer the registration names: of the row as it was read, or the client's own.
SignerOf(r) == IF request[r].kind = "launch" THEN request[r].row.address ELSE ClientKey

Room == Len(agents) + Cardinality(inFlight) < MaxRegistered

\* registerWithRelayer: mined and seen; refused or reverted; or sent, and the receipt is
\* not seen, in which case it may be mined now, later or never.
registerWithRelayer(r) ==
    /\ \/ /\ Room
          /\ Go(r, "relay", [agent |-> Len(agents) + 1, stage |->
                    IF request[r].kind = "launch" THEN "record" ELSE "settle"])
          /\ agents' = Append(agents, SignerOf(r))
          /\ UNCHANGED inFlight
       \/ /\ IF request[r].kind = "launch" THEN Go(r, "relay", [stage |-> "undo"])
                                              ELSE HandlerFails(r, "relay")
          /\ \/ UNCHANGED inFlight
             \/ Room /\ inFlight' = inFlight \cup {SignerOf(r)}
          /\ UNCHANGED agents
    /\ UNCHANGED <<managedVars, drafts, profileHandle, generated>>

MineLate(k) ==
    /\ k \in inFlight
    /\ agents' = Append(agents, k) /\ inFlight' = inFlight \ {k}
    /\ UNCHANGED <<managedVars, draftVars>>

\* The fee is read once more, which may fail; then the draft is launched and its key
\* leaves it.
LaunchedRow(row, a) == [row EXCEPT !.status = "launched", !.agent = a, !.key = NoRow]
RecordLaunch(r) ==
    LET d == request[r].draft IN
    /\ \/ /\ Go(r, "record", [stage |-> "signer"])
          /\ UpdateRow(d, LaunchedRow(drafts[d], request[r].agent))
       \/ HandlerFails(r, "record") /\ UNCHANGED drafts
    /\ UNCHANGED <<managedVars, profileHandle, generated, chain>>

\* signersRepository.create: the key of the row as it was read.
KeyNow(r) == drafts[request[r].draft].address
KeyRead(r) == request[r].row.key
HandedKey(r) == KeyRead(r)
CreateSigner(r) ==
    /\ \/ /\ Go(r, "signer", [stage |-> "profile"])
          /\ signers' = [signers EXCEPT ![request[r].agent] = HandedKey(r)]
       \/ HandlerFails(r, "signer") /\ UNCHANGED signers
    /\ UNCHANGED <<profiles, archiving, drafts, profileHandle, generated, chain>>

\* profilesRepository.create: refused when an active profile has the handle by now.
CreateProfile(r) ==
    LET a == request[r].agent
        handle == request[r].row.handle
        free == \A b \in ManagedIds : IsActive(b) => profileHandle[b] # handle
    IN
    /\ \/ /\ Go(r, "profile", [stage |-> "settle"])
          /\ free
          /\ profiles' = [profiles EXCEPT ![a] = "active"]
          /\ profileHandle' = [profileHandle EXCEPT ![a] = handle]
       \/ HandlerFails(r, "profile") /\ UNCHANGED <<profiles, profileHandle>>
    /\ UNCHANGED <<signers, archiving, drafts, generated, chain>>

\* The catch block of a launch that is not registered: back to draft, whatever the status
\* is by now; the handle may be taken by another draft.
UndoLaunch(r) ==
    LET d == request[r].draft
        row == [drafts[d] EXCEPT !.status = "draft"]
    IN
    /\ HandlerFails(r, "undo")
    /\ IF UpdateAllowed(d, row) THEN UpdateRow(d, row) ELSE UNCHANGED drafts
    /\ UNCHANGED <<managedVars, profileHandle, generated, chain>>

-----------------------------------------------------------------------------

\* The platform kills the request; its payment is never settled.
RequestLost(r) ==
    /\ request[r].stage # "idle"
    /\ Answered(r, request[r].stage)
    /\ UNCHANGED <<managedVars, drafts, profileHandle, generated, chain>>

RequestStep(r) ==
    \/ (WriteDraft(r) \/ WriteKey(r)) /\ UNCHANGED chain
    \/ CountAgents(r) \/ MarkLaunching(r) \/ registerWithRelayer(r)
    \/ RecordLaunch(r) \/ CreateSigner(r) \/ CreateProfile(r) \/ UndoLaunch(r)
    \/ Settle(r)

NewRequest(r) ==
    \E d \in DraftIds :
        \/ /\ \/ \E h \in Handles :
                    createDraft(r, d, h) \/ updateDraft(r, d, h)
              \/ provisionWallet(r, d) /\ Keys # usedKeys
           /\ UNCHANGED chain
        \/ launchDraft(r, d)
        \/ registerAgent(r)

Archive(a) ==
    /\ ArchiveProfile(a) \/ WipeKey(a) \/ ArchiveCrash(a)
    /\ UNCHANGED <<draftVars, chain>>

LaunchNext ==
    \/ \E r \in Requests :
        NewRequest(r) \/ RequestStep(r) \/ RequestLost(r)
    \/ \E d \in DraftIds : abandonDraft(d) /\ UNCHANGED chain
    \/ abandonStale /\ UNCHANGED chain
    \/ \E a \in ManagedIds : Archive(a)
    \/ \E k \in Keys \cup {ClientKey} : MineLate(k)

LaunchSpec == LaunchInit /\ [][LaunchNext]_launchVars

-----------------------------------------------------------------------------
(* Properties. *)

\* Types of the tables, of the requests and of the chain.
LaunchTypeOK ==
    /\ ManagedTypeOK
    /\ drafts \in [DraftIds -> DraftRow] /\ HandlesUnique(drafts)
    /\ profileHandle \in [ManagedIds -> Handles \cup {NoRow}]
    /\ usedKeys \subseteq Keys /\ renames \in 0..MaxRenames
    /\ request \in [Requests ->
            [kind : Kinds, stage : RequestStages, draft : DraftIds \cup {NoRow}, row : DraftRow,
             agent : 0..Len(agents)]]
    /\ agents \in Seq(Keys \cup {ClientKey}) /\ Len(agents) <= MaxRegistered
    /\ inFlight \subseteq Keys \cup {ClientKey}

\* A custodial key is in one place.  The key of a signer row is the one the agent was
\* registered with, and no draft holds it any more; a draft's key belongs to its address
\* and to no other draft; a profile never runs without a signer row (provisionWallet,
\* launchDraft, abandonDraft under every interleaving).
CustodyExact ==
    /\ \A a \in ManagedIds : HasKey(a) =>
        /\ a <= Len(agents) /\ agents[a] = signers[a]
        /\ \A d \in DraftIds : drafts[d].key # signers[a]
    /\ \A d \in DraftIds : drafts[d].key # NoRow =>
        /\ drafts[d].address = drafts[d].key
        /\ \A e \in DraftIds \ {d} : drafts[e].key # drafts[d].key
    /\ \A a \in ManagedIds : profiles[a] # NoRow => signers[a] # NoRow

\* Nobody pays for an agent he does not get: a request that comes to the settlement has
\* registered an agent of its own with the signer it names, and a launch has left the
\* agent's signer row and profile behind, whatever other requests, the clean-up job
\* and archive requests did meanwhile (launchDraft, register, settleAfterHandler).
PaidIsDelivered ==
    \A r \in Requests : request[r].stage = "settle" =>
        LET a == request[r].agent IN
        /\ a # 0 /\ agents[a] = SignerOf(r)
        /\ \A s \in Requests \ {r} : request[s].agent # a
        /\ request[r].kind = "launch" => profiles[a] # NoRow /\ signers[a] # NoRow
=============================================================================
