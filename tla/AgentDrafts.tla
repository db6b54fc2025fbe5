----------------------------- MODULE AgentDrafts -----------------------------
(***************************************************************************)
(* Agent drafts: the rows of agent_drafts and the requests that create,    *)
(* edit, provision and abandon them.  A request is served step by step,    *)
(* one step per await; what it has read may be stale when it writes, and   *)
(* the writes are unconditional UPDATEs by id.  The requests of one owner  *)
(* are modelled; a foreign one gets 404 before it reads anything else.     *)
(*                                                                         *)
(* identity_json and the vault are set when a draft is created.  A draft   *)
(* without strategy and frequency is one its owner does not launch yet;    *)
(* nothing else reads them.  An address is named by its key.               *)
(***************************************************************************)
EXTENDS ManagedAgents

CONSTANTS DraftIds, Handles,
          Requests,       \* requests in flight at a time
          MaxRenames      \* bound: edits of a draft's identity

ASSUME DraftsAssumption == MaxRenames \in Nat

VARIABLES drafts,         \* agent_drafts
          profileHandle,  \* agent_profiles.handle
          request,        \* the requests
          usedKeys,       \* keys generated so far
          renames

generated == <<usedKeys, renames>>
draftVars == <<drafts, profileHandle, request, generated>>

DraftStatus == {"absent", "draft", "launching", "launched", "abandoned"}
NoDraft == [status |-> "absent", handle |-> NoRow,
            address |-> NoRow, key |-> NoRow, agent |-> 0]
DraftRow == [status : DraftStatus, handle : Handles \cup {NoRow},
             address : Keys \cup {NoRow}, key : Keys \cup {NoRow}, agent : ManagedIds \cup {0}]

NoRequest == [kind |-> "none", stage |-> "idle", draft |-> NoRow,
              row |-> NoDraft, agent |-> 0]

\* The partial unique index on handle WHERE status = 'draft'.
HandlesUnique(rows) ==
    \A d, e \in DraftIds :
        (d # e /\ rows[d].status = "draft" /\ rows[e].status = "draft") =>
            rows[d].handle # rows[e].handle

\* AgentDraftsService.isHandleTaken: editable drafts first, then active profiles.
isHandleTaken(handle, d) ==
    \/ \E e \in DraftIds \ {d} : drafts[e].status = "draft" /\ drafts[e].handle = handle
    \/ \E a \in ManagedIds : IsActive(a) /\ profileHandle[a] = handle

-----------------------------------------------------------------------------
(* Steps of a request: it moves from one stage to the next until it is answered and *)
(* its slot is free for the next one.                                                *)

Go(r, from, new) ==
    /\ request[r].stage = from
    /\ request' = [request EXCEPT ![r] =
            [f \in DOMAIN @ |-> IF f \in DOMAIN new THEN new[f] ELSE @[f]]]
Begin(r, kind, stage, d, row) ==
    Go(r, "idle", [kind |-> kind, stage |-> stage, draft |-> d, row |-> row])
Answered(r, from) == Go(r, from, NoRequest)

\* requireEditableDraft: the row as it is now, which is all the request will know of it.
requireEditableDraft(d) == drafts[d].status = "draft"

\* UPDATE ... WHERE id = ?: fails when the index refuses the new row.
UpdateRow(d, row) == drafts' = [drafts EXCEPT ![d] = row]
UpdateWithoutIndex(d, row) == TRUE
UpdateAllowed(d, row) == HandlesUnique([drafts EXCEPT ![d] = row])

-----------------------------------------------------------------------------
(* createDraft and updateDraft. *)

createDraft(r, d, handle) ==
    /\ drafts[d] = NoDraft /\ ~isHandleTaken(handle, d)
    /\ Begin(r, "create", "write", d, [NoDraft EXCEPT !.status = "draft", !.handle = handle])
    /\ UNCHANGED <<managedVars, drafts, profileHandle, generated>>

\* An edit of the identity brings another handle, which must be free.
updateDraft(r, d, handle) ==
    /\ renames < MaxRenames /\ renames' = renames + 1
    /\ requireEditableDraft(d) /\ handle # drafts[d].handle /\ ~isHandleTaken(handle, d)
    /\ Begin(r, "edit", "write", d, [NoDraft EXCEPT !.handle = handle])
    /\ UNCHANGED <<managedVars, drafts, profileHandle, usedKeys>>

\* The statement names the edited columns only; the rest is as it is by now.
EditedRow(row, edit) == [row EXCEPT !.handle = edit.handle]

\* INSERT or UPDATE; the index may refuse it.
WriteDraft(r) ==
    LET d == request[r].draft
        row == IF request[r].kind = "create" THEN request[r].row
               ELSE EditedRow(drafts[d], request[r].row)
    IN
    /\ Answered(r, "write")
    /\ IF UpdateAllowed(d, row) /\ (request[r].kind = "create" => drafts[d] = NoDraft)
         THEN UpdateRow(d, row) ELSE UNCHANGED drafts
    /\ UNCHANGED <<managedVars, profileHandle, generated>>

-----------------------------------------------------------------------------
(* provisionWallet, abandonDraft and the clean-up job. *)

\* A draft that has a signer keeps it; otherwise a fresh key is generated.
provisionWallet(r, d) ==
    /\ requireEditableDraft(d) /\ drafts[d].address = NoRow
    /\ Begin(r, "provision", "provision", d, NoDraft)
    /\ UNCHANGED <<managedVars, drafts, profileHandle, generated>>

\* One UPDATE for the address and the encrypted key.
Provisioned(row, k) == [row EXCEPT !.address = k, !.key = k]

WriteKey(r) ==
    LET d == request[r].draft IN
    /\ Answered(r, "provision")
    /\ \E k \in Keys \ usedKeys :
        /\ usedKeys' = usedKeys \cup {k}
        /\ UpdateRow(d, Provisioned(drafts[d], k))
    /\ UNCHANGED <<managedVars, profileHandle, renames>>

\* Whatever the status is, launching included.
AbandonedRow(row) == [row EXCEPT !.status = "abandoned", !.key = NoRow, !.address = NoRow]
abandonDraft(d) ==
    /\ drafts[d].status \notin {"absent", "abandoned"}
    /\ UpdateRow(d, AbandonedRow(drafts[d]))
    /\ UNCHANGED <<managedVars, profileHandle, request, generated>>

\* abandonStale: every draft nobody edited for long, in one statement.
abandonStale ==
    /\ \E stale \in SUBSET {d \in DraftIds : drafts[d].status = "draft"} :
        /\ stale # {}
        /\ drafts' = [d \in DraftIds |->
                IF d \in stale THEN AbandonedRow(drafts[d]) ELSE drafts[d]]
    /\ UNCHANGED <<managedVars, profileHandle, request, generated>>
=============================================================================
