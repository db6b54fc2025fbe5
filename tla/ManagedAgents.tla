--------------------------- MODULE ManagedAgents ---------------------------
(***************************************************************************)
(* The two tables behind a managed agent: agent_profiles (here: whether    *)
(* there is a profile and whether it is archived) and agent_signers (the   *)
(* custodial key).  Access is decided by the owner the chain reports, so   *)
(* the owner_address columns are a cache no guard reads and are left out.  *)
(* Archiving is two statements: another request, a run of the strategy or  *)
(* a crash may come between them.                                          *)
(***************************************************************************)
EXTENDS Naturals, FiniteSets

CONSTANTS ManagedIds,     \* ids of agents
          Keys,           \* custodial private keys
          NoRow,          \* no row in the table
          Wiped           \* the empty string wipeEncryptedKey leaves

ASSUME ManagedAssumption ==
    /\ Keys \cap {NoRow, Wiped} = {} /\ NoRow # Wiped
    /\ NoRow \notin {"active", "archived"}

VARIABLES profiles,       \* agent_profiles: NoRow, "active" or "archived"
          signers,        \* agent_signers: the key stored for the agent
          archiving       \* archive requests between their two statements

managedVars == <<profiles, signers, archiving>>

ManagedTypeOK ==
    /\ profiles \in [ManagedIds -> {NoRow, "active", "archived"}]
    /\ signers \in [ManagedIds -> Keys \cup {NoRow, Wiped}]
    /\ archiving \subseteq ManagedIds

IsActive(a) == profiles[a] = "active"
HasKey(a) == signers[a] \in Keys

\* wipeEncryptedKey: an UPDATE, so it touches nothing when there is no row.
KeyAfterWipe(key) == IF key = NoRow THEN NoRow ELSE Wiped

\* archiveManagedAgent, first statement: archived_at is set once.
ArchiveProfile(a) ==
    /\ IsActive(a)
    /\ profiles' = [profiles EXCEPT ![a] = "archived"]
    /\ archiving' = archiving \cup {a}
    /\ UNCHANGED signers

\* Second statement, then the answer.
WipeKey(a) ==
    /\ a \in archiving
    /\ signers' = [signers EXCEPT ![a] = KeyAfterWipe(@)]
    /\ archiving' = archiving \ {a}
    /\ UNCHANGED profiles

\* The request dies between them; a retry is refused, the agent being archived.
ArchiveCrash(a) ==
    /\ a \in archiving
    /\ archiving' = archiving \ {a}
    /\ UNCHANGED <<profiles, signers>>
=============================================================================
