--------------------------- MODULE MCVaultServer ---------------------------
(***************************************************************************)
(* Small instances of VaultServer.  Clients may send any request a         *)
(* legitimate or a confused client could: on any head, stale or made up,   *)
(* reusing ids, for items that exist, do not exist or are gone, and from   *)
(* an account that does not own the vault.  The head hash of a change      *)
(* depends on the change, so it is a function of the revision id.          *)
(***************************************************************************)
EXTENDS VaultServer, TLC

CONSTANTS MCGenesis, MCOps, BaseSeqs, BaseRevisions, CursorSeqs

MCOwner == [v \in Vaults |-> CHOOSE a \in Accounts : TRUE]

MCGenesisOf == [v \in Vaults |-> MCGenesis]

MCHashes == RevIds \cup {MCGenesis}

MCSubmissions ==
  { s \in [account : Accounts, vault : Vaults, item : Items, op : MCOps, id : RevIds,
           base_head_seq : BaseSeqs, base_head_hash : MCHashes,
           new_head_hash : RevIds, base_revision_seq : BaseRevisions] :
      /\ s.new_head_hash = s.id
      /\ s.op = "create" <=> s.base_revision_seq = 0
      /\ s.base_head_seq = 0 <=> s.base_head_hash = MCGenesis
      /\ s.account # MCOwner[s.vault] =>
           /\ s.op = "update" /\ s.base_revision_seq = 1
           /\ s.base_head_seq = 0 }

MCCursors ==
  { c \in [account : {MCOwner[v] : v \in Vaults}, vault : Vaults, seq : CursorSeqs,
           hash : MCHashes] :
      c.seq = 0 <=> c.hash = MCGenesis }

Symmetry == Permutations(Items) \cup Permutations(RevIds) \cup Permutations(Handlers)
=============================================================================
