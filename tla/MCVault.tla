------------------------------ MODULE MCVault --------------------------------
(***************************************************************************)
(* One run for the parts of the vault that do not share state: whole-vault *)
(* operations, hard deletion, the files of a page, the page's claims, the  *)
(* vectors, portable archives, and the files kept for imports and exports. *)
(* part says which of them a behaviour is about; the variables of the      *)
(* others keep one value.                                                  *)
(***************************************************************************)
EXTENDS VaultOperations, EvidenceDeletion, ProjectionFiles, MemoryPages, EmbeddingIndex,
        PortableVault, ManagedFiles

CONSTANTS q1, q2, item1, item2, item3, bytes1, bytes2, memory, work1, health, w1, w2

VARIABLE part

Blobs == (item1 :> bytes1) @@ (item2 :> bytes1) @@ (item3 :> bytes2)
Deletion(i) == [kind |-> "delete", item |-> i]
Asked == {Deletion(item1), [kind |-> "upload", item |-> item2], [kind |-> "import", item |-> item1],
          [kind |-> "destroy", item |-> item1]}
Archived == {item2, item3}
Shards == (memory :> NoTopic) @@ (work1 :> memory) @@ (health :> memory)

Init ==
  /\ part \in {"vault", "deletion", "files", "pages", "vectors", "portable", "tokens", "exports"}
  /\ VaultInit /\ DeletionInit /\ FilesInit /\ PagesInit /\ IndexInit
  /\ PortableInit /\ ManagedInit
  /\ part # "vault" => want = [r \in Requests |-> Deletion(item1)]
  /\ part # "pages" => ~sharded /\ open = {Compilation("a"), Expiry}
  /\ part # "vectors" => about = "event"

archiveVars == <<portableVars, managedVars>>

ButVault == <<part, deletionVars, filesVars, pagesVars, indexVars, archiveVars>>
ButDeletion == <<part, vaultVars, filesVars, pagesVars, indexVars, archiveVars>>
ButFiles == <<part, vaultVars, deletionVars, pagesVars, indexVars, archiveVars>>
ButPages == <<part, vaultVars, deletionVars, filesVars, indexVars, archiveVars>>
ButVectors == <<part, vaultVars, deletionVars, filesVars, pagesVars, archiveVars>>
ButArchives == <<part, vaultVars, deletionVars, filesVars, pagesVars, indexVars>>

Vault(A) == part = "vault" /\ A /\ UNCHANGED ButVault

Next ==
  \/ Vault(VaultNext)
  \/ part = "deletion" /\ DeletionNext /\ UNCHANGED ButDeletion
  \/ part = "files" /\ FilesNext /\ UNCHANGED ButFiles
  \/ part = "pages" /\ PagesNext /\ UNCHANGED ButPages
  \/ part = "vectors" /\ IndexNext /\ UNCHANGED ButVectors
  \/ part = "portable" /\ PortableNext /\ UNCHANGED <<ButArchives, managedVars>>
  \/ part = "tokens" /\ TokensNext /\ UNCHANGED <<ButArchives, portableVars>>
  \/ part = "exports" /\ ExportsNext /\ UNCHANGED <<ButArchives, portableVars>>

vars == <<part, vaultVars, deletionVars, filesVars, pagesVars, indexVars, archiveVars>>

Spec ==
  /\ Init /\ [][Next]_vars
  /\ WF_vars(Vault(WorkAction))
  /\ WF_vars(Vault(SnapshotAction))
  /\ \A r \in Requests : WF_vars(Vault(HandlerAction(r)))
  /\ WF_vars(Vault(Boot))
  /\ WF_vars(Vault(Quit))

TypeOK == VaultTypeOK /\ DeletionTypeOK /\ FilesTypeOK /\ PagesTypeOK /\ IndexTypeOK
  /\ PortableTypeOK /\ ManagedTypeOK
=============================================================================
