---------------------------- MODULE VaultProofs ----------------------------
(* Whole-vault operations: an open vault is whole and every request takes      *)
(* effect once, for any number of requests, items, failing writes and deaths   *)
(* of the API.  And the archives and exports the API manages: an archive       *)
(* replaces the vault once, and a file in use is kept.  And what an archive    *)
(* holds: nothing that is made of tool output, and all of the rest.            *)
EXTENDS VaultOperations, ManagedFiles, PortableVault, WellFoundedInduction, TLAPS

-----------------------------------------------------------------------------
(* Shapes                                                                    *)

DeleteSteps == {"prepare", "delete", "supersede", "erase", "unpublish", "scrub", "recopy",
                "remember", "complete", "stuck"}
ImportSteps == {"claim", "save", "stage", "put", "replace", "away", "install", "tidy", "drop",
                "publish", "rollback", "stuck"}
DestroySteps == {"mark", "clear", "wipe", "scrub", "recopy", "remember", "unmark", "stuck"}
StartSteps == {"resume", "unlock"}

Deletion == [item : Items, req : Requests, freed : SUBSET BytesOf(Items),
             phase : {"prepared", "database_complete", "complete", "failed"}]
ImportRow == [req : Requests, old : SUBSET BytesOf(Items), fresh : SUBSET BytesOf(Items),
              phase : {"prepared", "database_complete", "files_complete", "complete", "failed"}]
Work == [step : DeleteSteps \cup ImportSteps \cup DestroySteps \cup StartSteps \cup {"none"},
         req : Requests \cup {NoRequest}, row : Nat, older : Nat]

JournalTyped ==
  /\ deletions \in Seq(Deletion)
  /\ \A k \in DOMAIN deletions : /\ KindOf(deletions[k].req) = "delete"
                                 /\ deletions[k].item = ItemOf(deletions[k].req)
  /\ imports \in Seq(ImportRow)
  /\ \A k \in DOMAIN imports : KindOf(imports[k].req) = "import"
  /\ marker # NoRequest => marker \in Requests /\ KindOf(marker) = "destroy"

VaultTyped ==
  /\ want \in [Requests -> Wants]
  /\ work \in Work
  /\ at \in [Requests -> {"idle", "admitted", "put", "draining", "waiting", "working"}]
  /\ commits \in [Requests -> Nat]
  /\ rows \subseteq Items /\ bytes \subseteq BytesOf(Items) /\ gone \subseteq Items
  /\ server \in {"open", "down", "starting"}
  /\ locked \in BOOLEAN
  /\ exclusive \in Requests \cup {NoRequest} /\ admitted \subseteq Requests
  /\ faults \in Nat
  /\ JournalTyped

-----------------------------------------------------------------------------
(* Who may work                                                              *)

Doing(kind) == work.req \in Requests /\ KindOf(work.req) = kind
Resting == work.step = "none"

\* Requests and the gate: at most one is exclusive, and works only when all others are done.
GateIsSound ==
  /\ \A r \in Requests :
       /\ r \in admitted <=> at[r] \in {"admitted", "put"}
       /\ at[r] \in {"draining", "waiting", "working"} => exclusive = r
       /\ at[r] = "working" <=> work.req = r /\ server = "open"
       /\ at[r] \in {"draining", "waiting", "working"} => KindOf(r) # "upload"
       /\ at[r] = "put" => KindOf(r) = "upload"
       /\ at[r] \in {"waiting", "working"} => locked /\ admitted = {}
  /\ exclusive # NoRequest => at[exclusive] \in {"draining", "waiting", "working"}
  /\ server # "open" => exclusive = NoRequest /\ admitted = {} /\ snapshot.step = "idle"
  /\ server = "open" /\ locked => exclusive # NoRequest /\ at[exclusive] # "draining"
  /\ server = "starting" => locked /\ ~Resting
  /\ server = "down" => Resting
  /\ ~Resting => snapshot.step = "idle"

\* What is done is done for a request of its kind, to its row of the journal.
WorkIsSound ==
  /\ Resting => work = NoWork
  /\ work.step \in StartSteps =>
       server = "starting" /\ work = [NoWork EXCEPT !.step = work.step]
  /\ ~Resting /\ work.step \notin StartSteps =>
       \/ Doing("delete") /\ work.step \in DeleteSteps
       \/ Doing("import") /\ work.step \in ImportSteps
       \/ Doing("destroy") /\ work.step \in DestroySteps
  /\ work.step \in {"prepare", "claim", "save", "stage"} \/ Doing("destroy") => work.row = 0
  /\ work.step \in {"claim", "save", "stage", "put", "replace", "mark", "stuck"} =>
       server = "open"

RowOfDeletion(phase) ==
  /\ work.row \in DOMAIN deletions
  /\ deletions[work.row].phase = phase /\ deletions[work.row].req = work.req
OlderRow ==
  work.older # 0 =>
    /\ server = "starting"
    /\ work.older \in DOMAIN deletions /\ work.older # work.row
    /\ deletions[work.older].phase = "prepared"
RowOfImport(phase) ==
  /\ work.row \in DOMAIN imports
  /\ imports[work.row].phase = phase /\ imports[work.row].req = work.req

RowIsSound ==
  /\ work.step = "prepare" => OlderRow
  /\ work.step = "delete" => RowOfDeletion("prepared") /\ OlderRow
  /\ work.step = "supersede" => RowOfDeletion("database_complete") /\ OlderRow /\ work.older # 0
  /\ Doing("delete") /\ work.step \in {"erase", "unpublish", "scrub", "recopy", "remember",
                                       "complete"} => RowOfDeletion("database_complete")
  /\ work.step \in {"put", "replace", "rollback"} => RowOfImport("prepared")
  /\ work.step \in {"away", "install", "tidy"} => RowOfImport("database_complete")
  /\ work.step \in {"drop", "publish"} => RowOfImport("files_complete")

OpenDeletion(k) == deletions[k].phase \in {"prepared", "database_complete"}
OpenImport(k) == imports[k].phase \in {"prepared", "database_complete", "files_complete"}
NoneOpen ==
  /\ \A k \in DOMAIN deletions : ~OpenDeletion(k)
  /\ \A k \in DOMAIN imports : ~OpenImport(k)

\* The journals have nothing open but what is being done, unless the API has died or is
\* to be restarted.
JournalIsSound ==
  /\ marker # NoRequest =>
       /\ NoneOpen
       /\ server # "down" => work.req = marker /\ work.step # "mark"
  /\ Doing("destroy") /\ work.step \notin {"mark", "stuck"} => marker = work.req
  /\ server = "open" /\ work.step # "stuck" =>
       /\ \A k \in DOMAIN deletions : OpenDeletion(k) => Doing("delete") /\ k = work.row
       /\ \A k \in DOMAIN imports : OpenImport(k) => Doing("import") /\ k = work.row
  /\ Doing("delete") => \A k \in DOMAIN imports : ~OpenImport(k)
  /\ work.step = "unlock" => NoneOpen

OperationsAreSound == VaultTyped /\ GateIsSound /\ WorkIsSound /\ RowIsSound /\ JournalIsSound

-----------------------------------------------------------------------------
(* Rows and bytes                                                            *)

StoreIsSound ==
  /\ BytesOf(rows) \subseteq bytes
  /\ \A r \in Requests : at[r] = "put" =>
       /\ BlobOf[ItemOf(r)] \in bytes
       /\ \A q \in Requests : at[q] = "put" /\ q # r => BlobOf[ItemOf(q)] # BlobOf[ItemOf(r)]
  /\ \A k \in DOMAIN deletions : deletions[k].phase = "database_complete" =>
       deletions[k].item \notin rows /\ deletions[k].freed \cap BytesOf(rows) = {}
  /\ \A k \in DOMAIN imports :
       /\ imports[k].phase \in {"database_complete", "files_complete"} => rows = Archive
       /\ imports[k].phase = "prepared" =>
            imports[k].old = BytesOf(rows) /\ imports[k].fresh \cap BytesOf(rows) = {}
  /\ work.step = "replace" => BytesOf(Archive) \subseteq bytes
  /\ work.step = "wipe" => rows = {}

-----------------------------------------------------------------------------
(* What is gone                                                              *)

\* An item that was removed is still on a page, or in a backup, only while the operation
\* that removes it has not come to the pages, or to the backups.
Past(k, steps) == Doing("delete") /\ work.row = k /\ work.step \in steps
RemovalPending(i, steps) ==
  \/ \E k \in DOMAIN deletions : /\ deletions[k].phase = "database_complete"
                                 /\ deletions[k].item = i /\ ~Past(k, steps)
  \/ marker # NoRequest /\ work.step \notin steps
ReplacementPending ==
  \E k \in DOMAIN imports : /\ imports[k].phase = "database_complete"
                            /\ ~(work.step \in {"install", "tidy"} /\ work.row = k)

PagesDone == {"scrub", "recopy", "remember", "complete", "unmark"}
BackupsDone == {"recopy", "remember", "complete", "unmark"}
ShelfInUse == \E k \in DOMAIN imports : imports[k].phase = "database_complete"

GoneIsGone ==
  /\ gone \cap rows = {}
  /\ gone # {} => Requests # {}
  /\ snapshot.step = "writing" => gone \cap snapshot.holds = {}
  /\ \A i \in gone \cap pages : RemovalPending(i, PagesDone) \/ ReplacementPending
  /\ shelf # {} => ShelfInUse
  /\ \A holds \in backups : \A i \in gone \cap holds : RemovalPending(i, BackupsDone)

\* Its bytes are there only if a row or an upload has the same, or they are still to be erased.
ErasurePending(b) ==
  \/ server # "open" /\ work.step # "unlock"
  \/ work.step \in {"wipe", "stuck"}
  \/ work.step = "erase" /\ b \in deletions[work.row].freed
  \/ work.step = "replace" /\ b \in BytesOf(Archive)
  \/ work.step \in {"away", "install", "tidy", "drop"} /\ b \in imports[work.row].old
BytesAreGone ==
  \A i \in gone : BlobOf[i] \in bytes /\ faults = 0 =>
    \/ BlobOf[i] \in BytesOf(rows)
    \/ \E r \in Requests : at[r] = "put" /\ BlobOf[ItemOf(r)] = BlobOf[i]
    \/ ErasurePending(BlobOf[i])

-----------------------------------------------------------------------------
(* Effects                                                                   *)

Committed(r) ==
  \E k \in DOMAIN imports :
    imports[k].req = r /\ imports[k].phase \in {"database_complete", "files_complete", "complete"}

\* What has been committed, remembered and written in the journals agrees.
JournalEffects ==
  /\ \A r \in Requests : commits[r] <= 1
  /\ \A r \in Requests : r \in keys /\ KindOf(r) # "destroy" => commits[r] = 1
  /\ \A r \in Requests : KindOf(r) = "upload" /\ r \notin keys => commits[r] = 0
  /\ \A r \in Requests : KindOf(r) = "delete" /\ commits[r] = 1 /\ r \notin keys =>
       \E k \in DOMAIN deletions :
         deletions[k].req = r /\ deletions[k].phase = "database_complete"
  /\ \A k \in DOMAIN deletions :
       /\ deletions[k].phase = "database_complete" => commits[deletions[k].req] = 1
       /\ OpenDeletion(k) /\ deletions[k].item \in rows => deletions[k].req \notin keys
  /\ \A r \in Requests : KindOf(r) = "import" /\ commits[r] = 1 =>
       Committed(r) \/ r \notin staged \/ marker # NoRequest
  /\ \A r \in Requests : KindOf(r) = "import" /\ Committed(r) => commits[r] = 1

\* No request that waits to be done has been answered.
GateEffects ==
  \A r \in Requests : at[r] \in {"put", "draining", "waiting"} => r \notin keys

\* What is done has not been done, until it commits.
WorkEffects ==
  /\ work.step \in {"prepare", "delete"} => work.req \notin keys /\ commits[work.req] = 0
  /\ work.step = "complete" => work.req \in keys
  /\ work.step \in {"save", "stage", "put", "replace"} => commits[work.req] = 0
  /\ Doing("destroy") /\ work.step \in {"scrub", "recopy", "remember", "unmark"} =>
       staged = {}

EffectsAreSound == JournalEffects /\ GateEffects /\ WorkEffects

VaultInv ==
  OperationsAreSound /\ StoreIsSound /\ GoneIsGone /\ BytesAreGone /\ EffectsAreSound

-----------------------------------------------------------------------------
(* Requests, rows of the journals                                            *)

\* A request has a kind and an item.
LEMMA WhatIsAsked ==
  ASSUME want \in [Requests -> Wants], NEW r \in Requests
  PROVE  KindOf(r) \in {"upload", "delete", "import", "destroy"} /\ ItemOf(r) \in Items
  BY WantsAssumption DEF KindOf, ItemOf

\* What a request asks for never changes.
LEMMA SameRequests ==
  ASSUME want' = want
  PROVE  /\ \A r : KindOf(r)' = KindOf(r) /\ ItemOf(r)' = ItemOf(r)
         /\ \A kind : work'.req = work.req => (Doing(kind)' <=> Doing(kind))
  BY DEF KindOf, ItemOf, Doing

\* Fewer items have fewer bytes.
LEMMA BytesOfSome ==
  ASSUME NEW some, NEW all, some \subseteq all
  PROVE  BytesOf(some) \subseteq BytesOf(all)
  BY DEF BytesOf

\* A new row of a table comes last and leaves the others.
LEMMA RowAppended ==
  ASSUME NEW S, NEW s \in Seq(S), NEW e \in S
  PROVE  /\ Append(s, e) \in Seq(S)
         /\ DOMAIN Append(s, e) = DOMAIN s \cup {Len(s) + 1}
         /\ Len(s) + 1 \in Nat /\ Len(s) + 1 # 0 /\ Len(s) + 1 \notin DOMAIN s
         /\ \A k \in DOMAIN s : Append(s, e)[k] = s[k]
         /\ Append(s, e)[Len(s) + 1] = e
  OBVIOUS

\* A row that changes leaves the others.
LEMMA RowChanged ==
  ASSUME NEW S, NEW s \in Seq(S), NEW k \in DOMAIN s, NEW e \in S
  PROVE  /\ [s EXCEPT ![k] = e] \in Seq(S)
         /\ DOMAIN [s EXCEPT ![k] = e] = DOMAIN s
         /\ \A j \in DOMAIN s : [s EXCEPT ![k] = e][j] = IF j = k THEN e ELSE s[j]
  OBVIOUS

\* One row of the deletions, or of the imports, moves to another phase.
DeletionBecomes(k, phase, freed) ==
  /\ k \in DOMAIN deletions
  /\ deletions' \in Seq(Deletion) /\ DOMAIN deletions' = DOMAIN deletions
  /\ \A j \in DOMAIN deletions :
       IF j = k THEN /\ deletions'[k].phase = phase /\ deletions'[k].freed = freed
                     /\ deletions'[k].item = deletions[k].item
                     /\ deletions'[k].req = deletions[k].req
       ELSE deletions'[j] = deletions[j]
ImportBecomes(k, phase) ==
  /\ k \in DOMAIN imports
  /\ imports' \in Seq(ImportRow) /\ DOMAIN imports' = DOMAIN imports
  /\ \A j \in DOMAIN imports :
       IF j = k THEN /\ imports'[k].phase = phase /\ imports'[k].req = imports[k].req
                     /\ imports'[k].old = imports[k].old
                     /\ imports'[k].fresh = imports[k].fresh
       ELSE imports'[j] = imports[j]

\* A deletion moves to another phase, ...
LEMMA DeletionMoves ==
  ASSUME deletions \in Seq(Deletion), NEW k \in DOMAIN deletions,
         NEW phase \in {"prepared", "database_complete", "complete", "failed"},
         deletions' = [deletions EXCEPT ![k].phase = phase]
  PROVE  DeletionBecomes(k, phase, deletions[k].freed)
<1> DEFINE e == [deletions[k] EXCEPT !.phase = phase]
<1>1. deletions[k] \in Deletion
  OBVIOUS
<1>2. /\ e \in Deletion /\ e.phase = phase /\ e.freed = deletions[k].freed
      /\ e.item = deletions[k].item /\ e.req = deletions[k].req
  BY <1>1 DEF Deletion
<1>3. deletions' = [deletions EXCEPT ![k] = e]
  OBVIOUS
<1> HIDE DEF e
<1> QED BY <1>2, <1>3, RowChanged DEF DeletionBecomes

\* ... or commits and notes the bytes to erase.
LEMMA DeletionCommits ==
  ASSUME deletions \in Seq(Deletion), NEW k \in DOMAIN deletions,
         NEW freed \in SUBSET BytesOf(Items)
  PROVE  deletions' = [deletions EXCEPT ![k].phase = "database_complete", ![k].freed = freed]
           => DeletionBecomes(k, "database_complete", freed)
<1> DEFINE e == [deletions[k] EXCEPT !.phase = "database_complete", !.freed = freed]
           s == [deletions EXCEPT ![k].phase = "database_complete", ![k].freed = freed]
<1>1. deletions[k] \in Deletion
  OBVIOUS
<1>2. /\ e \in Deletion /\ e.phase = "database_complete" /\ e.freed = freed
      /\ e.item = deletions[k].item /\ e.req = deletions[k].req
  BY <1>1 DEF Deletion
<1>3. s = [deletions EXCEPT ![k] = e]
  OBVIOUS
<1> HIDE DEF e, s
<1>4. /\ s \in Seq(Deletion) /\ DOMAIN s = DOMAIN deletions
      /\ \A j \in DOMAIN deletions : s[j] = IF j = k THEN e ELSE deletions[j]
  BY <1>2, <1>3, RowChanged
<1>5. deletions' = s => DeletionBecomes(k, "database_complete", freed)
  BY <1>2, <1>4 DEF DeletionBecomes
<1> QED BY <1>5 DEF s

\* An import moves to another phase.
LEMMA ImportMoves ==
  ASSUME imports \in Seq(ImportRow), NEW k \in DOMAIN imports,
         NEW phase \in {"prepared", "database_complete", "files_complete", "complete", "failed"},
         imports' = [imports EXCEPT ![k].phase = phase]
  PROVE  ImportBecomes(k, phase)
<1> DEFINE e == [imports[k] EXCEPT !.phase = phase]
<1>1. imports[k] \in ImportRow
  OBVIOUS
<1>2. /\ e \in ImportRow /\ e.phase = phase /\ e.old = imports[k].old
      /\ e.fresh = imports[k].fresh /\ e.req = imports[k].req
  BY <1>1 DEF ImportRow
<1>3. imports' = [imports EXCEPT ![k] = e]
  OBVIOUS
<1> HIDE DEF e
<1> QED BY <1>2, <1>3, RowChanged DEF ImportBecomes

\* A table with a row in some phases has a first one in them.
LEMMA FirstIsThere ==
  ASSUME NEW S, NEW table \in Seq(S), NEW phases,
         NEW k \in DOMAIN table, table[k].phase \in phases
  PROVE  FirstIn(table, phases) # {}
<1> DEFINE T == {j \in DOMAIN table : table[j].phase \in phases}
           R == {ss \in Nat \X Nat : ss[1] < ss[2]}
<1>1. DOMAIN table \subseteq Nat /\ \A j \in DOMAIN table : 1..(j - 1) \subseteq DOMAIN table
  OBVIOUS
<1>2. T \subseteq Nat /\ T # {}
  BY <1>1
<1>3. PICK x \in T : \A y \in T : ~(<<y, x>> \in R)
  <2> HIDE DEF T, R
  <2>1. IsWellFoundedOn(R, Nat)
    BY NatLessThanWellFounded DEF OpToRel, R
  <2> QED BY <1>2, <2>1, WFMin
<1>4. \A y \in T : ~(y < x)
  BY <1>2, <1>3
<1>5. \A j \in 1..(x - 1) : table[j].phase \notin phases
  BY <1>1, <1>2, <1>4
<1> QED BY <1>5 DEF FirstIn

-----------------------------------------------------------------------------
(* Types                                                                     *)

JournalVars == <<deletions, imports, marker>>
Same == want' = want /\ UNCHANGED JournalVars

\* Steps that leave the journals as they are, ...
LEMMA JournalStays ==
  ASSUME JournalTyped, Same
  PROVE  JournalTyped'
<1>1. \A r : KindOf(r)' = KindOf(r) /\ ItemOf(r)' = ItemOf(r)
  BY SameRequests DEF Same
<1> QED BY <1>1 DEF JournalTyped, Same, JournalVars

\* ... that change deletions only, ...
LEMMA JournalWithDeletions ==
  ASSUME JournalTyped, want' = want, imports' = imports, marker' = marker,
         deletions' \in Seq(Deletion),
         \A k \in DOMAIN deletions' :
           \/ k \in DOMAIN deletions /\ deletions'[k].req = deletions[k].req
                                     /\ deletions'[k].item = deletions[k].item
           \/ KindOf(deletions'[k].req) = "delete"
              /\ deletions'[k].item = ItemOf(deletions'[k].req)
  PROVE  JournalTyped'
<1>1. \A r : KindOf(r)' = KindOf(r) /\ ItemOf(r)' = ItemOf(r)
  BY SameRequests
<1> QED BY <1>1 DEF JournalTyped

\* ... or imports only, keep their type.
LEMMA JournalWithImports ==
  ASSUME JournalTyped, want' = want, deletions' = deletions, marker' = marker,
         imports' \in Seq(ImportRow),
         \A k \in DOMAIN imports' :
           \/ k \in DOMAIN imports /\ imports'[k].req = imports[k].req
           \/ KindOf(imports'[k].req) = "import"
  PROVE  JournalTyped'
<1>1. \A r : KindOf(r)' = KindOf(r) /\ ItemOf(r)' = ItemOf(r)
  BY SameRequests
<1> QED BY <1>1 DEF JournalTyped

\* The journals are empty at first.
LEMMA JournalInitially == ASSUME VaultInit PROVE VaultTyped /\ JournalTyped
<1>1. JournalTyped
  BY DEF VaultInit, JournalTyped
<1>2. BytesOf(rows) \subseteq BytesOf(Items)
  BY BytesOfSome DEF VaultInit
<1> QED BY <1>1, <1>2, NoRequestAssumption DEF VaultInit, VaultTyped, Work, NoWork

\* An empty table has no rows.
LEMMA SequencesBegin == ASSUME NEW S PROVE << >> \in Seq(S) /\ DOMAIN << >> = {}
  OBVIOUS

Untouched == /\ UNCHANGED <<want, commits, rows, bytes, gone, faults>> /\ Same

\* Steps of the gate only keep the type, ...
LEMMA GateTyped ==
  ASSUME VaultTyped, Untouched, work' \in Work,
         \/ at' = at
         \/ \E r \in Requests, s \in {"idle", "admitted", "put", "draining", "waiting", "working"} :
              at' = [at EXCEPT ![r] = s]
         \/ at' = [r \in Requests |-> "idle"],
         server' \in {"open", "down", "starting"}, locked' \in BOOLEAN,
         exclusive' \in Requests \cup {NoRequest}, admitted' \subseteq Requests
  PROVE  VaultTyped'
<1>1. JournalTyped'
  BY JournalStays DEF VaultTyped, Untouched
<1>2. at' \in [Requests -> {"idle", "admitted", "put", "draining", "waiting", "working"}]
  BY DEF VaultTyped
<1> QED BY <1>1, <1>2 DEF VaultTyped, Untouched

\* ... among them those of requests that come and go.
LEMMA RequestsTyped ==
  ASSUME VaultTyped, NEW r \in Requests,
         Admit(r) \/ AnswerAgain(r) \/ Refuse(r) \/ BeginExclusive(r) \/ Lock(r) \/ GiveUp(r)
  PROVE  VaultTyped'
<1> USE DEF journal, store, gate, client, bounds, ghosts
<1>1. Untouched /\ work' = work /\ server' = server
  BY DEF Untouched, Same, JournalVars, Admit, AnswerAgain, Refuse, BeginExclusive, Lock, GiveUp,
         Respond
<1>2. \E s \in {"idle", "admitted", "put", "draining", "waiting", "working"} :
        at' = [at EXCEPT ![r] = s]
  BY DEF Admit, AnswerAgain, Refuse, BeginExclusive, Lock, GiveUp, Respond
<1>3. /\ locked' \in BOOLEAN /\ exclusive' \in Requests \cup {NoRequest}
      /\ admitted' \subseteq Requests
  BY DEF VaultTyped, Admit, AnswerAgain, Refuse, BeginExclusive, Lock, GiveUp, Respond
<1> QED BY <1>1, <1>2, <1>3, GateTyped DEF VaultTyped

\* So do the steps that begin the work, ...
LEMMA StartTyped ==
  ASSUME VaultTyped, NEW r \in Requests, KindOf(r) # "upload", StartWork(r)
  PROVE  VaultTyped'
<1> USE DEF journal, store, gate, client, bounds, ghosts
<1>1. KindOf(r) \in {"delete", "import", "destroy"}
  BY WhatIsAsked DEF VaultTyped
<1>2. FirstStep[KindOf(r)] \in {"prepare", "claim", "mark"}
  BY <1>1 DEF FirstStep
<1>3. work' \in Work
  BY <1>2 DEF StartWork, NoWork, Work, DeleteSteps, ImportSteps, DestroySteps
<1>4. Untouched /\ server' = server /\ at' = [at EXCEPT ![r] = "working"]
  BY DEF Untouched, Same, JournalVars, StartWork
<1> QED BY <1>3, <1>4, GateTyped DEF VaultTyped, StartWork

\* ... those of uploads, ...
LEMMA UploadsTyped ==
  ASSUME VaultTyped, NEW r \in Requests, PutUpload(r) \/ InsertUpload(r) \/ FailUpload(r)
  PROVE  VaultTyped'
<1> USE DEF journal, store, gate, client, bounds, ghosts
<1>1. Same /\ work' = work /\ server' = server /\ exclusive' = exclusive /\ locked' = locked
  BY DEF Same, JournalVars, PutUpload, InsertUpload, FailUpload, Respond
<1>2. JournalTyped'
  BY <1>1, JournalStays DEF VaultTyped
<1>3. ItemOf(r) \in Items /\ BlobOf[ItemOf(r)] \in BytesOf(Items)
  BY WhatIsAsked DEF VaultTyped, BytesOf
<1>4. \E s \in {"idle", "put"} : at' = [at EXCEPT ![r] = s]
  BY DEF PutUpload, InsertUpload, FailUpload, Respond
<1>5. at' \in [Requests -> {"idle", "admitted", "put", "draining", "waiting", "working"}]
  BY <1>4 DEF VaultTyped
<1>6. rows' \subseteq Items /\ bytes' \subseteq BytesOf(Items) /\ gone' \subseteq Items
      /\ admitted' \subseteq Requests /\ faults' \in Nat
      /\ commits' \in [Requests -> Nat]
  BY <1>3 DEF VaultTyped, PutUpload, InsertUpload, FailUpload, Respond
<1> QED BY <1>1, <1>2, <1>5, <1>6 DEF VaultTyped, Same

\* ... and those of scheduled backups and published pages.
LEMMA SnapshotsTyped ==
  ASSUME VaultTyped,
         \/ StartSnapshot \/ ReadSnapshot \/ PublishSnapshot
         \/ \E i \in Items : PublishPage(i)
  PROVE  VaultTyped'
<1> USE DEF journal, store, gate, client, bounds, ghosts
<1>1. /\ Untouched /\ work' = work /\ server' = server /\ exclusive' = exclusive
      /\ locked' = locked /\ admitted' = admitted /\ at' = at
  BY DEF Untouched, Same, JournalVars, StartSnapshot, ReadSnapshot, PublishSnapshot, PublishPage
<1> QED BY <1>1, GateTyped DEF VaultTyped

\* What most steps of an operation leave as it is, and what they may do to the bytes.
LEMMA StepTyped ==
  ASSUME VaultTyped, Same, UNCHANGED <<commits, rows, gone, gate, server>>,
         faults' \in Nat, work' \in Work, bytes' \subseteq BytesOf(Items)
  PROVE  VaultTyped'
<1>1. JournalTyped'
  BY JournalStays DEF VaultTyped
<1> QED BY <1>1 DEF VaultTyped, Same, gate

\* The work at its next step is work.
LEMMA StepIsWork ==
  ASSUME work \in Work,
         NEW s \in DeleteSteps \cup ImportSteps \cup DestroySteps \cup StartSteps \cup {"none"}
  PROVE  /\ [work EXCEPT !.step = s] \in Work
         /\ [work EXCEPT !.step = s].step = s /\ [work EXCEPT !.step = s].req = work.req
         /\ [work EXCEPT !.step = s].row = work.row /\ [work EXCEPT !.step = s].older = work.older
  BY DEF Work

\* Steps that leave the journals as they are keep the type, ...
LEMMA StepsTyped ==
  ASSUME VaultTyped,
         \/ EraseBytes \/ UnpublishPages \/ ScrubBackups \/ CopyAfterDeletion
         \/ RememberResponse \/ SaveBeforeImport \/ PutImportedBytes \/ MovePagesAway
         \/ InstallPages \/ DropOldBytes \/ WipeFiles \/ SweepBytes
  PROVE  VaultTyped'
<1> USE DEF journal, store, gate, client, bounds, ghosts, WorkStep
<1>1. /\ Same /\ UNCHANGED <<commits, rows, gone, gate, server>> /\ faults' = faults
  BY DEF Same, JournalVars, EraseBytes, UnpublishPages, ScrubBackups, CopyAfterDeletion,
         RememberResponse, SaveBeforeImport, PutImportedBytes, MovePagesAway,
         InstallPages, DropOldBytes, WipeFiles, SweepBytes
<1>2. \E s \in {"unpublish", "scrub", "recopy", "remember", "unmark", "complete", "stage",
               "replace", "install", "tidy", "publish", "unlock"} :
        work' = [work EXCEPT !.step = s]
  BY DEF EraseBytes, UnpublishPages, ScrubBackups, CopyAfterDeletion,
         RememberResponse, SaveBeforeImport, PutImportedBytes, MovePagesAway,
         InstallPages, DropOldBytes, WipeFiles, SweepBytes, Step
<1>3. work' \in Work
  BY <1>2, StepIsWork DEF VaultTyped, DeleteSteps, ImportSteps, DestroySteps, StartSteps
<1>4. bytes' \subseteq BytesOf(Items)
  <2>1. BytesOf(Archive) \subseteq BytesOf(Items)
    BY BytesOfSome, ArchiveAssumption
  <2> QED BY <2>1 DEF VaultTyped, EraseBytes, UnpublishPages, ScrubBackups, CopyAfterDeletion,
         RememberResponse, SaveBeforeImport, PutImportedBytes, MovePagesAway,
         InstallPages, DropOldBytes, WipeFiles, SweepBytes
<1>5. faults' \in Nat
  BY <1>1 DEF VaultTyped
<1> QED BY <1>1, <1>3, <1>4, <1>5, StepTyped

\* ... and so does what a start resumes.
LEMMA ResumesTyped ==
  ASSUME VaultTyped, ResumeImport \/ ResumeDeletion \/ RepeatDeletion
  PROVE  VaultTyped'
<1> USE DEF journal, store, gate, client, bounds, ghosts, WorkStep
<1>1. /\ Same /\ UNCHANGED <<commits, rows, gone, gate, server>> /\ faults' = faults
      /\ bytes' = bytes
  BY DEF Same, JournalVars, ResumeImport, ResumeDeletion, RepeatDeletion
<1>2. OpenImports \subseteq DOMAIN imports /\ OpenDeletions \subseteq DOMAIN deletions
  BY DEF OpenImports, OpenDeletions, FirstIn
<1>3. /\ \A k \in DOMAIN imports : k \in Nat /\ imports[k].req \in Requests
      /\ \A k \in DOMAIN deletions : k \in Nat /\ deletions[k].req \in Requests
  <2>1. /\ \A k \in DOMAIN imports : k \in Nat /\ imports[k] \in ImportRow
        /\ \A k \in DOMAIN deletions : k \in Nat /\ deletions[k] \in Deletion
    BY DEF VaultTyped, JournalTyped
  <2> QED BY <2>1 DEF ImportRow, Deletion
<1>4. work' \in Work
  <2>1. CASE ResumeImport
    <3>1. PICK k \in DOMAIN imports : \E s \in {"rollback", "away", "drop"} :
            work' = [work EXCEPT !.step = s, !.req = imports[k].req, !.row = k]
      BY <1>2, <2>1 DEF ResumeImport
    <3> QED BY <1>3, <3>1 DEF VaultTyped, Work, ImportSteps
  <2>2. CASE ResumeDeletion
    <3>1. PICK k \in DOMAIN deletions :
            work' = [work EXCEPT !.step = "erase", !.req = deletions[k].req, !.row = k]
      BY <1>2, <2>2 DEF ResumeDeletion
    <3> QED BY <1>3, <3>1 DEF VaultTyped, Work, DeleteSteps
  <2>3. CASE RepeatDeletion
    <3>1. PICK k \in DOMAIN deletions :
            work' = [work EXCEPT !.step = "prepare", !.req = deletions[k].req, !.older = k]
      BY <1>2, <2>3 DEF RepeatDeletion
    <3> QED BY <1>3, <3>1 DEF VaultTyped, Work, DeleteSteps
  <2> QED BY <2>1, <2>2, <2>3
<1>5. faults' \in Nat /\ bytes' \subseteq BytesOf(Items)
  BY <1>1 DEF VaultTyped
<1> QED BY <1>1, <1>4, <1>5, StepTyped

\* What the end of an operation leaves: the gate open, or the next one of a start to look for.
LEMMA EndOfWork ==
  ASSUME VaultTyped, NEW success, EndWork(success)
  PROVE  /\ work' \in Work /\ at' \in [Requests -> {"idle", "admitted", "put", "draining",
                                                    "waiting", "working"}]
         /\ locked' \in BOOLEAN /\ exclusive' \in Requests \cup {NoRequest}
         /\ admitted' = admitted /\ server' = server /\ want' = want
         /\ server = "starting" => /\ work' = [NoWork EXCEPT !.step = "resume"]
                                   /\ UNCHANGED <<locked, exclusive, at>>
         /\ server # "starting" => /\ work' = NoWork /\ locked' = FALSE
                                   /\ exclusive' = NoRequest
                                   /\ at' = [at EXCEPT ![work.req] = "idle"]
         /\ snapshot' = snapshot
<1>1. /\ admitted' = admitted /\ server' = server /\ want' = want /\ snapshot' = snapshot
      /\ server = "starting" => /\ work' = [NoWork EXCEPT !.step = "resume"]
                                /\ UNCHANGED <<locked, exclusive, at>>
      /\ server # "starting" => /\ work' = NoWork /\ locked' = FALSE
                                /\ exclusive' = NoRequest
                                /\ at' = [at EXCEPT ![work.req] = "idle"]
  BY DEF EndWork
<1>2. work' \in Work
  BY <1>1 DEF NoWork, Work, StartSteps
<1>3. at' \in [Requests -> {"idle", "admitted", "put", "draining", "waiting", "working"}]
  BY <1>1 DEF VaultTyped
<1> QED BY <1>1, <1>2, <1>3 DEF VaultTyped

\* The end of an operation keeps the type.
LEMMA EndTyped ==
  ASSUME VaultTyped, NEW success, EndWork(success), JournalTyped',
         UNCHANGED <<commits, rows, gone>>, faults' \in Nat, bytes' \subseteq BytesOf(Items)
  PROVE  VaultTyped'
  BY EndOfWork DEF VaultTyped

-----------------------------------------------------------------------------
(* What the steps do to the journals                                         *)

\* Each step is one of an operation of its kind.
LEMMA OwnRequest ==
  ASSUME OperationsAreSound
  PROVE  /\ work.step \in {"prepare", "delete", "supersede", "erase", "unpublish", "complete"} =>
              Doing("delete")
         /\ work.step \in {"claim", "save", "stage", "put", "replace", "away", "install", "tidy",
                           "drop", "publish", "rollback"} => Doing("import")
         /\ work.step \in {"mark", "clear", "wipe", "unmark"} => Doing("destroy")
         /\ work.step \in {"scrub", "recopy", "remember"} => Doing("delete") \/ Doing("destroy")
         /\ \A a, b : Doing(a) /\ Doing(b) => a = b
  BY DEF OperationsAreSound, WorkIsSound, Doing, DeleteSteps, ImportSteps, DestroySteps,
         StartSteps, Resting

\* A deletion begins with a row of its own.
LEMMA PreparedRow ==
  ASSUME OperationsAreSound, PrepareDeletion
  PROVE  LET n == Len(deletions) + 1
         IN /\ Doing("delete") /\ n \in Nat /\ n \notin DOMAIN deletions
            /\ deletions' \in Seq(Deletion) /\ DOMAIN deletions' = DOMAIN deletions \cup {n}
            /\ \A k \in DOMAIN deletions : deletions'[k] = deletions[k]
            /\ deletions'[n] = [item |-> ItemOf(work.req), req |-> work.req,
                                phase |-> "prepared", freed |-> {}]
            /\ work' = [step |-> "delete", req |-> work.req, row |-> n, older |-> work.older]
            /\ UNCHANGED <<want, imports, marker, server>>
<1> DEFINE n == Len(deletions) + 1
           e == [item |-> ItemOf(work.req), req |-> work.req, phase |-> "prepared", freed |-> {}]
<1>1. work.req \in Requests /\ Doing("delete")
  BY OwnRequest DEF PrepareDeletion, Doing, At
<1>2. e \in Deletion
  BY <1>1, WhatIsAsked DEF Deletion, VaultTyped, OperationsAreSound
<1>3. deletions' = Append(deletions, e) /\ deletions \in Seq(Deletion)
  BY DEF PrepareDeletion, OperationsAreSound, VaultTyped, JournalTyped
<1>4. /\ deletions' \in Seq(Deletion) /\ DOMAIN deletions' = DOMAIN deletions \cup {n}
      /\ \A k \in DOMAIN deletions : deletions'[k] = deletions[k]
      /\ deletions'[n] = e /\ n \in Nat /\ n \notin DOMAIN deletions
  <2> HIDE DEF e
  <2> QED BY <1>2, <1>3, RowAppended
<1>5. work' = [step |-> "delete", req |-> work.req, row |-> n, older |-> work.older]
  BY DEF PrepareDeletion, OperationsAreSound, VaultTyped, Work
<1> QED BY <1>1, <1>4, <1>5 DEF PrepareDeletion, WorkStep, client

\* Its commit changes that row.
LEMMA DeletedRow ==
  ASSUME OperationsAreSound, DeleteRows
  PROVE  LET i == ItemOf(work.req)
         IN /\ Doing("delete") /\ i \in Items /\ RowOfDeletion("prepared") /\ OlderRow
            /\ deletions[work.row].item = i
            /\ UnsharedBytesOf(i, rows \ {i}) \in SUBSET BytesOf(Items)
            /\ DeletionBecomes(work.row, "database_complete", UnsharedBytesOf(i, rows \ {i}))
            /\ work' = [step |-> IF work.older = 0 THEN "erase" ELSE "supersede",
                        req |-> work.req, row |-> work.row, older |-> work.older]
            /\ UNCHANGED <<want, imports, marker, server>>
<1> DEFINE i == ItemOf(work.req)
           freed == UnsharedBytesOf(i, rows \ {i})
<1>1. work.req \in Requests /\ Doing("delete") /\ RowOfDeletion("prepared") /\ OlderRow
  BY OwnRequest DEF OperationsAreSound, RowIsSound, DeleteRows, At, Doing
<1>2. i \in Items
  BY <1>1, WhatIsAsked DEF VaultTyped, OperationsAreSound
<1>3. freed \in SUBSET BytesOf(Items)
  BY <1>2 DEF UnsharedBytesOf, BytesOf
<1>4. deletions' = [deletions EXCEPT ![work.row].phase = "database_complete",
                                     ![work.row].freed = freed]
  BY DEF DeleteRows
<1>5. DeletionBecomes(work.row, "database_complete", freed)
  <2> HIDE DEF freed
  <2> QED BY <1>1, <1>3, <1>4, DeletionCommits
          DEF RowOfDeletion, OperationsAreSound, VaultTyped, JournalTyped
<1>6. work' = [step |-> IF work.older = 0 THEN "erase" ELSE "supersede",
               req |-> work.req, row |-> work.row, older |-> work.older]
  BY DEF DeleteRows, Step, OperationsAreSound, VaultTyped, Work
<1>7. deletions[work.row].item = i
  BY <1>1 DEF RowOfDeletion, OperationsAreSound, VaultTyped, JournalTyped
<1> QED BY <1>1, <1>2, <1>3, <1>5, <1>6, <1>7 DEF DeleteRows, Control, client

\* At a start the older row ends ...
LEMMA SupersededRow ==
  ASSUME OperationsAreSound, SupersedeDeletion
  PROVE  /\ Doing("delete") /\ RowOfDeletion("database_complete")
         /\ work.older \in DOMAIN deletions /\ work.older # work.row
         /\ deletions[work.older].phase = "prepared" /\ server = "starting"
         /\ DeletionBecomes(work.older, "complete", deletions[work.older].freed)
         /\ work' = [step |-> "erase", req |-> work.req, row |-> work.row, older |-> work.older]
         /\ UNCHANGED <<want, imports, marker, server>>
<1>1. /\ Doing("delete") /\ RowOfDeletion("database_complete")
      /\ work.older \in DOMAIN deletions /\ work.older # work.row
      /\ deletions[work.older].phase = "prepared" /\ server = "starting"
  BY OwnRequest DEF OperationsAreSound, RowIsSound, SupersedeDeletion, At, OlderRow
<1>2. DeletionBecomes(work.older, "complete", deletions[work.older].freed)
  BY <1>1, DeletionMoves DEF SupersedeDeletion, OperationsAreSound, VaultTyped, JournalTyped
<1>3. work' = [step |-> "erase", req |-> work.req, row |-> work.row, older |-> work.older]
  BY DEF SupersedeDeletion, Step, OperationsAreSound, VaultTyped, Work
<1> QED BY <1>1, <1>2, <1>3 DEF SupersedeDeletion, WorkStep, client

\* ... and later its own.
LEMMA CompletedRow ==
  ASSUME OperationsAreSound, CompleteDeletion
  PROVE  /\ Doing("delete") /\ RowOfDeletion("database_complete")
         /\ DeletionBecomes(work.row, "complete", deletions[work.row].freed)
         /\ EndWork(TRUE) /\ UNCHANGED <<want, imports, marker, server>>
<1>1. Doing("delete") /\ RowOfDeletion("database_complete")
  BY OwnRequest DEF OperationsAreSound, RowIsSound, CompleteDeletion, At
<1>2. DeletionBecomes(work.row, "complete", deletions[work.row].freed)
  BY <1>1, DeletionMoves
     DEF CompleteDeletion, OperationsAreSound, VaultTyped, JournalTyped, RowOfDeletion
<1> QED BY <1>1, <1>2, EndOfWork DEF CompleteDeletion, OperationsAreSound

\* A deletion that fails before its commit marks its row.
LEMMA FailedRow ==
  ASSUME OperationsAreSound, FailDeletion
  PROVE  /\ Doing("delete") /\ RowOfDeletion("prepared")
         /\ DeletionBecomes(work.row, "failed", deletions[work.row].freed)
         /\ EndWork(FALSE) /\ UNCHANGED <<want, imports, marker, server>> /\ server = "open"
<1>1. Doing("delete") /\ RowOfDeletion("prepared")
  BY OwnRequest DEF OperationsAreSound, RowIsSound, FailDeletion, At
<1>2. DeletionBecomes(work.row, "failed", deletions[work.row].freed)
  BY <1>1, DeletionMoves
     DEF FailDeletion, OperationsAreSound, VaultTyped, JournalTyped, RowOfDeletion
<1> QED BY <1>1, <1>2, EndOfWork DEF FailDeletion, OperationsAreSound

\* A deletion that a later attempt has taken over ends.
LEMMA AdoptedRow ==
  ASSUME OperationsAreSound, AdoptDeletion
  PROVE  \E k, d \in DOMAIN deletions :
           /\ k # d /\ deletions[k].phase = "prepared" /\ deletions[d].item = deletions[k].item
           /\ deletions[d].phase \in {"database_complete", "complete"}
           /\ DeletionBecomes(k, "complete", deletions[k].freed)
           /\ \/ deletions[d].phase = "complete" /\ work' = work
              \/ /\ deletions[d].phase = "database_complete"
                 /\ work' = [step |-> "erase", req |-> deletions[d].req, row |-> d, older |-> 0]
           /\ work.step = "resume" /\ server = "starting"
           /\ UNCHANGED <<want, imports, marker, server>>
<1> PICK k \in OpenDeletions :
      \E d \in Newest(k) : /\ deletions[k].phase = "prepared"
                           /\ deletions[d].phase \in {"database_complete", "complete"}
                           /\ AdoptLaterAttempt(k, d)
  BY DEF AdoptDeletion
<1> PICK d \in Newest(k) : /\ deletions[k].phase = "prepared"
                           /\ deletions[d].phase \in {"database_complete", "complete"}
                           /\ AdoptLaterAttempt(k, d)
  OBVIOUS
<1>1. /\ k \in DOMAIN deletions /\ d \in DOMAIN deletions /\ k # d
      /\ deletions[d].item = deletions[k].item
  BY DEF OpenDeletions, FirstIn, Newest
<1>2. work = [NoWork EXCEPT !.step = "resume"] /\ server = "starting" /\ work.step = "resume"
  BY DEF AdoptDeletion, At, OperationsAreSound, WorkIsSound, StartSteps
<1>3. DeletionBecomes(k, "complete", deletions[k].freed)
  BY <1>1, DeletionMoves DEF AdoptLaterAttempt, OperationsAreSound, VaultTyped, JournalTyped
<1>4. \/ deletions[d].phase = "complete" /\ work' = work
      \/ /\ deletions[d].phase = "database_complete"
         /\ work' = [step |-> "erase", req |-> deletions[d].req, row |-> d, older |-> 0]
  BY <1>2 DEF AdoptLaterAttempt, NoWork
<1>5. UNCHANGED <<want, imports, marker, server>>
  BY DEF AdoptDeletion, WorkStep, client
<1> QED BY <1>1, <1>2, <1>3, <1>4, <1>5

\* An import begins with a row of its own.
LEMMA StagedRow ==
  ASSUME OperationsAreSound, StageImport
  PROVE  LET n == Len(imports) + 1
         IN /\ Doing("import") /\ n \in Nat /\ n \notin DOMAIN imports
            /\ imports' \in Seq(ImportRow) /\ DOMAIN imports' = DOMAIN imports \cup {n}
            /\ \A k \in DOMAIN imports : imports'[k] = imports[k]
            /\ imports'[n] = [req |-> work.req, phase |-> "prepared", old |-> BytesOf(rows),
                              fresh |-> BytesOf(Archive) \ bytes]
            /\ work' = [step |-> "put", req |-> work.req, row |-> n, older |-> work.older]
            /\ server = "open"
            /\ UNCHANGED <<want, deletions, marker, server>>
<1> DEFINE n == Len(imports) + 1
           e == [req |-> work.req, phase |-> "prepared", old |-> BytesOf(rows),
                 fresh |-> BytesOf(Archive) \ bytes]
<1>1. work.req \in Requests /\ Doing("import") /\ server = "open"
  BY OwnRequest DEF StageImport, Doing, At, OperationsAreSound, WorkIsSound
<1>2. e \in ImportRow
  <2>1. BytesOf(rows) \subseteq BytesOf(Items) /\ BytesOf(Archive) \subseteq BytesOf(Items)
    BY BytesOfSome, ArchiveAssumption DEF OperationsAreSound, VaultTyped
  <2> QED BY <1>1, <2>1 DEF ImportRow
<1>3. imports' = Append(imports, e) /\ imports \in Seq(ImportRow)
  BY DEF StageImport, OperationsAreSound, VaultTyped, JournalTyped
<1>4. /\ imports' \in Seq(ImportRow) /\ DOMAIN imports' = DOMAIN imports \cup {n}
      /\ \A k \in DOMAIN imports : imports'[k] = imports[k]
      /\ imports'[n] = e /\ n \in Nat /\ n \notin DOMAIN imports
  <2> HIDE DEF e
  <2> QED BY <1>2, <1>3, RowAppended
<1>5. work' = [step |-> "put", req |-> work.req, row |-> n, older |-> work.older]
  BY DEF StageImport, OperationsAreSound, VaultTyped, Work
<1> QED BY <1>1, <1>4, <1>5 DEF StageImport, WorkStep, client

\* Its commit changes that row and removes the deletions.
LEMMA ReplacedRow ==
  ASSUME OperationsAreSound, ReplaceRows
  PROVE  /\ Doing("import") /\ RowOfImport("prepared")
         /\ ImportBecomes(work.row, "database_complete")
         /\ deletions' \in Seq(Deletion) /\ DOMAIN deletions' = {}
         /\ work' = [step |-> "away", req |-> work.req, row |-> work.row, older |-> work.older]
         /\ UNCHANGED <<want, marker, server>>
<1>1. Doing("import") /\ RowOfImport("prepared")
  BY OwnRequest DEF OperationsAreSound, RowIsSound, ReplaceRows, At
<1>2. ImportBecomes(work.row, "database_complete")
  BY <1>1, ImportMoves DEF ReplaceRows, RowOfImport, OperationsAreSound, VaultTyped, JournalTyped
<1>3. work' = [step |-> "away", req |-> work.req, row |-> work.row, older |-> work.older]
  BY DEF ReplaceRows, Step, OperationsAreSound, VaultTyped, Work
<1>4. deletions' \in Seq(Deletion) /\ DOMAIN deletions' = {}
  BY SequencesBegin DEF ReplaceRows
<1> QED BY <1>1, <1>2, <1>3, <1>4 DEF ReplaceRows, Control, client

\* The row says when the pages are exchanged, ...
LEMMA TidiedRow ==
  ASSUME OperationsAreSound, TidyPages
  PROVE  /\ Doing("import") /\ RowOfImport("database_complete")
         /\ ImportBecomes(work.row, "files_complete")
         /\ work' = [step |-> "drop", req |-> work.req, row |-> work.row, older |-> work.older]
         /\ UNCHANGED <<want, deletions, marker, server>>
<1>1. Doing("import") /\ RowOfImport("database_complete")
  BY OwnRequest DEF OperationsAreSound, RowIsSound, TidyPages, At
<1>2. ImportBecomes(work.row, "files_complete")
  BY <1>1, ImportMoves DEF TidyPages, RowOfImport, OperationsAreSound, VaultTyped, JournalTyped
<1>3. work' = [step |-> "drop", req |-> work.req, row |-> work.row, older |-> work.older]
  BY DEF TidyPages, Step, OperationsAreSound, VaultTyped, Work
<1> QED BY <1>1, <1>2, <1>3 DEF TidyPages, WorkStep, client

\* ... when the import is complete, ...
LEMMA ImportedRow ==
  ASSUME OperationsAreSound, CompleteImport
  PROVE  /\ Doing("import") /\ RowOfImport("files_complete")
         /\ ImportBecomes(work.row, "complete")
         /\ EndWork(TRUE) /\ UNCHANGED <<want, deletions, marker, server>>
<1>1. Doing("import") /\ RowOfImport("files_complete")
  BY OwnRequest DEF OperationsAreSound, RowIsSound, CompleteImport, At
<1>2. ImportBecomes(work.row, "complete")
  BY <1>1, ImportMoves DEF CompleteImport, RowOfImport, OperationsAreSound, VaultTyped, JournalTyped
<1> QED BY <1>1, <1>2, EndOfWork DEF CompleteImport, OperationsAreSound

\* ... and when it was rolled back.
LEMMA RolledBackRow ==
  ASSUME OperationsAreSound, RollBackImport
  PROVE  /\ Doing("import") /\ RowOfImport("prepared")
         /\ ImportBecomes(work.row, "failed")
         /\ EndWork(FALSE) /\ UNCHANGED <<want, deletions, marker, server>>
<1>1. Doing("import") /\ RowOfImport("prepared")
  BY OwnRequest DEF OperationsAreSound, RowIsSound, RollBackImport, At
<1>2. ImportBecomes(work.row, "failed")
  BY <1>1, ImportMoves DEF RollBackImport, RowOfImport, OperationsAreSound, VaultTyped, JournalTyped
<1> QED BY <1>1, <1>2, EndOfWork DEF RollBackImport, OperationsAreSound

\* A destruction empties the journals.
LEMMA ClearedRows ==
  ASSUME OperationsAreSound, ClearTables
  PROVE  /\ Doing("destroy") /\ marker = work.req
         /\ deletions' \in Seq(Deletion) /\ DOMAIN deletions' = {}
         /\ imports' \in Seq(ImportRow) /\ DOMAIN imports' = {}
         /\ work' = [step |-> "wipe", req |-> work.req, row |-> work.row, older |-> work.older]
         /\ UNCHANGED <<want, marker, server>>
<1>1. Doing("destroy") /\ marker = work.req
  BY OwnRequest DEF OperationsAreSound, JournalIsSound, ClearTables, At
<1>2. /\ deletions' \in Seq(Deletion) /\ DOMAIN deletions' = {}
      /\ imports' \in Seq(ImportRow) /\ DOMAIN imports' = {}
  BY SequencesBegin DEF ClearTables
<1>3. work' = [step |-> "wipe", req |-> work.req, row |-> work.row, older |-> work.older]
  BY DEF ClearTables, Step, OperationsAreSound, VaultTyped, Work
<1> QED BY <1>1, <1>2, <1>3 DEF ClearTables, Control, client

\* The steps of deletions that write the journal keep the type.
LEMMA DeletionsTyped ==
  ASSUME OperationsAreSound,
         PrepareDeletion \/ DeleteRows \/ SupersedeDeletion \/ CompleteDeletion
  PROVE  VaultTyped'
<1> USE DEF journal, store, gate, client, bounds, ghosts, WorkStep, Control
<1> VaultTyped /\ JournalTyped
  BY DEF OperationsAreSound, VaultTyped
<1>1. CASE PrepareDeletion
  <2>1. JournalTyped'
    BY <1>1, PreparedRow, JournalWithDeletions DEF Doing
  <2>2. work' \in Work
    BY <1>1, PreparedRow DEF VaultTyped, Work, DeleteSteps
  <2> QED BY <1>1, <2>1, <2>2 DEF PrepareDeletion, VaultTyped
<1>2. CASE DeleteRows
  <2>1. JournalTyped'
    BY <1>2, DeletedRow, JournalWithDeletions DEF DeletionBecomes
  <2>2. work' \in Work
    BY <1>2, DeletedRow DEF VaultTyped, Work, DeleteSteps
  <2>3. commits' \in [Requests -> Nat]
    BY <1>2, DeletedRow DEF DeleteRows, VaultTyped, Doing
  <2>4. rows' \subseteq Items /\ gone' \subseteq Items
    BY <1>2, DeletedRow DEF DeleteRows, VaultTyped
  <2> QED BY <1>2, <2>1, <2>2, <2>3, <2>4 DEF DeleteRows, VaultTyped
<1>3. CASE SupersedeDeletion
  <2>1. JournalTyped'
    BY <1>3, SupersededRow, JournalWithDeletions DEF DeletionBecomes
  <2>2. work' \in Work
    BY <1>3, SupersededRow DEF VaultTyped, Work, DeleteSteps
  <2> QED BY <1>3, <2>1, <2>2 DEF SupersedeDeletion, VaultTyped
<1>4. CASE CompleteDeletion
  <2>1. JournalTyped'
    BY <1>4, CompletedRow, JournalWithDeletions DEF DeletionBecomes
  <2>2. bytes' \subseteq BytesOf(Items) /\ faults' \in Nat /\ UNCHANGED <<commits, rows, gone>>
    BY <1>4 DEF VaultTyped, CompleteDeletion
  <2> QED BY <1>4, <2>1, <2>2, CompletedRow, EndTyped
<1> QED BY <1>1, <1>2, <1>3, <1>4

\* The steps of imports that write the journal keep the type.
LEMMA ImportsTyped ==
  ASSUME OperationsAreSound,
         \/ ClaimImport \/ StageImport \/ ReplaceRows \/ TidyPages \/ CompleteImport
         \/ RollBackImport
  PROVE  VaultTyped'
<1> USE DEF journal, store, gate, client, bounds, ghosts, WorkStep, Control
<1> VaultTyped /\ JournalTyped
  BY DEF OperationsAreSound, VaultTyped
<1>1. /\ marker' = marker /\ want' = want /\ faults' = faults
  BY EndOfWork DEF ClaimImport, StageImport, ReplaceRows, TidyPages, CompleteImport,
                   RollBackImport
<1>2. CASE ClaimImport
  <2>1. JournalTyped'
    BY <1>1, <1>2, JournalStays DEF ClaimImport, Same, JournalVars
  <2>2. CASE EndWork(FALSE)
    BY <1>1, <1>2, <2>1, <2>2, EndTyped DEF ClaimImport, VaultTyped
  <2>3. CASE ~EndWork(FALSE)
    <3>1. \E s \in {"stuck", "save"} : work' = [work EXCEPT !.step = s]
      BY <1>2, <2>3 DEF ClaimImport, Step
    <3>2. work' \in Work
      BY <3>1, StepIsWork DEF VaultTyped, ImportSteps
    <3>3. UNCHANGED <<gate, server>>
      BY <1>2, <2>3 DEF ClaimImport
    <3> QED BY <1>1, <1>2, <2>1, <3>2, <3>3 DEF ClaimImport, VaultTyped
  <2> QED BY <2>2, <2>3
<1>3. CASE StageImport
  <2>1. JournalTyped'
    BY <1>3, StagedRow, JournalWithImports DEF Doing
  <2>2. work' \in Work
    BY <1>3, StagedRow DEF VaultTyped, Work, ImportSteps
  <2> QED BY <1>1, <1>3, <2>1, <2>2 DEF StageImport, VaultTyped
<1>4. CASE ReplaceRows
  <2>1. JournalTyped'
    <3>1. \A r : KindOf(r)' = KindOf(r) /\ ItemOf(r)' = ItemOf(r)
      BY <1>1, SameRequests
    <3> QED BY <1>1, <1>4, <3>1, ReplacedRow DEF JournalTyped, ImportBecomes
  <2>2. work' \in Work
    BY <1>4, ReplacedRow DEF VaultTyped, Work, ImportSteps
  <2>3. CommitsForgotten \in [Requests -> Nat]
    BY DEF CommitsForgotten, VaultTyped
  <2>4. commits' \in [Requests -> Nat]
    BY <1>4, <2>3, ReplacedRow DEF ReplaceRows, Doing
  <2>5. rows' \subseteq Items /\ gone' \subseteq Items
    BY <1>4, ArchiveAssumption DEF ReplaceRows, VaultTyped
  <2> QED BY <1>1, <1>4, <2>1, <2>2, <2>4, <2>5 DEF ReplaceRows, VaultTyped
<1>5. CASE TidyPages
  <2>1. JournalTyped'
    BY <1>5, TidiedRow, JournalWithImports DEF ImportBecomes
  <2>2. work' \in Work
    BY <1>5, TidiedRow DEF VaultTyped, Work, ImportSteps
  <2> QED BY <1>1, <1>5, <2>1, <2>2 DEF TidyPages, VaultTyped
<1>6. CASE CompleteImport
  <2>1. JournalTyped'
    BY <1>6, ImportedRow, JournalWithImports DEF ImportBecomes
  <2>2. bytes' \subseteq BytesOf(Items) /\ faults' \in Nat /\ UNCHANGED <<commits, rows, gone>>
    BY <1>1, <1>6 DEF VaultTyped, CompleteImport
  <2> QED BY <1>6, <2>1, <2>2, ImportedRow, EndTyped
<1>7. CASE RollBackImport
  <2>1. JournalTyped'
    BY <1>7, RolledBackRow, JournalWithImports DEF ImportBecomes
  <2>2. bytes' \subseteq BytesOf(Items) /\ faults' \in Nat /\ UNCHANGED <<commits, rows, gone>>
    BY <1>1, <1>7 DEF VaultTyped, RollBackImport
  <2> QED BY <1>7, <2>1, <2>2, RolledBackRow, EndTyped
<1> QED BY <1>2, <1>3, <1>4, <1>5, <1>6, <1>7

\* Destructions, adopted deletions and the end of a start keep the type.
LEMMA OtherWorkTyped ==
  ASSUME OperationsAreSound,
         MarkDestroy \/ ClearTables \/ UnmarkDestroy \/ AdoptDeletion \/ Open
  PROVE  VaultTyped'
<1> USE DEF journal, store, gate, client, bounds, ghosts, WorkStep, Control
<1> VaultTyped /\ JournalTyped
  BY DEF OperationsAreSound, VaultTyped
<1>1. want' = want /\ faults' = faults
  BY EndOfWork DEF MarkDestroy, ClearTables, UnmarkDestroy, AdoptDeletion, Open
<1> \A r : KindOf(r)' = KindOf(r) /\ ItemOf(r)' = ItemOf(r)
  BY <1>1, SameRequests
<1>2. CASE MarkDestroy
  <2>1. work.req \in Requests /\ KindOf(work.req) = "destroy"
    BY <1>2 DEF OperationsAreSound, WorkIsSound, MarkDestroy, Doing, DeleteSteps, ImportSteps,
                StartSteps, Resting, At
  <2>2. JournalTyped'
    BY <1>1, <1>2, <2>1 DEF MarkDestroy, JournalTyped
  <2>3. work' \in Work
    BY <1>2 DEF MarkDestroy, VaultTyped, Work, DestroySteps, Step
  <2> QED BY <1>1, <1>2, <2>2, <2>3 DEF MarkDestroy, VaultTyped
<1>3. CASE ClearTables
  <2>1. JournalTyped'
    BY <1>1, <1>3, ClearedRows DEF JournalTyped
  <2>2. work' \in Work
    BY <1>3, ClearedRows DEF VaultTyped, Work, DestroySteps
  <2>3. CommitsForgotten \in [Requests -> Nat]
    BY DEF CommitsForgotten, VaultTyped
  <2> QED BY <1>1, <1>3, <2>1, <2>2, <2>3 DEF ClearTables, VaultTyped
<1>4. CASE UnmarkDestroy
  <2>1. JournalTyped'
    BY <1>1, <1>4 DEF UnmarkDestroy, JournalTyped
  <2>2. bytes' \subseteq BytesOf(Items) /\ faults' \in Nat /\ UNCHANGED <<commits, rows, gone>>
    BY <1>1, <1>4 DEF VaultTyped, UnmarkDestroy
  <2>3. EndWork(TRUE)
    BY <1>4 DEF UnmarkDestroy
  <2> QED BY <2>1, <2>2, <2>3, EndTyped
<1>5. CASE AdoptDeletion
  <2>1. PICK k \in DOMAIN deletions, d \in DOMAIN deletions :
          /\ DeletionBecomes(k, "complete", deletions[k].freed)
          /\ \/ work' = work
             \/ work' = [step |-> "erase", req |-> deletions[d].req, row |-> d, older |-> 0]
          /\ UNCHANGED <<imports, marker>>
    BY <1>5, AdoptedRow
  <2>2. JournalTyped'
    BY <1>1, <2>1, JournalWithDeletions DEF DeletionBecomes
  <2>3. d \in Nat /\ deletions[d] \in Deletion
    BY DEF JournalTyped
  <2>4. work' \in Work
    BY <2>1, <2>3 DEF VaultTyped, Work, DeleteSteps, Deletion
  <2> QED BY <1>1, <1>5, <2>2, <2>4 DEF AdoptDeletion, VaultTyped
<1>6. CASE Open
  <2>1. JournalTyped'
    BY <1>1, <1>6, JournalStays DEF Open, Same, JournalVars
  <2>2. work' \in Work
    BY <1>6 DEF Open, NoWork, Work
  <2> QED BY <1>1, <1>6, <2>1, <2>2 DEF Open, VaultTyped
<1> QED BY <1>2, <1>3, <1>4, <1>5, <1>6

\* Failing writes keep the type.
LEMMA FailuresTyped ==
  ASSUME OperationsAreSound, FailStep
  PROVE  VaultTyped'
<1> USE DEF journal, store, gate, client, ghosts
<1> VaultTyped /\ JournalTyped
  BY DEF OperationsAreSound, VaultTyped
<1>a. faults' = faults + 1 /\ faults' \in Nat /\ UNCHANGED <<commits, gone>>
  BY DEF FailStep, VaultTyped
<1>b. UNCHANGED <<rows, bytes, imports, marker>>
  BY DEF FailStep, FailBeforeCommit, FailDeletion, FailImport, FailAfterCommit
<1>c. want' = want
  BY EndOfWork DEF FailStep, FailBeforeCommit, FailDeletion, FailImport, FailAfterCommit
<1>1. /\ want' = want /\ faults' \in Nat
        /\ UNCHANGED <<commits, rows, gone, bytes, imports, marker>>
      /\ bytes' \subseteq BytesOf(Items)
  BY <1>a, <1>b, <1>c DEF VaultTyped
<1>2. CASE FailDeletion
  <2>1. JournalTyped'
    BY <1>2, FailedRow, JournalWithDeletions DEF DeletionBecomes
  <2> QED BY <1>1, <1>2, <2>1, FailedRow, EndTyped
<1>3. CASE FailBeforeCommit
  <2>1. JournalTyped'
    BY <1>1, <1>3, JournalStays DEF FailBeforeCommit, Same, JournalVars
  <2> QED BY <1>1, <1>3, <2>1, EndTyped DEF FailBeforeCommit
<1>4. CASE FailImport \/ FailAfterCommit
  <2>1. JournalTyped'
    BY <1>1, <1>4, JournalStays DEF FailImport, FailAfterCommit, Same, JournalVars
  <2>2. work' \in Work
    BY <1>4 DEF FailImport, FailAfterCommit, VaultTyped, Work, ImportSteps, Step
  <2> QED BY <1>1, <1>4, <2>1, <2>2 DEF FailImport, FailAfterCommit, VaultTyped
<1> QED BY <1>2, <1>3, <1>4 DEF FailStep

\* Deaths and starts of the API keep the type.
LEMMA ProcessTyped ==
  ASSUME OperationsAreSound, Crash \/ FailStart \/ Quit \/ Boot
  PROVE  VaultTyped'
<1> USE DEF journal, store, gate, client, ghosts, bounds
<1> VaultTyped /\ JournalTyped
  BY DEF OperationsAreSound, VaultTyped
<1>1. /\ want' = want /\ UNCHANGED <<commits, rows, gone, bytes, deletions, imports, marker>>
  BY DEF Crash, FailStart, Quit, Boot, Exit
<1>2. faults' \in Nat
  BY DEF Crash, FailStart, Quit, Boot, VaultTyped
<1>3. JournalTyped'
  BY <1>1, JournalStays DEF Same, JournalVars
<1>4. CASE Exit
  <2>1. work' \in Work
    BY <1>4 DEF Exit, Work, NoWork
  <2> QED BY <1>1, <1>2, <1>3, <1>4, <2>1 DEF Exit, VaultTyped
<1>5. CASE Boot
  <2>1. work' \in Work
    BY <1>5 DEF Boot, Work, NoWork, DestroySteps, StartSteps, JournalTyped
  <2> QED BY <1>1, <1>2, <1>3, <1>5, <2>1 DEF Boot, VaultTyped
<1> QED BY <1>4, <1>5 DEF Crash, FailStart, Quit

-----------------------------------------------------------------------------
(* The gate                                                                  *)

\* A step of the operation under way passes nobody.
LEMMA WorkKeepsGate ==
  ASSUME GateIsSound, VaultTyped, want' = want, UNCHANGED <<gate, server, snapshot>>,
         ~Resting, ~Resting', work'.req = work.req \/ server = "starting"
  PROVE  GateIsSound'
<1>1. \A r : KindOf(r)' = KindOf(r)
  BY SameRequests
<1> QED BY <1>1 DEF GateIsSound, gate

\* While an operation is under way in an open vault no request is in progress but its own.
LEMMA WorkIsAlone ==
  ASSUME GateIsSound, WorkIsSound, VaultTyped, server = "open", ~Resting
  PROVE  /\ work.req \in Requests /\ at[work.req] = "working" /\ exclusive = work.req
         /\ locked /\ admitted = {}
         /\ \A r \in Requests : r # work.req => at[r] = "idle"
<1>1. work.req \in Requests
  BY DEF WorkIsSound, Doing
<1>2. at[work.req] = "working"
  BY <1>1 DEF GateIsSound
<1>3. exclusive = work.req /\ locked /\ admitted = {}
  BY <1>1, <1>2 DEF GateIsSound
<1>4. \A r \in Requests : r # work.req => at[r] = "idle"
  BY <1>3 DEF GateIsSound, VaultTyped
<1> QED BY <1>1, <1>2, <1>3, <1>4

\* At a start no request is in progress.
LEMMA StartIsAlone ==
  ASSUME GateIsSound, VaultTyped, server # "open"
  PROVE  \A r \in Requests : at[r] = "idle"
  BY NoRequestAssumption DEF GateIsSound, VaultTyped

\* The end of an operation opens the gate.
LEMMA EndKeepsGate ==
  ASSUME GateIsSound, WorkIsSound, VaultTyped, NEW success, EndWork(success), ~Resting
  PROVE  GateIsSound'
<1>1. \A r : KindOf(r)' = KindOf(r)
  BY EndOfWork, SameRequests
<1>2. CASE server = "starting"
  <2>1. /\ UNCHANGED <<locked, exclusive, at, admitted, server, snapshot>>
        /\ work'.step = "resume" /\ work'.req = NoRequest
    BY <1>2, EndOfWork DEF NoWork
  <2>2. \A r \in Requests : at[r] = "idle"
    BY <1>2, StartIsAlone
  <2> QED BY <1>1, <1>2, <2>1, <2>2, NoRequestAssumption DEF GateIsSound, Resting
<1>3. CASE server = "open"
  <2>1. /\ work' = NoWork /\ locked' = FALSE /\ exclusive' = NoRequest
        /\ at' = [at EXCEPT ![work.req] = "idle"]
        /\ UNCHANGED <<admitted, server, snapshot>>
    BY <1>3, EndOfWork
  <2>2. \A r \in Requests : at'[r] = "idle"
    BY <1>3, <2>1, WorkIsAlone DEF VaultTyped
  <2>3. admitted' = {}
    BY <1>3, <2>1, WorkIsAlone
  <2> QED BY <1>3, <2>1, <2>2, <2>3, NoRequestAssumption DEF GateIsSound, Resting, NoWork
<1> QED BY <1>2, <1>3 DEF VaultTyped, GateIsSound

\* Requests come and go.
LEMMA RequestsKeepGate ==
  ASSUME GateIsSound, WorkIsSound, VaultTyped, NEW r \in Requests,
         \/ Admit(r) \/ AnswerAgain(r) \/ Refuse(r) \/ BeginExclusive(r) \/ Lock(r) \/ GiveUp(r)
         \/ StartWork(r) \/ PutUpload(r) \/ InsertUpload(r) \/ FailUpload(r)
  PROVE  GateIsSound'
<1> USE DEF client, bounds, ghosts
<1>1. \A q : KindOf(q)' = KindOf(q)
  <2>1. want' = want
    BY DEF Admit, AnswerAgain, Refuse, BeginExclusive, Lock, GiveUp, StartWork, PutUpload,
           InsertUpload, FailUpload, Respond
  <2> QED BY <2>1, SameRequests
<1>2. KindOf(r) \in {"upload", "delete", "import", "destroy"}
  BY WhatIsAsked DEF VaultTyped
<1>3. server' = server
  BY DEF Admit, AnswerAgain, Refuse, BeginExclusive, Lock, GiveUp, StartWork, PutUpload,
         InsertUpload, FailUpload, Respond
<1>4. server = "open"
  BY StartIsAlone DEF Admit, AnswerAgain, Refuse, BeginExclusive, Lock, GiveUp, StartWork,
         PutUpload, InsertUpload, FailUpload, Respond
<1>5. Resting
  BY <1>4, WorkIsAlone DEF GateIsSound, Admit, AnswerAgain, Refuse, BeginExclusive, Lock, GiveUp,
     StartWork, PutUpload, InsertUpload, FailUpload, Respond
<1>6. work.req = NoRequest
  BY <1>5 DEF WorkIsSound, NoWork
<1> USE <1>1, <1>2, <1>3, <1>4, <1>5, <1>6, NoRequestAssumption DEF Resting
<1>7. CASE Admit(r)
  BY <1>7 DEF Admit, GateIsSound, VaultTyped
<1>8. CASE AnswerAgain(r) \/ Refuse(r) \/ InsertUpload(r) \/ FailUpload(r)
  <2>1. /\ admitted' = admitted \ {r} /\ at' = [at EXCEPT ![r] = "idle"]
        /\ at[r] \in {"admitted", "put"}
        /\ UNCHANGED <<locked, exclusive, work, snapshot>>
    BY <1>8 DEF AnswerAgain, Refuse, InsertUpload, FailUpload, Respond
  <2> QED BY <2>1 DEF GateIsSound, VaultTyped
<1>9. CASE BeginExclusive(r)
  BY <1>9 DEF BeginExclusive, GateIsSound, VaultTyped
<1>10. CASE Lock(r)
  BY <1>10 DEF Lock, GateIsSound, VaultTyped
<1>11. CASE GiveUp(r)
  BY <1>11 DEF GiveUp, GateIsSound, VaultTyped
<1>12. CASE StartWork(r)
  <2>1. KindOf(r) # "upload"
    BY <1>12 DEF GateIsSound, StartWork
  <2>2. work'.step \in {"prepare", "claim", "mark"} /\ work'.req = r
    BY <1>12, <2>1 DEF StartWork, FirstStep, NoWork
  <2> QED BY <1>12, <2>1, <2>2 DEF StartWork, GateIsSound, VaultTyped
<1>13. CASE PutUpload(r)
  BY <1>13 DEF PutUpload, GateIsSound, VaultTyped
<1> QED BY <1>7, <1>8, <1>9, <1>10, <1>11, <1>12, <1>13

\* Backups and pages leave the gate alone.
LEMMA OthersKeepGate ==
  ASSUME GateIsSound, WorkIsSound, VaultTyped,
         \/ StartSnapshot \/ ReadSnapshot \/ PublishSnapshot
         \/ \E i \in Items : PublishPage(i)
  PROVE  GateIsSound'
<1>1. \A q : KindOf(q)' = KindOf(q)
  BY SameRequests DEF client, StartSnapshot, ReadSnapshot, PublishSnapshot, PublishPage
<1>2. UNCHANGED <<locked, exclusive, admitted, at, server, work>>
  BY DEF gate, StartSnapshot, ReadSnapshot, PublishSnapshot, PublishPage
<1>3. snapshot'.step = "idle" \/ (Resting /\ server = "open")
  BY WorkIsAlone DEF GateIsSound, StartSnapshot, ReadSnapshot, PublishSnapshot, PublishPage,
                     NoSnapshot, VaultTyped
<1> QED BY <1>1, <1>2, <1>3 DEF GateIsSound, Resting

\* A death opens the gate, and a start has it to itself until it unlocks.
LEMMA ProcessKeepsGate ==
  ASSUME GateIsSound, WorkIsSound, OperationsAreSound, Crash \/ FailStart \/ Quit \/ Boot \/ Open
  PROVE  GateIsSound'
<1> USE DEF client
<1> VaultTyped
  BY DEF OperationsAreSound
<1>1. \A q : KindOf(q)' = KindOf(q)
  BY SameRequests DEF Crash, FailStart, Quit, Boot, Open, Exit
<1>2. CASE Exit
  BY <1>1, <1>2, NoRequestAssumption DEF Exit, GateIsSound, NoWork, NoSnapshot, Resting
<1>3. CASE Boot
  <2>1. \A r \in Requests : at[r] = "idle"
    BY <1>3, StartIsAlone DEF Boot
  <2>2. work'.step \in {"clear", "resume"}
    BY <1>3 DEF Boot, NoWork
  <2> QED BY <1>1, <1>3, <2>1, <2>2 DEF Boot, GateIsSound, Resting, gate
<1>4. CASE Open
  <2>1. server = "starting"
    BY <1>4 DEF Open, WorkIsSound, At, StartSteps
  <2>2. \A r \in Requests : at[r] = "idle"
    BY <2>1, StartIsAlone
  <2> QED BY <1>1, <1>4, <2>1, <2>2, NoRequestAssumption DEF Open, GateIsSound, Resting, NoWork
<1> QED BY <1>2, <1>3, <1>4 DEF Crash, FailStart, Quit

-----------------------------------------------------------------------------
(* The operation under way and its row                                       *)

WorkInvs == WorkIsSound /\ RowIsSound /\ JournalIsSound
WorkSteps == DeleteSteps \cup ImportSteps \cup DestroySteps \cup StartSteps \cup {"none"}

\* What leaves the work and the journals alone leaves the work sound.
LEMMA NothingChanges ==
  ASSUME WorkInvs, Same, UNCHANGED <<work, server>>
  PROVE  WorkInvs'
<1>1. \A kind : Doing(kind)' <=> Doing(kind)
  BY SameRequests DEF Same
<1>2. RowIsSound'
  BY <1>1 DEF WorkInvs, RowIsSound, RowOfDeletion, RowOfImport, OlderRow, Same, JournalVars
<1>3. WorkIsSound'
  BY <1>1 DEF WorkInvs, WorkIsSound, Resting
<1>4. JournalIsSound'
  BY <1>1 DEF WorkInvs, JournalIsSound, NoneOpen, OpenDeletion, OpenImport, Same, JournalVars
<1> QED BY <1>2, <1>3, <1>4 DEF WorkInvs

\* Requests, uploads, backups and pages do.
LEMMA RequestsKeepWork ==
  ASSUME WorkInvs,
         \/ \E r \in Requests :
              \/ Admit(r) \/ AnswerAgain(r) \/ Refuse(r) \/ BeginExclusive(r) \/ Lock(r)
              \/ GiveUp(r) \/ PutUpload(r) \/ InsertUpload(r) \/ FailUpload(r)
         \/ StartSnapshot \/ ReadSnapshot \/ PublishSnapshot
         \/ \E i \in Items : PublishPage(i)
  PROVE  WorkInvs'
<1>1. Same /\ UNCHANGED <<work, server>>
  BY DEF Same, JournalVars, journal, client, bounds, Admit, AnswerAgain, Refuse, BeginExclusive,
         Lock, GiveUp, PutUpload, InsertUpload, FailUpload, Respond, StartSnapshot, ReadSnapshot,
         PublishSnapshot, PublishPage
<1> QED BY <1>1, NothingChanges

\* An operation begins with nothing open in the journals.
LEMMA StartKeepsWork ==
  ASSUME OperationsAreSound, NEW r \in Requests, StartWork(r)
  PROVE  WorkInvs'
<1> VaultTyped /\ GateIsSound /\ WorkIsSound /\ RowIsSound /\ JournalIsSound
  BY DEF OperationsAreSound
<1>1. KindOf(r) \in {"delete", "import", "destroy"} /\ KindOf(r)' = KindOf(r)
  BY WhatIsAsked, SameRequests DEF VaultTyped, GateIsSound, StartWork, client
<1>2. server = "open" /\ Resting
  BY StartIsAlone, WorkIsAlone DEF StartWork, VaultTyped
<1>3. /\ work' = [step |-> FirstStep[KindOf(r)], req |-> r, row |-> 0, older |-> 0]
      /\ UNCHANGED <<deletions, imports, marker, server>>
  BY DEF StartWork, NoWork, journal
<1>4. /\ KindOf(r) = "delete" => work'.step = "prepare"
      /\ KindOf(r) = "import" => work'.step = "claim"
      /\ KindOf(r) = "destroy" => work'.step = "mark"
  BY <1>3 DEF FirstStep
<1>5. Doing(KindOf(r))' /\ \A kind : Doing(kind)' => kind = KindOf(r)
  BY <1>1, <1>3 DEF Doing
<1>6. marker = NoRequest /\ NoneOpen
  BY <1>2, NoRequestAssumption DEF JournalIsSound, WorkIsSound, NoWork, Resting, NoneOpen, Doing
<1>7. WorkIsSound'
  BY <1>1, <1>2, <1>3, <1>4, <1>5 DEF WorkIsSound, Resting, DeleteSteps, ImportSteps,
     DestroySteps, StartSteps
<1>8. RowIsSound'
  BY <1>1, <1>3, <1>4, <1>5 DEF RowIsSound, OlderRow
<1>9. JournalIsSound'
  BY <1>1, <1>3, <1>4, <1>5, <1>6 DEF JournalIsSound, NoneOpen, OpenDeletion, OpenImport
<1> QED BY <1>7, <1>8, <1>9 DEF WorkInvs

\* A step that leaves the journals as they are leads to the next one of its kind.
LEMMA StepKeepsWork ==
  ASSUME OperationsAreSound, Same, server' = server, NEW next,
         work' = [work EXCEPT !.step = next],
         \/ work.step = "erase" /\ next = "unpublish"
         \/ work.step = "unpublish" /\ next = "scrub"
         \/ work.step = "scrub" /\ next = "recopy"
         \/ work.step = "recopy" /\ next = "remember"
         \/ work.step = "remember" /\ next = IF Doing("destroy") THEN "unmark" ELSE "complete"
         \/ work.step = "claim" /\ next = "save"
         \/ work.step = "save" /\ next = "stage"
         \/ work.step = "put" /\ next = "replace"
         \/ work.step = "away" /\ next = "install"
         \/ work.step = "install" /\ next = "tidy"
         \/ work.step = "drop" /\ next = "publish"
         \/ work.step = "wipe" /\ next = "scrub"
         \/ work.step \in {"put", "replace"} /\ next = "rollback"
         \/ work.step \notin StartSteps \cup {"none", "mark"} /\ server = "open" /\ next = "stuck"
  PROVE  WorkInvs'
<1> VaultTyped /\ WorkIsSound /\ RowIsSound /\ JournalIsSound
  BY DEF OperationsAreSound
<1>1. /\ work'.step = next /\ work'.req = work.req /\ work'.row = work.row
      /\ work'.older = work.older
  BY DEF VaultTyped, Work
<1>2. \A kind : Doing(kind)' <=> Doing(kind)
  BY <1>1, SameRequests DEF Same
<1>3. WorkIsSound'
  BY <1>1, <1>2 DEF WorkIsSound, Resting, DeleteSteps, ImportSteps, DestroySteps, StartSteps
<1>4. RowIsSound'
  BY <1>1, <1>2 DEF RowIsSound, RowOfDeletion, RowOfImport, OlderRow, Same, JournalVars,
     WorkIsSound, Doing, DeleteSteps, ImportSteps, DestroySteps, StartSteps, Resting
<1>5. JournalIsSound'
  BY <1>1, <1>2 DEF JournalIsSound, NoneOpen, OpenDeletion, OpenImport, Same, JournalVars,
     WorkIsSound, Doing, DeleteSteps, ImportSteps, DestroySteps, StartSteps, Resting
<1> QED BY <1>3, <1>4, <1>5 DEF WorkInvs

\* The steps that write no journal are of that form.
LEMMA StepsKeepWork ==
  ASSUME OperationsAreSound,
         \/ EraseBytes \/ UnpublishPages \/ ScrubBackups \/ CopyAfterDeletion
         \/ RememberResponse \/ SaveBeforeImport \/ PutImportedBytes \/ MovePagesAway
         \/ InstallPages \/ DropOldBytes \/ WipeFiles
  PROVE  WorkInvs'
<1>1. Same /\ server' = server
  BY DEF Same, JournalVars, journal, WorkStep, client, EraseBytes, UnpublishPages, ScrubBackups,
         CopyAfterDeletion, RememberResponse, SaveBeforeImport, PutImportedBytes, MovePagesAway,
         InstallPages, DropOldBytes, WipeFiles
<1>2. CASE RememberResponse
  <2>1. Doing("destroy") <=> KindOf(work.req) = "destroy"
    BY <1>2 DEF OperationsAreSound, WorkIsSound, Doing, RememberResponse, At, Resting, StartSteps
  <2> QED BY <1>1, <1>2, <2>1, StepKeepsWork DEF RememberResponse, At, Step
<1>3. CASE ~RememberResponse
  BY <1>1, <1>3, StepKeepsWork DEF At, Step, EraseBytes, UnpublishPages, ScrubBackups,
         CopyAfterDeletion, SaveBeforeImport, PutImportedBytes, MovePagesAway,
         InstallPages, DropOldBytes, WipeFiles
<1> QED BY <1>2, <1>3

\* There is a marker for a destruction under way only.
LEMMA NotMarked ==
  ASSUME OperationsAreSound, ~Resting,
         \/ Doing("delete") \/ Doing("import") \/ work.step \in StartSteps
         \/ work.step = "mark"
  PROVE  marker = NoRequest
<1> VaultTyped /\ GateIsSound /\ WorkIsSound /\ JournalIsSound /\ JournalTyped
  BY DEF OperationsAreSound, VaultTyped
<1>1. server # "down"
  BY DEF GateIsSound
<1>2. work.step \in StartSteps => work.req = NoRequest
  BY DEF WorkIsSound, NoWork
<1> QED BY <1>1, <1>2 DEF JournalIsSound, JournalTyped, Doing

\* When the operation under way is open in the journal, nothing else is.
LEMMA EndKeepsWork ==
  ASSUME OperationsAreSound, ~Resting, NEW success, EndWork(success), marker' = NoRequest,
         server = "open" => NoneOpen'
  PROVE  WorkInvs'
<1> VaultTyped /\ GateIsSound /\ WorkIsSound /\ JournalIsSound
  BY DEF OperationsAreSound
<1>1. server \in {"open", "starting"} /\ server' = server
  BY EndOfWork DEF GateIsSound, VaultTyped
<1>2. CASE server = "starting"
  <2>1. work' = [step |-> "resume", req |-> NoRequest, row |-> 0, older |-> 0]
    BY <1>2, EndOfWork DEF NoWork
  <2>2. \A kind : ~Doing(kind)'
    BY <2>1, NoRequestAssumption DEF Doing
  <2> QED BY <1>1, <1>2, <2>1, <2>2
          DEF WorkInvs, WorkIsSound, RowIsSound, JournalIsSound, Resting, StartSteps, NoWork
<1>3. CASE server = "open"
  <2>1. work' = [step |-> "none", req |-> NoRequest, row |-> 0, older |-> 0] /\ NoneOpen'
    BY <1>3, EndOfWork DEF NoWork
  <2>2. \A kind : ~Doing(kind)'
    BY <2>1, NoRequestAssumption DEF Doing
  <2> QED BY <1>1, <1>3, <2>1, <2>2
          DEF WorkInvs, WorkIsSound, RowIsSound, JournalIsSound, Resting, StartSteps, NoWork,
              NoneOpen
<1> QED BY <1>1, <1>2, <1>3

\* The steps of deletions that write the journal keep the work sound.
LEMMA DeletionsKeepWork ==
  ASSUME OperationsAreSound,
         PrepareDeletion \/ DeleteRows \/ SupersedeDeletion \/ CompleteDeletion
  PROVE  WorkInvs'
<1> VaultTyped /\ GateIsSound /\ WorkIsSound /\ RowIsSound /\ JournalIsSound /\ JournalTyped
  BY DEF OperationsAreSound, VaultTyped
<1>1. Doing("delete") /\ ~Resting /\ marker = NoRequest /\ work.req \in Requests
  BY OwnRequest, NotMarked DEF PrepareDeletion, DeleteRows, SupersedeDeletion, CompleteDeletion,
     At, Resting, Doing
<1>2. \A kind : Doing(kind) => kind = "delete"
  BY <1>1, OwnRequest
<1>z. 0 \notin DOMAIN imports /\ 0 \notin DOMAIN deletions
  BY DEF JournalTyped
<1>3. CASE PrepareDeletion
  <2> DEFINE n == Len(deletions) + 1
  <2>1. /\ n \in Nat /\ n # 0 /\ n \notin DOMAIN deletions
        /\ DOMAIN deletions' = DOMAIN deletions \cup {n}
        /\ \A k \in DOMAIN deletions : deletions'[k] = deletions[k]
        /\ deletions'[n].phase = "prepared" /\ deletions'[n].req = work.req
        /\ work' = [step |-> "delete", req |-> work.req, row |-> n, older |-> work.older]
        /\ UNCHANGED <<want, imports, marker, server>>
    BY <1>3, PreparedRow
  <2> HIDE DEF n
  <2>2. \A kind : Doing(kind)' <=> Doing(kind)
    BY <2>1, SameRequests
  <2>3. work.step = "prepare"
    BY <1>3 DEF PrepareDeletion, At
  <2>4. WorkIsSound'
    BY <1>1, <1>2, <2>1, <2>2, <2>3 DEF WorkIsSound, Resting, DeleteSteps, StartSteps
  <2>5. RowIsSound'
    BY <1>1, <1>2, <2>1, <2>2, <2>3 DEF RowIsSound, RowOfDeletion, OlderRow
  <2>6. JournalIsSound'
    BY <1>1, <1>2, <1>z, <2>1, <2>2, <2>3
       DEF JournalIsSound, OpenDeletion, OpenImport, WorkIsSound
  <2> QED BY <2>4, <2>5, <2>6 DEF WorkInvs
<1>4. CASE DeleteRows
  <2> DEFINE freed == UnsharedBytesOf(ItemOf(work.req), rows \ {ItemOf(work.req)})
  <2>1. /\ RowOfDeletion("prepared") /\ OlderRow
        /\ DeletionBecomes(work.row, "database_complete", freed)
        /\ work' = [step |-> IF work.older = 0 THEN "erase" ELSE "supersede",
                    req |-> work.req, row |-> work.row, older |-> work.older]
        /\ UNCHANGED <<want, imports, marker, server>>
    BY <1>4, DeletedRow
  <2> HIDE DEF freed
  <2>2. \A kind : Doing(kind)' <=> Doing(kind)
    BY <2>1, SameRequests
  <2>3. /\ work.step = "delete" /\ work'.step \in {"erase", "supersede"}
        /\ work'.req = work.req /\ work'.row = work.row /\ work'.older = work.older
        /\ work'.step = "supersede" <=> work.older # 0
        /\ UNCHANGED <<imports, marker, server>>
        /\ RowOfDeletion("prepared") /\ DeletionBecomes(work.row, "database_complete", freed)
    BY <1>4, <2>1 DEF DeleteRows, At
  <2>4. WorkIsSound'
    BY <1>1, <2>2, <2>3 DEF WorkIsSound, Resting, DeleteSteps, StartSteps
  <2>5. RowIsSound'
    BY <1>1, <1>2, <2>1, <2>2, <2>3 DEF RowIsSound, RowOfDeletion, OlderRow, DeletionBecomes
  <2>6. JournalIsSound'
    BY <1>1, <1>2, <2>2, <2>3
       DEF JournalIsSound, OpenDeletion, OpenImport, WorkIsSound, DeletionBecomes
  <2> QED BY <2>4, <2>5, <2>6 DEF WorkInvs
<1>5. CASE SupersedeDeletion
  <2>1. /\ RowOfDeletion("database_complete") /\ server = "starting"
        /\ work.older # work.row
        /\ DeletionBecomes(work.older, "complete", deletions[work.older].freed)
        /\ work' = [step |-> "erase", req |-> work.req, row |-> work.row, older |-> work.older]
        /\ UNCHANGED <<want, imports, marker, server>>
    BY <1>5, SupersededRow
  <2>2. \A kind : Doing(kind)' <=> Doing(kind)
    BY <2>1, SameRequests
  <2>4. WorkIsSound'
    BY <1>1, <2>1, <2>2 DEF WorkIsSound, Resting, DeleteSteps, StartSteps
  <2>5. RowIsSound'
    BY <1>1, <1>2, <2>1, <2>2 DEF RowIsSound, RowOfDeletion, OlderRow, DeletionBecomes
  <2>6. JournalIsSound'
    BY <1>1, <1>2, <2>1, <2>2 DEF JournalIsSound, OpenImport
  <2> QED BY <2>4, <2>5, <2>6 DEF WorkInvs
<1>6. CASE CompleteDeletion
  <2>1. /\ RowOfDeletion("database_complete")
        /\ DeletionBecomes(work.row, "complete", deletions[work.row].freed)
        /\ EndWork(TRUE) /\ UNCHANGED <<want, imports, marker, server>>
    BY <1>6, CompletedRow
  <2>2. server = "open" => NoneOpen'
    <3>1. work.step = "complete"
      BY <1>6 DEF CompleteDeletion, At
    <3> QED BY <1>1, <1>2, <2>1, <3>1
            DEF NoneOpen, OpenDeletion, OpenImport, DeletionBecomes, JournalIsSound
  <2> QED BY <1>1, <2>1, <2>2, EndKeepsWork
<1> QED BY <1>3, <1>4, <1>5, <1>6

\* So do those of imports.
LEMMA ImportsKeepWork ==
  ASSUME OperationsAreSound,
         \/ ClaimImport \/ StageImport \/ ReplaceRows \/ TidyPages \/ CompleteImport
         \/ RollBackImport
  PROVE  WorkInvs'
<1> VaultTyped /\ GateIsSound /\ WorkIsSound /\ RowIsSound /\ JournalIsSound /\ JournalTyped
  BY DEF OperationsAreSound, VaultTyped
<1>1. Doing("import") /\ ~Resting /\ marker = NoRequest /\ work.req \in Requests
  BY OwnRequest, NotMarked DEF ClaimImport, StageImport, ReplaceRows, TidyPages, CompleteImport,
     RollBackImport, At, Resting, Doing
<1>2. \A kind : Doing(kind) => kind = "import"
  BY <1>1, OwnRequest
<1>z. 0 \notin DOMAIN imports /\ 0 \notin DOMAIN deletions
  BY DEF JournalTyped
<1>3. CASE ClaimImport
  <2>1. work.step = "claim" /\ server = "open" /\ UNCHANGED <<deletions, imports, marker>>
    BY <1>3 DEF ClaimImport, At, journal, WorkIsSound
  <2>2. CASE EndWork(FALSE)
    <3>1. NoneOpen'
      BY <1>1, <1>2, <1>z, <2>1 DEF NoneOpen, OpenDeletion, OpenImport, JournalIsSound, WorkIsSound
    <3> QED BY <1>1, <2>1, <2>2, <3>1, EndKeepsWork
  <2>3. CASE ~EndWork(FALSE)
    <3>1. /\ Same /\ server' = server
          /\ \E next \in {"save", "stuck"} : work' = [work EXCEPT !.step = next]
      BY <1>3, <2>3 DEF ClaimImport, Step, Same, JournalVars, journal, client
    <3>2. PICK next \in {"save", "stuck"} : work' = [work EXCEPT !.step = next]
      BY <3>1
    <3>3. CASE next = "save"
      BY <2>1, <3>1, <3>2, <3>3, StepKeepsWork
    <3>4. CASE next = "stuck"
      BY <2>1, <3>1, <3>2, <3>4, StepKeepsWork DEF StartSteps
    <3> QED BY <3>3, <3>4
  <2> QED BY <2>2, <2>3
<1>4. CASE StageImport
  <2> DEFINE n == Len(imports) + 1
  <2>1. /\ n \in Nat /\ n # 0 /\ n \notin DOMAIN imports
        /\ DOMAIN imports' = DOMAIN imports \cup {n}
        /\ \A k \in DOMAIN imports : imports'[k] = imports[k]
        /\ imports'[n].phase = "prepared" /\ imports'[n].req = work.req
        /\ work' = [step |-> "put", req |-> work.req, row |-> n, older |-> work.older]
        /\ UNCHANGED <<want, deletions, marker, server>> /\ server = "open"
    BY <1>4, StagedRow
  <2> HIDE DEF n
  <2>2. \A kind : Doing(kind)' <=> Doing(kind)
    BY <2>1, SameRequests
  <2>3. work.step = "stage"
    BY <1>4 DEF StageImport, At
  <2>4. WorkIsSound'
    BY <1>1, <1>2, <2>1, <2>2, <2>3 DEF WorkIsSound, Resting, ImportSteps, StartSteps
  <2>5. RowIsSound'
    BY <1>1, <1>2, <2>1, <2>2, <2>3 DEF RowIsSound, RowOfImport
  <2>6. JournalIsSound'
    BY <1>1, <1>2, <1>z, <2>1, <2>2, <2>3
       DEF JournalIsSound, OpenDeletion, OpenImport, WorkIsSound
  <2> QED BY <2>4, <2>5, <2>6 DEF WorkInvs
<1>5. CASE ReplaceRows
  <2>1. /\ RowOfImport("prepared") /\ ImportBecomes(work.row, "database_complete")
        /\ DOMAIN deletions' = {}
        /\ work' = [step |-> "away", req |-> work.req, row |-> work.row, older |-> work.older]
        /\ UNCHANGED <<want, marker, server>>
    BY <1>5, ReplacedRow
  <2>2. \A kind : Doing(kind)' <=> Doing(kind)
    BY <2>1, SameRequests
  <2>3. work.step = "replace"
    BY <1>5 DEF ReplaceRows, At
  <2>4. WorkIsSound'
    BY <1>1, <1>2, <2>1, <2>2 DEF WorkIsSound, Resting, ImportSteps, StartSteps
  <2>5. RowIsSound'
    BY <1>1, <1>2, <2>1, <2>2 DEF RowIsSound, RowOfImport, ImportBecomes
  <2>6. JournalIsSound'
    BY <1>1, <1>2, <2>1, <2>2, <2>3
       DEF JournalIsSound, OpenDeletion, OpenImport, WorkIsSound, ImportBecomes
  <2> QED BY <2>4, <2>5, <2>6 DEF WorkInvs
<1>6. CASE TidyPages
  <2>1. /\ RowOfImport("database_complete") /\ ImportBecomes(work.row, "files_complete")
        /\ work' = [step |-> "drop", req |-> work.req, row |-> work.row, older |-> work.older]
        /\ UNCHANGED <<want, deletions, marker, server>>
    BY <1>6, TidiedRow
  <2>2. \A kind : Doing(kind)' <=> Doing(kind)
    BY <2>1, SameRequests
  <2>3. work.step = "tidy"
    BY <1>6 DEF TidyPages, At
  <2>4. WorkIsSound'
    BY <1>1, <1>2, <2>1, <2>2 DEF WorkIsSound, Resting, ImportSteps, StartSteps
  <2>5. RowIsSound'
    BY <1>1, <1>2, <2>1, <2>2 DEF RowIsSound, RowOfImport, ImportBecomes
  <2>6. JournalIsSound'
    BY <1>1, <1>2, <2>1, <2>2, <2>3
       DEF JournalIsSound, OpenDeletion, OpenImport, WorkIsSound, ImportBecomes
  <2> QED BY <2>4, <2>5, <2>6 DEF WorkInvs
<1>7. CASE CompleteImport
  <2>1. /\ ImportBecomes(work.row, "complete") /\ EndWork(TRUE)
        /\ UNCHANGED <<want, deletions, marker, server>>
    BY <1>7, ImportedRow
  <2>2. server = "open" => NoneOpen'
    <3>1. work.step = "publish"
      BY <1>7 DEF CompleteImport, At
    <3> QED BY <1>1, <1>2, <2>1, <3>1
            DEF NoneOpen, OpenDeletion, OpenImport, ImportBecomes, JournalIsSound
  <2> QED BY <1>1, <2>1, <2>2, EndKeepsWork
<1>8. CASE RollBackImport
  <2>1. /\ ImportBecomes(work.row, "failed") /\ EndWork(FALSE)
        /\ UNCHANGED <<want, deletions, marker, server>>
    BY <1>8, RolledBackRow
  <2>2. server = "open" => NoneOpen'
    <3>1. work.step = "rollback"
      BY <1>8 DEF RollBackImport, At
    <3> QED BY <1>1, <1>2, <2>1, <3>1
            DEF NoneOpen, OpenDeletion, OpenImport, ImportBecomes, JournalIsSound
  <2> QED BY <1>1, <2>1, <2>2, EndKeepsWork
<1> QED BY <1>3, <1>4, <1>5, <1>6, <1>7, <1>8

-----------------------------------------------------------------------------
(* What a start goes on with                                                 *)

\* A start that looks for unfinished work does none, and there is no marker.
LEMMA Resuming ==
  ASSUME OperationsAreSound, work.step \in StartSteps
  PROVE  /\ server = "starting" /\ work.req = NoRequest /\ work.row = 0 /\ work.older = 0
         /\ ~Resting /\ marker = NoRequest
         /\ \A kind : ~Doing(kind)
<1>1. server = "starting" /\ work.req = NoRequest /\ work.row = 0 /\ work.older = 0 /\ ~Resting
  BY DEF OperationsAreSound, WorkIsSound, StartSteps, NoWork, Resting
<1> QED BY <1>1, NotMarked, NoRequestAssumption DEF Doing

\* An import goes on after its last phase, ...
LEMMA ImportResumed ==
  ASSUME OperationsAreSound, ResumeImport
  PROVE  \E k \in DOMAIN imports :
           /\ OpenImport(k) /\ k # 0 /\ imports[k].req \in Requests
           /\ work'.req = imports[k].req /\ work'.row = k /\ work'.older = 0
           /\ imports[k].phase = "prepared" => work'.step = "rollback"
           /\ imports[k].phase = "database_complete" => work'.step = "away"
           /\ imports[k].phase = "files_complete" => work'.step = "drop"
           /\ Doing("import")' /\ Same /\ server' = server
<1>1. work \in Work /\ work.older = 0
  BY Resuming DEF OperationsAreSound, VaultTyped, ResumeImport, At, StartSteps
<1>2. Same /\ server' = server
  BY DEF ResumeImport, Same, JournalVars, journal, WorkStep, client
<1>3. PICK k \in OpenImports :
        work' = [work EXCEPT
         !.step = CASE imports[k].phase = "prepared" -> "rollback"
                    [] imports[k].phase = "database_complete" -> "away"
                    [] OTHER -> "drop",
         !.req = imports[k].req, !.row = k]
  BY DEF ResumeImport
<1>4. k \in DOMAIN imports /\ OpenImport(k)
  BY DEF OpenImports, FirstIn, OpenImport
<1>5. k # 0 /\ imports[k].req \in Requests /\ KindOf(imports[k].req) = "import"
  <2>1. imports[k] \in ImportRow /\ k # 0 /\ KindOf(imports[k].req) = "import"
    BY <1>4 DEF OperationsAreSound, VaultTyped, JournalTyped
  <2> QED BY <2>1 DEF ImportRow
<1>6. /\ work'.req = imports[k].req /\ work'.row = k /\ work'.older = 0
      /\ imports[k].phase = "prepared" => work'.step = "rollback"
      /\ imports[k].phase = "database_complete" => work'.step = "away"
      /\ imports[k].phase = "files_complete" => work'.step = "drop"
  BY <1>1, <1>3 DEF Work
<1>7. Doing("import")'
  BY <1>2, <1>5, <1>6, SameRequests DEF Doing, Same
<1> QED BY <1>2, <1>4, <1>5, <1>6, <1>7

\* ... a deletion after its commit, its own or that of a later attempt, ...
LEMMA DeletionResumed ==
  ASSUME OperationsAreSound, ResumeDeletion \/ AdoptDeletion
  PROVE  \/ \E d \in DOMAIN deletions :
              /\ deletions[d].phase = "database_complete" /\ d # 0
              /\ deletions'[d] = deletions[d] /\ d \in DOMAIN deletions'
              /\ work' = [step |-> "erase", req |-> deletions[d].req, row |-> d, older |-> 0]
              /\ Doing("delete")'
         \/ work' = work
<1>1. work \in Work /\ work.older = 0 /\ want' = want
  BY Resuming DEF OperationsAreSound, VaultTyped, ResumeDeletion, AdoptDeletion, At, StartSteps,
     WorkStep, client
<1>2. ASSUME NEW d \in DOMAIN deletions, work'.req = deletions[d].req
      PROVE  d # 0 /\ Doing("delete")'
  <2>1. deletions[d] \in Deletion /\ d # 0 /\ KindOf(deletions[d].req) = "delete"
    BY DEF OperationsAreSound, VaultTyped, JournalTyped
  <2>2. deletions[d].req \in Requests
    BY <2>1 DEF Deletion
  <2> QED BY <1>1, <1>2, <2>1, <2>2, SameRequests DEF Doing
<1>3. CASE ResumeDeletion
  <2>1. PICK k \in OpenDeletions :
          /\ deletions[k].phase = "database_complete"
          /\ work' = [work EXCEPT !.step = "erase", !.req = deletions[k].req, !.row = k]
    BY <1>3 DEF ResumeDeletion
  <2>2. k \in DOMAIN deletions
    BY DEF OpenDeletions, FirstIn
  <2>3. work' = [step |-> "erase", req |-> deletions[k].req, row |-> k, older |-> 0]
    BY <1>1, <2>1 DEF Work
  <2> QED BY <1>2, <1>3, <2>1, <2>2, <2>3 DEF ResumeDeletion, journal
<1>4. CASE AdoptDeletion
  <2>1. PICK k, d \in DOMAIN deletions :
          /\ k # d /\ DeletionBecomes(k, "complete", deletions[k].freed)
          /\ \/ deletions[d].phase = "complete" /\ work' = work
             \/ /\ deletions[d].phase = "database_complete"
                /\ work' = [step |-> "erase", req |-> deletions[d].req, row |-> d, older |-> 0]
    BY <1>4, AdoptedRow
  <2> QED BY <1>2, <2>1 DEF DeletionBecomes
<1> QED BY <1>3, <1>4

\* ... and one that has not committed begins again.
LEMMA DeletionRepeated ==
  ASSUME OperationsAreSound, RepeatDeletion
  PROVE  \E k \in DOMAIN deletions :
           /\ deletions[k].phase = "prepared" /\ k # 0 /\ deletions[k].item \in rows
           /\ work' = [step |-> "prepare", req |-> deletions[k].req, row |-> 0, older |-> k]
           /\ \A d \in Newest(k) : deletions[d].phase \notin {"database_complete", "complete"}
           /\ Doing("delete")' /\ Same /\ server' = server
<1>1. work \in Work /\ work.row = 0 /\ Same /\ server' = server
  BY Resuming DEF OperationsAreSound, VaultTyped, RepeatDeletion, At, StartSteps,
     WorkStep, client, Same, JournalVars, journal
<1>2. PICK k \in OpenDeletions :
       /\ deletions[k].phase = "prepared" /\ deletions[k].item \in rows
       /\ \A d \in Newest(k) : deletions[d].phase \notin {"database_complete", "complete"}
       /\ work' = [work EXCEPT !.step = "prepare", !.req = deletions[k].req, !.older = k]
  BY DEF RepeatDeletion
<1>3. k \in DOMAIN deletions
  BY DEF OpenDeletions, FirstIn
<1>4. work' = [step |-> "prepare", req |-> deletions[k].req, row |-> 0, older |-> k]
  BY <1>1, <1>2 DEF Work
<1>5. deletions[k] \in Deletion /\ k # 0 /\ KindOf(deletions[k].req) = "delete"
  BY <1>3 DEF OperationsAreSound, VaultTyped, JournalTyped
<1>6. deletions[k].req \in Requests
  BY <1>5 DEF Deletion
<1>7. Doing("delete")'
  BY <1>1, <1>4, <1>5, <1>6, SameRequests DEF Doing, Same
<1> QED BY <1>1, <1>2, <1>3, <1>4, <1>5, <1>7

\* When none is first, none is open.
LEMMA NothingLeft ==
  ASSUME OperationsAreSound, OpenImports = {}
  PROVE  /\ \A k \in DOMAIN imports : ~OpenImport(k)
         /\ OpenDeletions = {} => NoneOpen
<1>1. deletions \in Seq(Deletion) /\ imports \in Seq(ImportRow)
  BY DEF OperationsAreSound, VaultTyped, JournalTyped
<1>2. \A k \in DOMAIN imports : ~OpenImport(k)
  BY <1>1, FirstIsThere DEF OpenImport, OpenImports
<1>3. OpenDeletions = {} => \A k \in DOMAIN deletions : ~OpenDeletion(k)
  BY <1>1, FirstIsThere DEF OpenDeletion, OpenDeletions
<1> QED BY <1>2, <1>3 DEF NoneOpen

\* What a start goes on with is sound, and it unlocks with nothing open.
LEMMA ResumesKeepWork ==
  ASSUME OperationsAreSound,
         ResumeImport \/ ResumeDeletion \/ AdoptDeletion \/ RepeatDeletion \/ SweepBytes \/ Open
  PROVE  WorkInvs'
<1> VaultTyped /\ GateIsSound /\ WorkIsSound /\ RowIsSound /\ JournalIsSound /\ JournalTyped
  BY DEF OperationsAreSound, VaultTyped
<1>1. /\ server = "starting" /\ work.req = NoRequest /\ work.row = 0 /\ work.older = 0
      /\ marker = NoRequest /\ work.step \in StartSteps
  BY Resuming DEF ResumeImport, ResumeDeletion, AdoptDeletion, RepeatDeletion, SweepBytes, Open,
     At, StartSteps
<1>2. marker' = marker /\ want' = want
  BY DEF ResumeImport, ResumeDeletion, AdoptDeletion, RepeatDeletion, SweepBytes, Open, journal,
     client, WorkStep
<1>3. CASE ResumeImport
  <2>1. PICK k \in DOMAIN imports :
           /\ OpenImport(k) /\ k # 0 /\ imports[k].req \in Requests
           /\ work'.req = imports[k].req /\ work'.row = k /\ work'.older = 0
           /\ imports[k].phase = "prepared" => work'.step = "rollback"
           /\ imports[k].phase = "database_complete" => work'.step = "away"
           /\ imports[k].phase = "files_complete" => work'.step = "drop"
           /\ Doing("import")' /\ Same /\ server' = server
    BY <1>3, ImportResumed
  <2>2. work'.step \in {"rollback", "away", "drop"} /\ work'.older = 0 /\ server' = "starting"
    BY <1>1, <2>1 DEF OpenImport
  <2>3. \A kind : Doing(kind)' => kind = "import"
    BY <2>1 DEF Doing
  <2>4. WorkIsSound'
    BY <2>1, <2>2, <2>3 DEF WorkIsSound, Resting, ImportSteps, StartSteps
  <2>5. RowIsSound'
    BY <2>1, <2>2, <2>3 DEF RowIsSound, RowOfImport, Same, JournalVars, OpenImport
  <2>6. JournalIsSound'
    BY <1>1, <1>2, <2>1, <2>2, <2>3 DEF JournalIsSound
  <2> QED BY <2>4, <2>5, <2>6 DEF WorkInvs
<1>4. CASE ResumeDeletion \/ AdoptDeletion
  <2>0. imports' = imports /\ \A k \in DOMAIN imports : ~OpenImport(k)
    BY <1>4, NothingLeft, AdoptedRow DEF ResumeDeletion, AdoptDeletion, journal
  <2>1. server' = "starting" /\ \A k \in DOMAIN imports' : ~OpenImport(k)'
    BY <1>1, <1>4, <2>0, AdoptedRow DEF ResumeDeletion, WorkStep, journal, OpenImport
  <2>2. CASE \E d \in DOMAIN deletions :
              /\ deletions[d].phase = "database_complete" /\ d # 0
              /\ deletions'[d] = deletions[d] /\ d \in DOMAIN deletions'
              /\ work' = [step |-> "erase", req |-> deletions[d].req, row |-> d, older |-> 0]
              /\ Doing("delete")'
    <3>1. PICK d \in DOMAIN deletions :
              /\ deletions[d].phase = "database_complete" /\ d # 0
              /\ deletions'[d] = deletions[d] /\ d \in DOMAIN deletions'
              /\ work' = [step |-> "erase", req |-> deletions[d].req, row |-> d, older |-> 0]
              /\ Doing("delete")'
      BY <2>2
    <3>2. \A kind : Doing(kind)' => kind = "delete"
      BY <3>1 DEF Doing
    <3>4. WorkIsSound'
      BY <2>1, <3>1, <3>2 DEF WorkIsSound, Resting, DeleteSteps, StartSteps
    <3>5. RowIsSound'
      BY <3>1, <3>2 DEF RowIsSound, RowOfDeletion, OlderRow
    <3>6. JournalIsSound'
      BY <1>1, <1>2, <2>1, <3>1, <3>2 DEF JournalIsSound
    <3> QED BY <3>4, <3>5, <3>6 DEF WorkInvs
  <2>3. CASE work' = work
    <3>1. work'.step = "resume" /\ work' = [NoWork EXCEPT !.step = "resume"]
      BY <1>1, <1>4, <2>3 DEF ResumeDeletion, AdoptDeletion, At, WorkIsSound
    <3>2. \A kind : ~Doing(kind)'
      BY <1>1, <2>3, NoRequestAssumption DEF Doing
    <3>4. WorkIsSound'
      BY <2>1, <3>1, <3>2 DEF WorkIsSound, Resting, StartSteps
    <3>5. RowIsSound'
      BY <3>1, <3>2 DEF RowIsSound
    <3>6. JournalIsSound'
      BY <1>1, <1>2, <2>1, <3>1, <3>2 DEF JournalIsSound
    <3> QED BY <3>4, <3>5, <3>6 DEF WorkInvs
  <2> QED BY <1>4, <2>2, <2>3, DeletionResumed
<1>5. CASE RepeatDeletion
  <2>1. PICK k \in DOMAIN deletions :
           /\ deletions[k].phase = "prepared" /\ k # 0 /\ deletions[k].item \in rows
           /\ work' = [step |-> "prepare", req |-> deletions[k].req, row |-> 0, older |-> k]
           /\ Doing("delete")' /\ Same /\ server' = server
    BY <1>5, DeletionRepeated
  <2>0. \A j \in DOMAIN imports' : ~OpenImport(j)'
    BY <1>5, <2>1, NothingLeft DEF RepeatDeletion, OpenImport, Same, JournalVars
  <2>2. \A kind : Doing(kind)' => kind = "delete"
    BY <2>1 DEF Doing
  <2>4. WorkIsSound'
    BY <1>1, <2>1, <2>2 DEF WorkIsSound, Resting, DeleteSteps, StartSteps
  <2>5. RowIsSound'
    BY <1>1, <2>1, <2>2 DEF RowIsSound, OlderRow, Same, JournalVars
  <2>6. JournalIsSound'
    BY <1>1, <1>2, <2>0, <2>1, <2>2 DEF JournalIsSound
  <2> QED BY <2>4, <2>5, <2>6 DEF WorkInvs
<1>6. CASE SweepBytes
  <2>1. NoneOpen /\ work' = [NoWork EXCEPT !.step = "unlock"] /\ Same /\ server' = server
    BY <1>1, <1>6, NothingLeft DEF SweepBytes, Step, WorkIsSound, NoWork, Same, JournalVars,
       journal, WorkStep, client
  <2>2. \A kind : ~Doing(kind)'
    BY <2>1, NoRequestAssumption DEF Doing, NoWork
  <2>3. work'.step = "unlock" /\ NoneOpen'
    BY <2>1 DEF NoWork, NoneOpen, OpenDeletion, OpenImport, Same, JournalVars
  <2>4. WorkIsSound'
    BY <1>1, <2>1, <2>2, <2>3 DEF WorkIsSound, Resting, StartSteps, NoWork
  <2>5. RowIsSound'
    BY <2>2, <2>3 DEF RowIsSound
  <2>6. JournalIsSound'
    BY <1>1, <1>2, <2>1, <2>2, <2>3 DEF JournalIsSound
  <2> QED BY <2>4, <2>5, <2>6 DEF WorkInvs
<1>7. CASE Open
  <2>1. NoneOpen' /\ work' = NoWork /\ work'.step = "none" /\ work'.req = NoRequest /\ work'.row = 0
    BY <1>7 DEF Open, JournalIsSound, At, NoneOpen, OpenDeletion, OpenImport, journal, NoWork
  <2>2. \A kind : ~Doing(kind)'
    BY <2>1, NoRequestAssumption DEF Doing
  <2>4. WorkIsSound'
    BY <2>1, <2>2 DEF WorkIsSound, Resting, StartSteps
  <2>5. RowIsSound'
    BY <2>1, <2>2 DEF RowIsSound
  <2>6. JournalIsSound'
    BY <1>1, <1>2, <2>1, <2>2 DEF JournalIsSound, NoneOpen
  <2> QED BY <2>4, <2>5, <2>6 DEF WorkInvs
<1> QED BY <1>3, <1>4, <1>5, <1>6, <1>7

\* Destructions keep the work sound.
LEMMA DestructionsKeepWork ==
  ASSUME OperationsAreSound, MarkDestroy \/ ClearTables \/ UnmarkDestroy
  PROVE  WorkInvs'
<1> VaultTyped /\ GateIsSound /\ WorkIsSound /\ RowIsSound /\ JournalIsSound /\ JournalTyped
  BY DEF OperationsAreSound, VaultTyped
<1>1. Doing("destroy") /\ ~Resting /\ work.req \in Requests /\ work.row = 0
  BY OwnRequest DEF MarkDestroy, ClearTables, UnmarkDestroy, At, Resting, Doing, WorkIsSound
<1>2. \A kind : Doing(kind) => kind = "destroy"
  BY <1>1, OwnRequest
<1>3. CASE MarkDestroy
  <2>1. /\ work.step = "mark" /\ work'.step = "clear" /\ work'.req = work.req /\ work'.row = 0
        /\ work'.older = work.older /\ marker' = work.req
        /\ UNCHANGED <<want, deletions, imports, server>>
    BY <1>1, <1>3 DEF MarkDestroy, At, Step, VaultTyped, Work, WorkStep, client
  <2>2. \A kind : Doing(kind)' <=> Doing(kind)
    BY <2>1, SameRequests
  <2>3. NoneOpen'
    BY <1>2, <2>1 DEF NoneOpen, OpenDeletion, OpenImport, JournalIsSound, WorkIsSound
  <2>4. WorkIsSound'
    BY <1>1, <1>2, <2>1, <2>2 DEF WorkIsSound, Resting, DestroySteps, StartSteps
  <2>5. RowIsSound'
    BY <1>2, <2>1, <2>2 DEF RowIsSound
  <2>6. JournalIsSound'
    BY <1>1, <1>2, <2>1, <2>2, <2>3 DEF JournalIsSound, NoneOpen
  <2> QED BY <2>4, <2>5, <2>6 DEF WorkInvs
<1>4. CASE ClearTables
  <2>1. /\ marker = work.req /\ DOMAIN deletions' = {} /\ DOMAIN imports' = {}
        /\ work' = [step |-> "wipe", req |-> work.req, row |-> work.row, older |-> work.older]
        /\ UNCHANGED <<want, marker, server>>
    BY <1>4, ClearedRows
  <2>2. \A kind : Doing(kind)' <=> Doing(kind)
    BY <2>1, SameRequests
  <2>3. NoneOpen'
    BY <2>1 DEF NoneOpen
  <2>4. WorkIsSound'
    BY <1>1, <1>2, <2>1, <2>2 DEF WorkIsSound, Resting, DestroySteps, StartSteps
  <2>5. RowIsSound'
    BY <1>2, <2>1, <2>2 DEF RowIsSound
  <2>6. JournalIsSound'
    BY <1>1, <1>2, <2>1, <2>2, <2>3 DEF JournalIsSound, NoneOpen
  <2> QED BY <2>4, <2>5, <2>6 DEF WorkInvs
<1>5. CASE UnmarkDestroy
  <2>1. /\ marker = work.req /\ marker' = NoRequest /\ EndWork(TRUE)
        /\ UNCHANGED <<deletions, imports>>
    BY <1>1, <1>5 DEF UnmarkDestroy, JournalIsSound, At
  <2>2. NoneOpen'
    BY <1>1, <2>1, NoRequestAssumption DEF JournalIsSound, NoneOpen, OpenDeletion, OpenImport
  <2> QED BY <1>1, <2>1, <2>2, EndKeepsWork
<1> QED BY <1>3, <1>4, <1>5

\* A write fails before the commit with nothing left open, or leaves it for a start.
LEMMA FailuresKeepWork ==
  ASSUME OperationsAreSound, FailStep
  PROVE  WorkInvs'
<1> VaultTyped /\ GateIsSound /\ WorkIsSound /\ RowIsSound /\ JournalIsSound /\ JournalTyped
  BY DEF OperationsAreSound, VaultTyped
<1>0. 0 \notin DOMAIN imports /\ 0 \notin DOMAIN deletions
  BY DEF JournalTyped
<1>1. CASE FailBeforeCommit
  <2>1. /\ work.step \in {"prepare", "claim", "save", "stage", "mark"} /\ server = "open"
        /\ EndWork(FALSE) /\ UNCHANGED <<deletions, imports, marker>>
    BY <1>1 DEF FailBeforeCommit, journal
  <2>2. marker = NoRequest /\ ~Resting
    <3>1. ~Resting
      BY <2>1 DEF Resting
    <3>2. work.step # "mark" => Doing("delete") \/ Doing("import")
      BY <2>1, OwnRequest
    <3> QED BY <3>1, <3>2, NotMarked
  <2>3. work.row = 0
    BY <2>1, OwnRequest DEF WorkIsSound
  <2>4. NoneOpen'
    BY <1>0, <2>1, <2>3 DEF NoneOpen, OpenDeletion, OpenImport, JournalIsSound
  <2> QED BY <2>1, <2>2, <2>4, EndKeepsWork
<1>2. CASE FailDeletion
  <2>1. /\ Doing("delete") /\ DeletionBecomes(work.row, "failed", deletions[work.row].freed)
        /\ EndWork(FALSE) /\ UNCHANGED <<want, imports, marker, server>> /\ server = "open"
    BY <1>2, FailedRow
  <2>2. work.step = "delete" /\ ~Resting
    BY <1>2 DEF FailDeletion, At, Resting
  <2>3. marker = NoRequest /\ \A kind : Doing(kind) => kind = "delete"
    BY <2>1, <2>2, NotMarked, OwnRequest
  <2>4. NoneOpen'
    BY <2>1, <2>2, <2>3 DEF NoneOpen, OpenDeletion, OpenImport, DeletionBecomes, JournalIsSound
  <2> QED BY <2>1, <2>2, <2>3, <2>4, EndKeepsWork
<1>3. CASE FailImport
  <2>1. Same /\ server' = server
    BY <1>3 DEF FailImport, Same, JournalVars, journal, client
  <2> QED BY <1>3, <2>1, StepKeepsWork DEF FailImport, Step
<1>4. CASE FailAfterCommit
  <2>1. Same /\ server' = server
    BY <1>4 DEF FailAfterCommit, Same, JournalVars, client
  <2> QED BY <1>4, <2>1, StepKeepsWork DEF FailAfterCommit, Step, StartSteps
<1> QED BY <1>1, <1>2, <1>3, <1>4 DEF FailStep

\* A death leaves the work to the next start.
LEMMA ProcessKeepsWork ==
  ASSUME OperationsAreSound, Crash \/ FailStart \/ Quit \/ Boot
  PROVE  WorkInvs'
<1> VaultTyped /\ GateIsSound /\ WorkIsSound /\ RowIsSound /\ JournalIsSound /\ JournalTyped
  BY DEF OperationsAreSound, VaultTyped
<1>1. Same
  BY DEF Same, JournalVars, Crash, FailStart, Quit, Boot, Exit, journal, client
<1>2. marker # NoRequest => NoneOpen'
  BY <1>1 DEF JournalIsSound, NoneOpen, OpenDeletion, OpenImport, Same, JournalVars
<1>3. CASE Exit
  <2>1. /\ server' = "down" /\ work' = NoWork /\ work'.step = "none" /\ work'.req = NoRequest
        /\ work'.row = 0
    BY <1>3 DEF Exit, NoWork
  <2>2. \A kind : ~Doing(kind)'
    BY <2>1, NoRequestAssumption DEF Doing
  <2>4. WorkIsSound'
    BY <2>1, <2>2 DEF WorkIsSound, Resting, StartSteps
  <2>5. RowIsSound'
    BY <2>1, <2>2 DEF RowIsSound
  <2>6. JournalIsSound'
    BY <1>1, <1>2, <2>1, <2>2 DEF JournalIsSound, Same, JournalVars
  <2> QED BY <2>4, <2>5, <2>6 DEF WorkInvs
<1>4. CASE Boot /\ marker # NoRequest
  <2>1. /\ server' = "starting" /\ work'.step = "clear" /\ work'.req = marker /\ work'.row = 0
        /\ marker' = marker
    BY <1>1, <1>4 DEF Boot, NoWork, Same, JournalVars
  <2>2. Doing("destroy")' /\ \A kind : Doing(kind)' => kind = "destroy"
    BY <1>1, <1>4, <2>1, SameRequests DEF Doing, JournalTyped, Same
  <2>4. WorkIsSound'
    BY <2>1, <2>2 DEF WorkIsSound, Resting, StartSteps, DestroySteps
  <2>5. RowIsSound'
    BY <2>1, <2>2 DEF RowIsSound
  <2>6. JournalIsSound'
    BY <1>2, <1>4, <2>1, <2>2 DEF JournalIsSound
  <2> QED BY <2>4, <2>5, <2>6 DEF WorkInvs
<1>5. CASE Boot /\ marker = NoRequest
  <2>1. /\ server' = "starting" /\ work' = [NoWork EXCEPT !.step = "resume"]
        /\ work'.step = "resume" /\ work'.req = NoRequest /\ work'.row = 0 /\ marker' = marker
    BY <1>1, <1>5 DEF Boot, NoWork, Same, JournalVars
  <2>2. \A kind : ~Doing(kind)'
    BY <2>1, NoRequestAssumption DEF Doing
  <2>4. WorkIsSound'
    BY <2>1, <2>2 DEF WorkIsSound, Resting, StartSteps
  <2>5. RowIsSound'
    BY <2>1, <2>2 DEF RowIsSound
  <2>6. JournalIsSound'
    BY <1>5, <2>1, <2>2 DEF JournalIsSound
  <2> QED BY <2>4, <2>5, <2>6 DEF WorkInvs
<1> QED BY <1>3, <1>4, <1>5 DEF Crash, FailStart, Quit

-----------------------------------------------------------------------------
(* Operations are sound                                                      *)

\* No step of an operation passes the gate.
LEMMA WorkStepsKeepGate ==
  ASSUME OperationsAreSound, WorkAction \/ FailStep
  PROVE  GateIsSound'
<1> VaultTyped /\ GateIsSound /\ WorkIsSound /\ work \in Work
  BY DEF OperationsAreSound, VaultTyped
<1>1. ~Resting
  BY DEF Resting, WorkAction, FailStep, PrepareDeletion, DeleteRows, SupersedeDeletion, EraseBytes,
     UnpublishPages, ScrubBackups, CopyAfterDeletion, RememberResponse, CompleteDeletion,
     ClaimImport, SaveBeforeImport, StageImport, PutImportedBytes, ReplaceRows, MovePagesAway,
     InstallPages, TidyPages, DropOldBytes, CompleteImport, RollBackImport, MarkDestroy,
     ClearTables, WipeFiles, UnmarkDestroy, ResumeImport, ResumeDeletion, AdoptDeletion,
     RepeatDeletion, SweepBytes, Open, FailBeforeCommit, FailDeletion, FailImport,
     FailAfterCommit, At
<1>2. CASE \E success : EndWork(success)
  BY <1>1, <1>2, EndKeepsGate
<1>3. CASE Open
  BY <1>3, ProcessKeepsGate
<1>a. ASSUME NEW s \in WorkSteps \ {"none"}, work' = [work EXCEPT !.step = s],
             want' = want, UNCHANGED <<gate, server, snapshot>>
      PROVE  GateIsSound'
  <2>1. work'.step # "none" /\ work'.req = work.req
    BY <1>a DEF Work
  <2> QED BY <1>1, <1>a, <2>1, WorkKeepsGate DEF Resting
<1>4. CASE \/ EraseBytes \/ UnpublishPages \/ ScrubBackups \/ CopyAfterDeletion
           \/ RememberResponse \/ SaveBeforeImport \/ PutImportedBytes \/ MovePagesAway
           \/ InstallPages \/ DropOldBytes \/ WipeFiles \/ SupersedeDeletion \/ TidyPages
           \/ SweepBytes \/ DeleteRows \/ ReplaceRows \/ MarkDestroy \/ ClearTables
  <2>1. \E s \in WorkSteps \ {"none"} : work' = [work EXCEPT !.step = s]
    BY <1>4 DEF Step, EraseBytes, UnpublishPages, ScrubBackups, CopyAfterDeletion,
       RememberResponse, SaveBeforeImport, PutImportedBytes, MovePagesAway, InstallPages,
       DropOldBytes, WipeFiles, SupersedeDeletion, TidyPages, SweepBytes, DeleteRows,
       ReplaceRows, MarkDestroy, ClearTables, WorkSteps, DeleteSteps, ImportSteps, DestroySteps,
       StartSteps
  <2>2. want' = want /\ UNCHANGED <<gate, server, snapshot>>
    BY <1>4 DEF EraseBytes, UnpublishPages, ScrubBackups, CopyAfterDeletion,
       RememberResponse, SaveBeforeImport, PutImportedBytes, MovePagesAway, InstallPages,
       DropOldBytes, WipeFiles, SupersedeDeletion, TidyPages, SweepBytes, DeleteRows,
       ReplaceRows, MarkDestroy, ClearTables, WorkStep, Control, gate, client
  <2> QED BY <1>a, <2>1, <2>2
<1>11. CASE FailStep /\ (FailImport \/ FailAfterCommit)
  <2>1. \E s \in WorkSteps \ {"none"} : work' = [work EXCEPT !.step = s]
    BY <1>11 DEF Step, FailImport, FailAfterCommit, WorkSteps, ImportSteps
  <2>2. want' = want /\ UNCHANGED <<gate, server, snapshot>>
    BY <1>11 DEF FailImport, FailAfterCommit, client
  <2> QED BY <1>a, <2>1, <2>2
<1>12. CASE ClaimImport
  <2>1. CASE EndWork(FALSE)
    BY <1>2, <2>1
  <2>2. CASE ~EndWork(FALSE)
    <3>1. \E s \in WorkSteps \ {"none"} : work' = [work EXCEPT !.step = s]
      BY <1>12, <2>2 DEF Step, ClaimImport, WorkSteps, ImportSteps
    <3>2. want' = want /\ UNCHANGED <<gate, server, snapshot>>
      BY <1>12, <2>2 DEF ClaimImport, client
    <3> QED BY <1>a, <3>1, <3>2
  <2> QED BY <2>1, <2>2
<1>5. CASE PrepareDeletion \/ StageImport
  <2>1. work'.req = work.req /\ work'.step \in {"delete", "put"}
    BY <1>5, PreparedRow, StagedRow
  <2>2. want' = want /\ UNCHANGED <<gate, server, snapshot>>
    BY <1>5 DEF PrepareDeletion, StageImport, WorkStep, client
  <2> QED BY <1>1, <2>1, <2>2, WorkKeepsGate DEF Resting
<1>6. CASE ResumeImport \/ ResumeDeletion \/ AdoptDeletion \/ RepeatDeletion
  <2>1. want' = want /\ UNCHANGED <<gate, server, snapshot>>
    BY <1>6 DEF ResumeImport, ResumeDeletion, AdoptDeletion, RepeatDeletion, WorkStep, client
  <2>2. server = "starting" /\ work'.step # "none"
    <3>1. server = "starting"
      BY <1>6, Resuming DEF ResumeImport, ResumeDeletion, AdoptDeletion, RepeatDeletion, At,
         StartSteps
    <3>2. CASE ResumeImport
      <4>1. work'.step \in {"rollback", "away", "drop"}
        BY <3>2, ImportResumed DEF OpenImport
      <4> QED BY <3>1, <4>1
    <3>3. CASE ResumeDeletion \/ AdoptDeletion
      BY <1>1, <3>1, <3>3, DeletionResumed DEF Resting
    <3>4. CASE RepeatDeletion
      BY <3>1, <3>4, DeletionRepeated
    <3> QED BY <1>6, <3>2, <3>3, <3>4
  <2> QED BY <1>1, <2>1, <2>2, WorkKeepsGate DEF Resting
<1>7. CASE FailStep /\ (FailBeforeCommit \/ FailDeletion)
  BY <1>2, <1>7 DEF FailBeforeCommit, FailDeletion
<1>8. CASE CompleteDeletion \/ CompleteImport \/ RollBackImport \/ UnmarkDestroy
  BY <1>2, <1>8 DEF CompleteDeletion, CompleteImport, RollBackImport, UnmarkDestroy
<1>9. CASE FailStep
  <2>1. FailBeforeCommit \/ FailDeletion \/ FailImport \/ FailAfterCommit
    BY <1>9 DEF FailStep
  <2> QED BY <1>7, <1>9, <1>11, <2>1
<1>10. CASE WorkAction
  BY <1>3, <1>4, <1>5, <1>6, <1>8, <1>10, <1>12 DEF WorkAction
<1> QED BY <1>9, <1>10

\* A stuttering step changes nothing.
LEMMA StoppedIsSame ==
  ASSUME UNCHANGED vaultVars
  PROVE  UNCHANGED <<want, commits, rows, bytes, pages, shelf, backups, gone, keys, staged, server,
                     locked, exclusive, admitted, faults, at, work, snapshot, deletions, imports,
                     marker>>
  BY DEF vaultVars, store, journal, gate, client, ghosts, bounds

\* At first nothing is under way or open.
LEMMA OperationsBegin == ASSUME VaultInit PROVE OperationsAreSound
<1>1. VaultTyped /\ JournalTyped
  BY JournalInitially
<1>2. GateIsSound
  BY NoRequestAssumption DEF VaultInit, GateIsSound, Resting, NoWork, NoSnapshot
<1>3. work = NoWork /\ work.step = "none" /\ work.req = NoRequest /\ work.row = 0
  BY DEF VaultInit, NoWork
<1>4. \A kind : ~Doing(kind)
  BY <1>3, NoRequestAssumption DEF Doing
<1>5. WorkIsSound
  BY <1>3, <1>4 DEF WorkIsSound, Resting, StartSteps
<1>6. RowIsSound
  BY <1>3, <1>4 DEF RowIsSound
<1>7. JournalIsSound
  BY <1>3, <1>4, SequencesBegin DEF VaultInit, JournalIsSound
<1> QED BY <1>1, <1>2, <1>5, <1>6, <1>7 DEF OperationsAreSound

\* Every step keeps gate, work and journals sound.
LEMMA OperationsStaySound ==
  ASSUME OperationsAreSound, [VaultNext]_vaultVars
  PROVE  OperationsAreSound'
<1> VaultTyped /\ GateIsSound /\ WorkIsSound /\ WorkInvs
  BY DEF OperationsAreSound, WorkInvs
<1>1. SUFFICES VaultTyped' /\ GateIsSound' /\ WorkInvs'
  BY DEF OperationsAreSound, WorkInvs
<1>2. CASE UNCHANGED vaultVars
  <2> USE <1>2, StoppedIsSame
  <2>1. Same /\ UNCHANGED <<work, server>>
    BY DEF Same, JournalVars
  <2>2. WorkInvs'
    BY <2>1, NothingChanges
  <2>3. JournalTyped'
    BY <2>1, JournalStays DEF VaultTyped
  <2>4. VaultTyped'
    BY <2>3 DEF VaultTyped
  <2>5. \A r : KindOf(r)' = KindOf(r)
    BY SameRequests
  <2>6. GateIsSound'
    BY <2>5 DEF GateIsSound, Resting
  <2> QED BY <2>2, <2>4, <2>6
<1>3. CASE WorkAction
  <2>1. GateIsSound'
    BY <1>3, WorkStepsKeepGate
  <2>2. CASE PrepareDeletion \/ DeleteRows \/ SupersedeDeletion \/ CompleteDeletion
    BY <2>1, <2>2, DeletionsTyped, DeletionsKeepWork
  <2>3. CASE \/ ClaimImport \/ StageImport \/ ReplaceRows \/ TidyPages \/ CompleteImport
             \/ RollBackImport
    BY <2>1, <2>3, ImportsTyped, ImportsKeepWork
  <2>4. CASE \/ EraseBytes \/ UnpublishPages \/ ScrubBackups \/ CopyAfterDeletion
             \/ RememberResponse \/ SaveBeforeImport \/ PutImportedBytes \/ MovePagesAway
             \/ InstallPages \/ DropOldBytes \/ WipeFiles
    BY <2>1, <2>4, StepsTyped, StepsKeepWork
  <2>5. CASE MarkDestroy \/ ClearTables \/ UnmarkDestroy
    BY <2>1, <2>5, OtherWorkTyped, DestructionsKeepWork
  <2>6. CASE ResumeImport \/ ResumeDeletion \/ RepeatDeletion
    BY <2>1, <2>6, ResumesTyped, ResumesKeepWork
  <2>7. CASE AdoptDeletion \/ Open
    BY <2>1, <2>7, OtherWorkTyped, ResumesKeepWork
  <2>8. CASE SweepBytes
    BY <2>1, <2>8, StepsTyped, ResumesKeepWork
  <2> QED BY <1>3, <2>2, <2>3, <2>4, <2>5, <2>6, <2>7, <2>8 DEF WorkAction
<1>4. CASE FailStep
  BY <1>4, FailuresTyped, FailuresKeepWork, WorkStepsKeepGate
<1>5. CASE \/ StartSnapshot \/ ReadSnapshot \/ PublishSnapshot
           \/ \E i \in Items : PublishPage(i)
  BY <1>5, SnapshotsTyped, OthersKeepGate, RequestsKeepWork
<1>6. CASE Crash \/ FailStart \/ Quit \/ Boot
  BY <1>6, ProcessTyped, ProcessKeepsGate, ProcessKeepsWork
<1>7. ASSUME NEW r \in Requests, Admit(r) \/ HandlerAction(r) \/ GiveUp(r) \/ FailUpload(r)
      PROVE  VaultTyped' /\ GateIsSound' /\ WorkInvs'
  <2>1. GateIsSound'
    BY <1>7, RequestsKeepGate DEF HandlerAction
  <2>2. CASE StartWork(r)
    <3>1. KindOf(r) # "upload"
      BY <2>2 DEF StartWork, GateIsSound
    <3> QED BY <2>1, <2>2, <3>1, StartTyped, StartKeepsWork
  <2>3. CASE PutUpload(r) \/ InsertUpload(r) \/ FailUpload(r)
    BY <2>1, <2>3, UploadsTyped, RequestsKeepWork
  <2>4. CASE Admit(r) \/ AnswerAgain(r) \/ Refuse(r) \/ BeginExclusive(r) \/ Lock(r) \/ GiveUp(r)
    BY <2>1, <2>4, RequestsTyped, RequestsKeepWork
  <2> QED BY <1>7, <2>2, <2>3, <2>4 DEF HandlerAction
<1> QED BY <1>2, <1>3, <1>4, <1>5, <1>6, <1>7 DEF VaultNext, SnapshotAction

-----------------------------------------------------------------------------
(* Rows and bytes                                                            *)

\* No upload is between bytes and rows while an operation or a start is under way.
LEMMA NoPuts ==
  ASSUME OperationsAreSound, ~Resting \/ server # "open"
  PROVE  \A r \in Requests : at[r] # "put"
  BY WorkIsAlone, StartIsAlone DEF OperationsAreSound, GateIsSound, VaultTyped

\* Uploads are served only when nothing is under way and nothing is left open.
LEMMA PutsAreAlone ==
  ASSUME OperationsAreSound, NEW r \in Requests, at[r] \in {"admitted", "put", "waiting"}
  PROVE  /\ Resting /\ server = "open" /\ work.step = "none" /\ NoneOpen /\ marker = NoRequest
         /\ \A kind : ~Doing(kind)
<1> VaultTyped /\ GateIsSound /\ WorkIsSound /\ JournalIsSound /\ JournalTyped
  BY DEF OperationsAreSound, VaultTyped
<1>1. server = "open"
  BY NoRequestAssumption DEF GateIsSound
<1>2. Resting
  BY <1>1, WorkIsAlone DEF GateIsSound
<1>3. work.req = NoRequest /\ work.step = "none"
  BY <1>2 DEF WorkIsSound, NoWork, Resting
<1>4. \A kind : ~Doing(kind)
  BY <1>3, NoRequestAssumption DEF Doing
<1>5. NoneOpen
  BY <1>1, <1>3, <1>4 DEF JournalIsSound, NoneOpen
<1> QED BY <1>1, <1>2, <1>3, <1>4, <1>5 DEF JournalIsSound, JournalTyped

\* The end of an operation puts no request anywhere but back.
LEMMA EndStays ==
  ASSUME OperationsAreSound, ~Resting, NEW success, EndWork(success)
  PROVE  /\ \A r \in Requests : at'[r] = at[r] \/ at'[r] = "idle"
         /\ work'.step \in {"none", "resume"} /\ work'.row = 0 /\ want' = want
         /\ server' = server /\ snapshot' = snapshot /\ work'.req = NoRequest
         /\ \A kind : ~Doing(kind)'
<1>1. VaultTyped
  BY DEF OperationsAreSound
<1>2. \A r \in Requests : at'[r] = at[r] \/ at'[r] = "idle"
  BY <1>1, EndOfWork DEF VaultTyped
<1>3. work'.step \in {"none", "resume"} /\ work'.row = 0 /\ work'.req = NoRequest
  <2>1. work' = NoWork \/ work' = [NoWork EXCEPT !.step = "resume"]
    BY <1>1, EndOfWork
  <2> QED BY <2>1 DEF NoWork
<1>4. \A kind : ~Doing(kind)'
  BY <1>3, NoRequestAssumption DEF Doing
<1> QED BY <1>1, <1>2, <1>3, <1>4, EndOfWork

DeletionsStay ==
  \A k \in DOMAIN deletions' : deletions'[k].phase = "database_complete" =>
    /\ k \in DOMAIN deletions /\ deletions[k].phase = "database_complete"
    /\ deletions'[k].item = deletions[k].item /\ deletions'[k].freed = deletions[k].freed
    /\ deletions'[k].req = deletions[k].req
ImportsStay ==
  \A k \in DOMAIN imports' :
    /\ imports'[k].phase \in {"database_complete", "files_complete"} =>
         k \in DOMAIN imports /\ imports[k].phase \in {"database_complete", "files_complete"}
    /\ imports'[k].phase = "prepared" =>
         \/ imports'[k].old = BytesOf(rows) /\ imports'[k].fresh \cap BytesOf(rows) = {}
         \/ k \in DOMAIN imports /\ imports'[k] = imports[k]
JournalsStay == DeletionsStay /\ ImportsStay
StepStays(steps) == work'.step \in steps => work'.step = work.step

\* Journals that do not change stay.
LEMMA SameJournals == ASSUME Same PROVE JournalsStay
  BY DEF Same, JournalVars, JournalsStay, DeletionsStay, ImportsStay

\* A step that changes neither rows nor bytes keeps them sound.
LEMMA StoreStays ==
  ASSUME StoreIsSound, want' = want, UNCHANGED <<rows, bytes>>, JournalsStay,
         StepStays({"replace", "wipe"}), \A r \in Requests : at'[r] = "put" => at[r] = "put"
  PROVE  StoreIsSound'
<1>1. \A r : ItemOf(r)' = ItemOf(r)
  BY SameRequests
<1>2. BytesOf(rows)' = BytesOf(rows) /\ BytesOf(Archive)' = BytesOf(Archive)
  BY DEF BytesOf
<1>3. \A k \in DOMAIN deletions' : deletions'[k].phase = "database_complete" =>
       deletions'[k].item \notin rows' /\ deletions'[k].freed \cap BytesOf(rows) = {}
  BY DEF StoreIsSound, JournalsStay, DeletionsStay
<1>4. \A k \in DOMAIN imports' :
       /\ imports'[k].phase \in {"database_complete", "files_complete"} => rows' = Archive
       /\ imports'[k].phase = "prepared" =>
            imports'[k].old = BytesOf(rows) /\ imports'[k].fresh \cap BytesOf(rows) = {}
  BY DEF StoreIsSound, JournalsStay, ImportsStay
<1> QED BY <1>1, <1>2, <1>3, <1>4 DEF StoreIsSound, StepStays

\* Uploads put bytes first and rows then, and take back no bytes that rows have.
LEMMA RequestsKeepStore ==
  ASSUME OperationsAreSound, StoreIsSound, NEW r \in Requests,
         Admit(r) \/ HandlerAction(r) \/ GiveUp(r) \/ FailUpload(r)
  PROVE  StoreIsSound'
<1> VaultTyped
  BY DEF OperationsAreSound
<1>1. Same
  BY DEF HandlerAction, Same, JournalVars, journal, client, Admit, AnswerAgain, Refuse,
         BeginExclusive, Lock, GiveUp, StartWork, PutUpload, InsertUpload, FailUpload, Respond
<1>2. ItemOf(r)' = ItemOf(r) /\ \A q : ItemOf(q)' = ItemOf(q)
  BY <1>1, SameRequests DEF Same
<1>3. CASE \/ Admit(r) \/ AnswerAgain(r) \/ Refuse(r) \/ BeginExclusive(r) \/ Lock(r)
           \/ GiveUp(r) \/ StartWork(r)
  <2>1. UNCHANGED <<rows, bytes>> /\ \A q \in Requests : at'[q] = "put" => at[q] = "put"
    BY <1>3 DEF store, Admit, AnswerAgain, Refuse, BeginExclusive, Lock, GiveUp, StartWork,
       Respond, VaultTyped
  <2>2. StepStays({"replace", "wipe"})
    <3>1. CASE StartWork(r)
      <4>1. KindOf(r) \in {"delete", "import", "destroy"}
        BY <3>1, WhatIsAsked DEF StartWork, OperationsAreSound, GateIsSound, VaultTyped
      <4> QED BY <3>1, <4>1 DEF StartWork, StepStays, FirstStep, NoWork
    <3> QED BY <1>3, <3>1 DEF StepStays, Admit, AnswerAgain, Refuse, BeginExclusive, Lock, GiveUp
  <2> QED BY <1>1, <2>1, <2>2, StoreStays, SameJournals DEF Same
<1>4. CASE PutUpload(r)
  <2>1. work.step = "none" /\ work' = work
    BY <1>4, PutsAreAlone DEF PutUpload
  <2>2. /\ rows' = rows /\ bytes' = bytes \cup {BlobOf[ItemOf(r)]}
        /\ at' = [at EXCEPT ![r] = "put"]
        /\ \A q \in Requests : at[q] = "put" => BlobOf[ItemOf(q)] # BlobOf[ItemOf(r)]
    BY <1>4 DEF PutUpload
  <2>3. \A q \in Requests : at'[q] = "put" <=> q = r \/ at[q] = "put"
    BY <2>2 DEF VaultTyped
  <2>4. BytesOf(rows)' = BytesOf(rows)
    BY <2>2 DEF BytesOf
  <2> QED BY <1>1, <1>2, <2>1, <2>2, <2>3, <2>4 DEF StoreIsSound, Same, JournalVars
<1>5. CASE InsertUpload(r)
  <2>1. work.step = "none" /\ work' = work /\ NoneOpen
    BY <1>5, PutsAreAlone DEF InsertUpload
  <2>2. /\ at[r] = "put" /\ rows' = rows \cup {ItemOf(r)} /\ bytes' = bytes
        /\ at' = [at EXCEPT ![r] = "idle"]
    BY <1>5 DEF InsertUpload, Respond
  <2>3. \A q \in Requests : at'[q] = "put" => at[q] = "put"
    BY <2>2 DEF VaultTyped
  <2>4. BytesOf(rows)' = BytesOf(rows) \cup {BlobOf[ItemOf(r)]}
    BY <2>2 DEF BytesOf
  <2> QED BY <1>1, <1>2, <2>1, <2>2, <2>3, <2>4
          DEF StoreIsSound, Same, JournalVars, NoneOpen, OpenDeletion, OpenImport
<1>6. CASE FailUpload(r)
  <2>1. work.step = "none" /\ work' = work
    BY <1>6, PutsAreAlone DEF FailUpload
  <2>2. /\ at[r] = "put" /\ rows' = rows /\ bytes' = bytes \ ({BlobOf[ItemOf(r)]} \ BytesOf(rows))
        /\ at' = [at EXCEPT ![r] = "idle"]
    BY <1>6 DEF FailUpload
  <2>3. \A q \in Requests : at'[q] = "put" => at[q] = "put" /\ q # r
    BY <2>2 DEF VaultTyped
  <2>4. BytesOf(rows)' = BytesOf(rows)
    BY <2>2 DEF BytesOf
  <2> QED BY <1>1, <1>2, <2>1, <2>2, <2>3, <2>4 DEF StoreIsSound, Same, JournalVars
<1> QED BY <1>3, <1>4, <1>5, <1>6 DEF HandlerAction

\* A deletion erases bytes that no row has.
LEMMA DeletionsKeepStore ==
  ASSUME OperationsAreSound, StoreIsSound,
         \/ PrepareDeletion \/ DeleteRows \/ SupersedeDeletion \/ CompleteDeletion
         \/ AdoptDeletion \/ FailDeletion
  PROVE  StoreIsSound'
<1> VaultTyped /\ WorkIsSound /\ JournalTyped
  BY DEF OperationsAreSound, VaultTyped
<1>0. \A r \in Requests : at[r] # "put"
  BY NoPuts DEF PrepareDeletion, DeleteRows, SupersedeDeletion, CompleteDeletion, AdoptDeletion,
     FailDeletion, At, Resting
<1>1. CASE PrepareDeletion
  <2> DEFINE n == Len(deletions) + 1
  <2>1. /\ n \notin DOMAIN deletions /\ DOMAIN deletions' = DOMAIN deletions \cup {n}
        /\ \A k \in DOMAIN deletions : deletions'[k] = deletions[k]
        /\ deletions'[n].phase = "prepared" /\ work'.step = "delete"
        /\ UNCHANGED <<want, imports, rows, bytes, at>>
    BY <1>1, PreparedRow DEF PrepareDeletion, WorkStep, gate, store
  <2> HIDE DEF n
  <2>2. JournalsStay
    BY <2>1 DEF JournalsStay, DeletionsStay, ImportsStay
  <2> QED BY <2>1, <2>2, StoreStays DEF StepStays
<1>2. CASE DeleteRows
  <2> DEFINE i == ItemOf(work.req)
             freed == UnsharedBytesOf(i, rows \ {i})
  <2>1. /\ Doing("delete") /\ deletions[work.row].item = i
        /\ DeletionBecomes(work.row, "database_complete", freed)
        /\ work'.step \in {"erase", "supersede"}
        /\ UNCHANGED <<want, imports>>
    BY <1>2, DeletedRow
  <2>2. rows' = rows \ {i} /\ UNCHANGED <<bytes, at>>
    BY <1>2 DEF DeleteRows, Control, gate
  <2>3. \A k \in DOMAIN imports : ~OpenImport(k)
    BY <2>1 DEF OperationsAreSound, JournalIsSound
  <2>4. BytesOf(rows)' = BytesOf(rows \ {i}) /\ BytesOf(rows \ {i}) \subseteq BytesOf(rows)
    BY <2>2 DEF BytesOf
  <2>5. freed \cap BytesOf(rows \ {i}) = {}
    BY DEF UnsharedBytesOf
  <2> HIDE DEF i, freed
  <2>6. \A k \in DOMAIN deletions' : deletions'[k].phase = "database_complete" =>
          deletions'[k].item \notin rows' /\ deletions'[k].freed \cap BytesOf(rows \ {i}) = {}
    BY <2>1, <2>2, <2>4, <2>5 DEF DeletionBecomes, StoreIsSound
  <2>7. \A k \in DOMAIN imports' :
          imports'[k].phase \notin {"prepared", "database_complete", "files_complete"}
    BY <2>1, <2>3 DEF OpenImport
  <2> QED BY <1>0, <2>1, <2>2, <2>4, <2>6, <2>7 DEF StoreIsSound
<1>3. CASE SupersedeDeletion
  <2>1. /\ DeletionBecomes(work.older, "complete", deletions[work.older].freed)
        /\ work'.step = "erase" /\ UNCHANGED <<want, imports, rows, bytes, at>>
    BY <1>3, SupersededRow DEF SupersedeDeletion, WorkStep, gate, store
  <2>2. JournalsStay
    BY <2>1 DEF JournalsStay, DeletionsStay, ImportsStay, DeletionBecomes
  <2> QED BY <2>1, <2>2, StoreStays DEF StepStays
<1>4. CASE CompleteDeletion
  <2>1. /\ DeletionBecomes(work.row, "complete", deletions[work.row].freed)
        /\ EndWork(TRUE) /\ ~Resting /\ UNCHANGED <<want, imports, rows, bytes>>
    BY <1>4, CompletedRow DEF CompleteDeletion, At, Resting, store
  <2>2. JournalsStay
    BY <2>1 DEF JournalsStay, DeletionsStay, ImportsStay, DeletionBecomes
  <2> QED BY <1>0, <2>1, <2>2, EndStays, StoreStays DEF StepStays
<1>5. CASE AdoptDeletion
  <2>1. PICK k \in DOMAIN deletions :
          /\ DeletionBecomes(k, "complete", deletions[k].freed)
          /\ work'.step = "erase" \/ work' = work
    BY <1>5, AdoptedRow
  <2>2. UNCHANGED <<want, imports, rows, bytes, at>>
    BY <1>5 DEF AdoptDeletion, WorkStep, gate, store, client
  <2>3. JournalsStay
    BY <2>1, <2>2 DEF JournalsStay, DeletionsStay, ImportsStay, DeletionBecomes
  <2> QED BY <2>1, <2>2, <2>3, StoreStays DEF StepStays
<1>6. CASE FailDeletion
  <2>1. /\ DeletionBecomes(work.row, "failed", deletions[work.row].freed)
        /\ EndWork(FALSE) /\ ~Resting /\ UNCHANGED <<want, imports, rows, bytes>>
    BY <1>6, FailedRow DEF FailDeletion, At, Resting, store
  <2>2. JournalsStay
    BY <2>1 DEF JournalsStay, DeletionsStay, ImportsStay, DeletionBecomes
  <2> QED BY <1>0, <2>1, <2>2, EndStays, StoreStays DEF StepStays
<1> QED BY <1>1, <1>2, <1>3, <1>4, <1>5, <1>6

\* An import replaces rows whose bytes are there and drops those of old rows only.
LEMMA ImportsKeepStore ==
  ASSUME OperationsAreSound, StoreIsSound,
         \/ StageImport \/ PutImportedBytes \/ ReplaceRows \/ TidyPages \/ DropOldBytes
         \/ CompleteImport \/ RollBackImport
  PROVE  StoreIsSound'
<1> VaultTyped /\ WorkIsSound /\ RowIsSound /\ JournalIsSound /\ JournalTyped
  BY DEF OperationsAreSound, VaultTyped
<1>0. ~Resting /\ \A r \in Requests : at[r] # "put"
  BY NoPuts DEF StageImport, PutImportedBytes, ReplaceRows, TidyPages, DropOldBytes,
     CompleteImport, RollBackImport, At, Resting
<1>d. Doing("import")
  BY OwnRequest DEF StageImport, PutImportedBytes, ReplaceRows, TidyPages, DropOldBytes,
     CompleteImport, RollBackImport, At
<1>1. CASE StageImport
  <2> DEFINE n == Len(imports) + 1
  <2>1. /\ n \notin DOMAIN imports /\ DOMAIN imports' = DOMAIN imports \cup {n}
        /\ \A k \in DOMAIN imports : imports'[k] = imports[k]
        /\ imports'[n].phase = "prepared" /\ imports'[n].old = BytesOf(rows)
        /\ imports'[n].fresh = BytesOf(Archive) \ bytes
        /\ work'.step = "put" /\ UNCHANGED <<want, deletions, rows, bytes, at>>
    BY <1>1, StagedRow DEF StageImport, WorkStep, gate, store
  <2> HIDE DEF n
  <2>2. BytesOf(rows) \subseteq bytes
    BY DEF StoreIsSound
  <2>3. JournalsStay
    BY <2>1, <2>2 DEF JournalsStay, DeletionsStay, ImportsStay
  <2> QED BY <2>1, <2>3, StoreStays DEF StepStays
<1>2. CASE PutImportedBytes
  <2>1. /\ bytes' = bytes \cup BytesOf(Archive) /\ rows' = rows /\ work'.step = "replace"
        /\ UNCHANGED <<want, deletions, imports, at>>
    BY <1>2 DEF PutImportedBytes, Step, WorkStep, gate, client, journal, Work
  <2>2. BytesOf(rows)' = BytesOf(rows) /\ BytesOf(Archive)' = BytesOf(Archive)
    BY <2>1 DEF BytesOf
  <2> QED BY <1>0, <2>1, <2>2 DEF StoreIsSound
<1>3. CASE ReplaceRows
  <2>1. /\ RowOfImport("prepared") /\ ImportBecomes(work.row, "database_complete")
        /\ DOMAIN deletions' = {} /\ work'.step = "away"
    BY <1>3, ReplacedRow
  <2>2. rows' = Archive /\ UNCHANGED <<bytes, at>> /\ work.step = "replace"
    BY <1>3 DEF ReplaceRows, Control, gate, At
  <2>3. server = "open" /\ \A k \in DOMAIN imports : OpenImport(k) => k = work.row
    BY <2>2 DEF WorkIsSound, JournalIsSound
  <2>4. BytesOf(rows)' = BytesOf(Archive) /\ BytesOf(Archive) \subseteq bytes
    BY <2>2 DEF BytesOf, StoreIsSound
  <2>5. \A k \in DOMAIN imports' : imports'[k].phase # "prepared"
    BY <2>1, <2>3 DEF OpenImport, ImportBecomes
  <2> QED BY <1>0, <2>1, <2>2, <2>4, <2>5 DEF StoreIsSound
<1>4. CASE TidyPages
  <2>1. /\ RowOfImport("database_complete") /\ ImportBecomes(work.row, "files_complete")
        /\ work'.step = "drop" /\ UNCHANGED <<want, deletions, rows, bytes, at>>
    BY <1>4, TidiedRow DEF TidyPages, WorkStep, gate
  <2>2. JournalsStay
    BY <2>1 DEF JournalsStay, DeletionsStay, ImportsStay, ImportBecomes, RowOfImport
  <2> QED BY <2>1, <2>2, StoreStays DEF StepStays
<1>5. CASE DropOldBytes
  <2>1. /\ bytes' = bytes \ (imports[work.row].old \ BytesOf(Archive)) /\ work'.step = "publish"
        /\ UNCHANGED <<want, deletions, imports, rows, at>>
    BY <1>5 DEF DropOldBytes, Step, WorkStep, gate, client, journal, Work
  <2>2. rows = Archive
    BY <1>5 DEF DropOldBytes, At, RowIsSound, RowOfImport, StoreIsSound
  <2>3. BytesOf(rows)' = BytesOf(rows)
    BY <2>1 DEF BytesOf
  <2> QED BY <1>0, <2>1, <2>2, <2>3 DEF StoreIsSound
<1>6. CASE CompleteImport
  <2>1. /\ ImportBecomes(work.row, "complete") /\ EndWork(TRUE)
        /\ UNCHANGED <<want, deletions, rows, bytes>>
    BY <1>6, ImportedRow DEF CompleteImport, store
  <2>2. JournalsStay
    BY <2>1 DEF JournalsStay, DeletionsStay, ImportsStay, ImportBecomes
  <2> QED BY <1>0, <2>1, <2>2, EndStays, StoreStays DEF StepStays
<1>7. CASE RollBackImport
  <2>1. /\ RowOfImport("prepared") /\ ImportBecomes(work.row, "failed") /\ EndWork(FALSE)
        /\ UNCHANGED <<want, deletions, rows>>
    BY <1>7, RolledBackRow DEF RollBackImport
  <2>2. imports[work.row].fresh \cap BytesOf(rows) = {}
    BY <2>1 DEF StoreIsSound, RowOfImport
  <2>3. \E some : bytes' = bytes \ (imports[work.row].fresh \ some)
    BY <1>7 DEF RollBackImport
  <2>4. BytesOf(rows) \subseteq bytes'
    BY <2>2, <2>3 DEF StoreIsSound
  <2>5. BytesOf(rows)' = BytesOf(rows)
    BY <2>1 DEF BytesOf
  <2>6. /\ \A r \in Requests : at'[r] # "put"
        /\ work'.step \notin {"replace", "wipe"}
    BY <1>0, <2>1, EndStays
  <2>7. \A k \in DOMAIN imports' :
          /\ imports'[k].phase \in {"database_complete", "files_complete"} => rows' = Archive
          /\ imports'[k].phase = "prepared" =>
               imports'[k].old = BytesOf(rows) /\ imports'[k].fresh \cap BytesOf(rows) = {}
    BY <2>1 DEF StoreIsSound, ImportBecomes
  <2> QED BY <2>1, <2>4, <2>5, <2>6, <2>7 DEF StoreIsSound
<1> QED BY <1>1, <1>2, <1>3, <1>4, <1>5, <1>6, <1>7

\* All other steps keep rows and bytes sound.
LEMMA OthersKeepStore ==
  ASSUME OperationsAreSound, StoreIsSound,
         \/ EraseBytes \/ UnpublishPages \/ ScrubBackups \/ CopyAfterDeletion
         \/ RememberResponse \/ ClaimImport \/ SaveBeforeImport \/ MovePagesAway \/ InstallPages
         \/ MarkDestroy \/ ClearTables \/ WipeFiles \/ UnmarkDestroy
         \/ ResumeImport \/ ResumeDeletion \/ RepeatDeletion \/ SweepBytes \/ Open
         \/ FailBeforeCommit \/ FailImport \/ FailAfterCommit
         \/ Crash \/ FailStart \/ Quit \/ Boot \/ UNCHANGED vaultVars
         \/ StartSnapshot \/ ReadSnapshot \/ PublishSnapshot \/ \E i \in Items : PublishPage(i)
  PROVE  StoreIsSound'
<1> VaultTyped /\ WorkIsSound /\ RowIsSound /\ JournalIsSound /\ JournalTyped /\ work \in Work
  BY DEF OperationsAreSound, VaultTyped
<1>1. CASE \/ UnpublishPages \/ ScrubBackups \/ CopyAfterDeletion \/ RememberResponse
           \/ SaveBeforeImport \/ MovePagesAway \/ InstallPages
           \/ FailImport \/ FailAfterCommit
  <2>1. Same /\ UNCHANGED <<want, rows, bytes, at>>
    BY <1>1 DEF Same, JournalVars, UnpublishPages, ScrubBackups, CopyAfterDeletion,
       RememberResponse, SaveBeforeImport, MovePagesAway, InstallPages, FailImport,
       FailAfterCommit, journal, WorkStep, client, gate, store
  <2>2. \E s \in WorkSteps \ {"replace", "wipe"} : work' = [work EXCEPT !.step = s]
    BY <1>1 DEF WorkSteps, Step, UnpublishPages, ScrubBackups, CopyAfterDeletion,
       RememberResponse, SaveBeforeImport, MovePagesAway, InstallPages, FailImport,
       FailAfterCommit, DeleteSteps, ImportSteps, DestroySteps
  <2>3. work'.step \notin {"replace", "wipe"}
    BY <2>2 DEF Work
  <2> QED BY <2>1, <2>3, SameJournals, StoreStays DEF StepStays
<1>2. CASE ClaimImport \/ UnmarkDestroy \/ FailBeforeCommit
  <2>1. deletions' = deletions /\ imports' = imports /\ UNCHANGED <<rows, bytes>> /\ ~Resting
    BY <1>2 DEF ClaimImport, UnmarkDestroy, FailBeforeCommit, journal, store, At, Resting
  <2>2. JournalsStay
    BY <2>1 DEF JournalsStay, DeletionsStay, ImportsStay
  <2>3. CASE \E success : EndWork(success)
    <3>1. PICK success : EndWork(success)
      BY <2>3
    <3>2. /\ \A r \in Requests : at'[r] = at[r] \/ at'[r] = "idle"
          /\ work'.step \in {"none", "resume"} /\ want' = want
      BY <2>1, <3>1, EndStays
    <3> QED BY <2>1, <2>2, <3>2, StoreStays DEF StepStays
  <2>4. CASE ClaimImport /\ ~EndWork(FALSE)
    <3>1. UNCHANGED <<want, at>> /\ work'.step \in {"save", "stuck"}
      BY <2>4 DEF ClaimImport, Step, client, gate, Work
    <3> QED BY <2>1, <2>2, <3>1, StoreStays DEF StepStays
  <2>5. CASE UnmarkDestroy
    BY <2>3, <2>5 DEF UnmarkDestroy
  <2>6. CASE FailBeforeCommit
    BY <2>3, <2>6 DEF FailBeforeCommit
  <2>7. CASE EndWork(FALSE)
    BY <2>3, <2>7
  <2> QED BY <1>2, <2>4, <2>5, <2>6, <2>7
<1>3. CASE MarkDestroy
  <2>1. UNCHANGED <<want, deletions, imports, rows, bytes, at>> /\ work'.step = "clear"
    BY <1>3 DEF MarkDestroy, Step, WorkStep, gate, client, store, Work
  <2>2. JournalsStay
    BY <2>1 DEF JournalsStay, DeletionsStay, ImportsStay
  <2> QED BY <2>1, <2>2, StoreStays DEF StepStays
<1>4. CASE ClearTables
  <2>1. /\ rows' = {} /\ UNCHANGED <<bytes, at>> /\ DOMAIN deletions' = {} /\ DOMAIN imports' = {}
        /\ work'.step = "wipe"
    BY <1>4, ClearedRows DEF ClearTables, Control, gate
  <2>2. BytesOf(rows)' = {}
    BY <2>1 DEF BytesOf
  <2>3. \A r \in Requests : at[r] # "put"
    BY <1>4, NoPuts DEF ClearTables, At, Resting
  <2> QED BY <2>1, <2>2, <2>3 DEF StoreIsSound
<1>5. CASE WipeFiles
  <2>1. /\ rows = {} /\ rows' = rows /\ bytes' = {} /\ work'.step = "scrub"
        /\ UNCHANGED <<at, want, deletions, imports>>
    BY <1>5 DEF WipeFiles, WorkStep, gate, client, At, Step, Work, StoreIsSound
  <2>2. BytesOf(rows)' = BytesOf(rows) /\ BytesOf(rows) = {}
    BY <2>1 DEF BytesOf
  <2>3. \A r \in Requests : at[r] # "put"
    BY <1>5, NoPuts DEF WipeFiles, At, Resting
  <2> QED BY <2>1, <2>2, <2>3 DEF StoreIsSound
<1>6. CASE EraseBytes
  <2>1. /\ bytes' = bytes \ deletions[work.row].freed /\ work'.step = "unpublish"
        /\ UNCHANGED <<at, want, deletions, imports, rows>>
    BY <1>6 DEF EraseBytes, WorkStep, gate, client, journal, Step, Work
  <2>2. deletions[work.row].freed \cap BytesOf(rows) = {}
    <3>1. Doing("delete") /\ work.step = "erase"
      BY <1>6, OwnRequest DEF EraseBytes, At
    <3>2. RowOfDeletion("database_complete")
      BY <3>1 DEF RowIsSound
    <3> QED BY <3>2 DEF RowOfDeletion, StoreIsSound
  <2>3. \A r \in Requests : at[r] # "put"
    BY <1>6, NoPuts DEF EraseBytes, At, Resting
  <2>4. BytesOf(rows)' = BytesOf(rows)
    BY <2>1 DEF BytesOf
  <2> QED BY <2>1, <2>2, <2>3, <2>4 DEF StoreIsSound
<1>7. CASE ResumeImport \/ ResumeDeletion \/ RepeatDeletion
  <2>1. Same /\ UNCHANGED <<want, rows, bytes, at>>
    BY <1>7 DEF ResumeImport, ResumeDeletion, RepeatDeletion, Same, JournalVars, journal, WorkStep,
       client, gate, store
  <2>2. work'.step \notin {"replace", "wipe"}
    <3>1. CASE ResumeImport
      BY <3>1, ImportResumed DEF OpenImport
    <3>2. CASE ResumeDeletion
      BY <3>2, DeletionResumed DEF ResumeDeletion, At
    <3>3. CASE RepeatDeletion
      BY <3>3, DeletionRepeated
    <3> QED BY <1>7, <3>1, <3>2, <3>3
  <2> QED BY <2>1, <2>2, SameJournals, StoreStays DEF StepStays
<1>8. CASE SweepBytes
  <2>1. /\ bytes' = bytes \cap BytesOf(rows) /\ work'.step = "unlock"
        /\ UNCHANGED <<at, want, deletions, imports, rows>>
    BY <1>8 DEF SweepBytes, WorkStep, gate, client, journal, Step, Work
  <2>2. \A r \in Requests : at[r] # "put"
    BY <1>8, NoPuts DEF SweepBytes, At, Resting
  <2>3. BytesOf(rows)' = BytesOf(rows)
    BY <2>1 DEF BytesOf
  <2> QED BY <2>1, <2>2, <2>3 DEF StoreIsSound
<1>9. CASE Open \/ Crash \/ FailStart \/ Quit \/ Boot
  <2>1. Same /\ UNCHANGED <<want, rows, bytes>>
    BY <1>9 DEF Open, Crash, FailStart, Quit, Boot, Exit, Same, JournalVars, journal, client, store
  <2>2. \A r \in Requests : at'[r] = "put" => at[r] = "put"
    BY <1>9 DEF Open, Crash, FailStart, Quit, Boot, Exit
  <2>3. CASE Boot
    <3>1. work'.step \in {"clear", "resume"}
      BY <2>3 DEF Boot, NoWork
    <3> QED BY <2>1, <2>2, <3>1, SameJournals, StoreStays DEF StepStays
  <2>4. CASE ~Boot
    <3>1. work'.step = "none"
      BY <1>9, <2>4 DEF Open, Crash, FailStart, Quit, Exit, NoWork
    <3> QED BY <2>1, <2>2, <3>1, SameJournals, StoreStays DEF StepStays
  <2> QED BY <2>3, <2>4
<1>10. CASE \/ StartSnapshot \/ ReadSnapshot \/ PublishSnapshot \/ UNCHANGED vaultVars
            \/ \E i \in Items : PublishPage(i)
  <2>1. Same /\ UNCHANGED <<want, rows, bytes, at, work>>
    BY <1>10, StoppedIsSame DEF StartSnapshot, ReadSnapshot, PublishSnapshot, PublishPage, Same,
       JournalVars, journal, client, store, gate
  <2> QED BY <2>1, SameJournals, StoreStays DEF StepStays
<1>12. CASE \/ EraseBytes \/ UnpublishPages \/ ScrubBackups \/ CopyAfterDeletion
            \/ RememberResponse \/ ClaimImport \/ SaveBeforeImport \/ MovePagesAway
            \/ InstallPages \/ MarkDestroy \/ ClearTables \/ WipeFiles \/ UnmarkDestroy
  BY <1>1, <1>2, <1>3, <1>4, <1>5, <1>6, <1>12
<1> QED BY <1>1, <1>2, <1>7, <1>8, <1>9, <1>10, <1>12

\* Every step keeps rows and bytes sound.
LEMMA StoreStaysSound ==
  ASSUME OperationsAreSound, StoreIsSound, [VaultNext]_vaultVars
  PROVE  StoreIsSound'
<1>1. CASE UNCHANGED vaultVars
  BY <1>1, OthersKeepStore
<1>2. CASE WorkAction
  <2>1. CASE \/ PrepareDeletion \/ DeleteRows \/ SupersedeDeletion \/ CompleteDeletion
             \/ AdoptDeletion
    BY <2>1, DeletionsKeepStore
  <2>2. CASE \/ StageImport \/ PutImportedBytes \/ ReplaceRows \/ TidyPages \/ DropOldBytes
             \/ CompleteImport \/ RollBackImport
    BY <2>2, ImportsKeepStore
  <2>3. CASE \/ EraseBytes \/ UnpublishPages \/ ScrubBackups \/ CopyAfterDeletion
             \/ RememberResponse \/ ClaimImport \/ SaveBeforeImport \/ MovePagesAway
             \/ InstallPages \/ MarkDestroy \/ ClearTables \/ WipeFiles \/ UnmarkDestroy
             \/ ResumeImport \/ ResumeDeletion \/ RepeatDeletion \/ SweepBytes \/ Open
    BY <2>3, OthersKeepStore
  <2> QED BY <1>2, <2>1, <2>2, <2>3 DEF WorkAction
<1>3. CASE FailStep
  <2>1. FailBeforeCommit \/ FailDeletion \/ FailImport \/ FailAfterCommit
    BY <1>3 DEF FailStep
  <2> QED BY <1>3, <2>1, OthersKeepStore, DeletionsKeepStore
<1>4. CASE \E r \in Requests : Admit(r) \/ HandlerAction(r) \/ GiveUp(r) \/ FailUpload(r)
  BY <1>4, RequestsKeepStore
<1>5. CASE \/ StartSnapshot \/ ReadSnapshot \/ PublishSnapshot
           \/ \E i \in Items : PublishPage(i)
  BY <1>5, OthersKeepStore
<1>6. CASE Crash \/ FailStart \/ Quit \/ Boot
  BY <1>6, OthersKeepStore
<1> QED BY <1>1, <1>2, <1>3, <1>4, <1>5, <1>6 DEF VaultNext, SnapshotAction

-----------------------------------------------------------------------------
(* What is gone stays out of pages and backups                               *)

RemovalStays(steps) ==
  \A i \in Items : RemovalPending(i, steps) => RemovalPending(i, steps)'
ReplacementStays ==
  \A k \in DOMAIN imports : imports[k].phase = "database_complete" =>
    k \in DOMAIN imports' /\ imports'[k].phase = "database_complete"

DeletionFails == FailDeletion /\ UNCHANGED gone
FailsEarly == FailBeforeCommit /\ UNCHANGED gone
OtherFails == (FailImport \/ FailAfterCommit) /\ UNCHANGED gone

\* A removal stays pending while its row is open and its operation not past it, ...
LEMMA RemovalStillPending ==
  ASSUME NEW steps,
         \A k \in DOMAIN deletions :
           deletions[k].phase = "database_complete" /\ ~Past(k, steps) =>
             /\ k \in DOMAIN deletions' /\ deletions'[k].phase = "database_complete"
             /\ deletions'[k].item = deletions[k].item,
         work'.step \notin steps,
         marker # NoRequest /\ work.step \notin steps => marker' # NoRequest
  PROVE  RemovalStays(steps)
  BY DEF RemovalStays, RemovalPending, Past

\* ... or while the operation stays past it, ...
LEMMA RemovalGoesOn ==
  ASSUME NEW steps, Same, work'.req = work.req, work'.row = work.row,
         work.step \in steps, work'.step \in steps
  PROVE  RemovalStays(steps)
<1>1. \A kind : Doing(kind)' <=> Doing(kind)
  BY SameRequests DEF Same
<1> QED BY <1>1 DEF RemovalStays, RemovalPending, Past, Same, JournalVars

\* ... or when nothing happens to it.
LEMMA NothingRemoved ==
  ASSUME Same, UNCHANGED work
  PROVE  RemovalStays(PagesDone) /\ RemovalStays(BackupsDone) /\ ReplacementStays
<1>1. \A kind : Doing(kind)' <=> Doing(kind)
  BY SameRequests DEF Same
<1> QED BY <1>1 DEF RemovalStays, RemovalPending, Past, Same, JournalVars, ReplacementStays

\* A step that adds no page, backup or shelf of what is gone keeps it gone.
LEMMA GoneStays ==
  ASSUME GoneIsGone, VaultTyped, gone' \subseteq gone, gone' \cap rows' = {},
         pages' \subseteq pages \cup rows',
         \A holds \in backups' : holds \in backups \/ gone' \cap holds = {},
         snapshot'.step = "writing" => gone' \cap snapshot'.holds = {},
         shelf' \in {shelf, {}},
         work'.step \notin {"install", "tidy"} \/ UNCHANGED work,
         RemovalStays(PagesDone), RemovalStays(BackupsDone),
         \/ ReplacementStays
         \/ /\ shelf' = {} /\ work.step = "tidy" /\ work' # work
            /\ \A k \in DOMAIN imports :
                 imports[k].phase = "database_complete" /\ k # work.row =>
                   k \in DOMAIN imports' /\ imports'[k].phase = "database_complete"
  PROVE  GoneIsGone'
<1>1. ReplacementPending => ReplacementPending'
  <2>1. CASE ReplacementStays
    BY <2>1 DEF ReplacementPending, ReplacementStays
  <2>2. CASE ~ReplacementStays
    BY <2>2 DEF ReplacementPending
  <2> QED BY <2>1, <2>2
<1>2. gone \subseteq Items
  BY DEF VaultTyped
<1>3. \A i \in gone' \cap pages' : RemovalPending(i, PagesDone)' \/ ReplacementPending'
  BY <1>1, <1>2 DEF GoneIsGone, RemovalStays
<1>4. \A holds \in backups' : \A i \in gone' \cap holds : RemovalPending(i, BackupsDone)'
  BY <1>2 DEF GoneIsGone, RemovalStays
<1>5. shelf' # {} => ShelfInUse'
  BY DEF GoneIsGone, ShelfInUse, ReplacementStays
<1>6. gone' # {} => Requests # {}
  BY DEF GoneIsGone
<1>7. PagesDone' = PagesDone /\ BackupsDone' = BackupsDone
  BY DEF PagesDone, BackupsDone
<1> QED BY <1>3, <1>4, <1>5, <1>6, <1>7 DEF GoneIsGone

\* Requests bring back what an upload inserts only.
LEMMA RequestsKeepGone ==
  ASSUME OperationsAreSound, GoneIsGone, NEW r \in Requests,
         Admit(r) \/ HandlerAction(r) \/ GiveUp(r) \/ FailUpload(r)
  PROVE  GoneIsGone'
<1> VaultTyped
  BY DEF OperationsAreSound
<1>1. Same /\ UNCHANGED <<pages, shelf, backups, snapshot>>
  BY DEF HandlerAction, Same, JournalVars, journal, client, store, Admit, AnswerAgain, Refuse,
         BeginExclusive, Lock, GiveUp, StartWork, PutUpload, InsertUpload, FailUpload, Respond
<1>2. gone' \subseteq gone /\ gone' \cap rows' = {}
  <2>1. CASE InsertUpload(r)
    BY <2>1 DEF InsertUpload, GoneIsGone
  <2>2. CASE ~InsertUpload(r)
    BY <2>2 DEF HandlerAction, store, ghosts, Admit, AnswerAgain, Refuse,
         BeginExclusive, Lock, GiveUp, StartWork, PutUpload, FailUpload, GoneIsGone
  <2> QED BY <2>1, <2>2
<1>3. snapshot'.step = "writing" => gone' \cap snapshot'.holds = {}
  BY <1>1, <1>2 DEF GoneIsGone
<1>4. CASE StartWork(r)
  <2>1. KindOf(r) \in {"delete", "import", "destroy"}
    BY <1>4, WhatIsAsked DEF StartWork, OperationsAreSound, GateIsSound, VaultTyped
  <2>2. work'.step \in {"prepare", "claim", "mark"}
    BY <1>4, <2>1 DEF StartWork, FirstStep, NoWork
  <2>3. work'.step \notin PagesDone /\ work'.step \notin BackupsDone
    BY <2>2 DEF PagesDone, BackupsDone
  <2>4. RemovalStays(PagesDone) /\ RemovalStays(BackupsDone)
    BY <1>1, <2>3, RemovalStillPending DEF Same, JournalVars
  <2> QED BY <1>1, <1>2, <1>3, <2>2, <2>4, GoneStays DEF Same, JournalVars, ReplacementStays
<1>5. CASE ~StartWork(r)
  <2>1. UNCHANGED work
    BY <1>5 DEF HandlerAction, Admit, AnswerAgain, Refuse, BeginExclusive, Lock, GiveUp, PutUpload,
       InsertUpload, FailUpload
  <2> QED BY <1>1, <1>2, <1>3, <2>1, NothingRemoved, GoneStays
<1> QED BY <1>4, <1>5

\* Backups and pages are made of rows that are there.
LEMMA SnapshotsKeepGone ==
  ASSUME OperationsAreSound, GoneIsGone,
         \/ StartSnapshot \/ ReadSnapshot \/ PublishSnapshot
         \/ (\E i \in Items : PublishPage(i)) \/ UNCHANGED vaultVars
  PROVE  GoneIsGone'
<1> VaultTyped
  BY DEF OperationsAreSound
<1>1. Same /\ UNCHANGED <<gone, rows, shelf, work>>
  BY StoppedIsSame DEF Same, JournalVars, journal, client, store, ghosts, StartSnapshot,
     ReadSnapshot, PublishSnapshot, PublishPage
<1>2. pages' \subseteq pages \cup rows'
  BY StoppedIsSame DEF store, StartSnapshot, ReadSnapshot, PublishSnapshot, PublishPage
<1>3. snapshot'.step = "writing" => gone' \cap snapshot'.holds = {}
  <2>1. CASE StartSnapshot
    <3>1. snapshot'.step # "writing"
      BY <2>1 DEF StartSnapshot
    <3> QED BY <3>1
  <2>2. CASE ReadSnapshot
    BY <1>1, <2>2 DEF ReadSnapshot, GoneIsGone
  <2>3. CASE PublishSnapshot
    BY <2>3 DEF PublishSnapshot, NoSnapshot
  <2>4. CASE (\E i \in Items : PublishPage(i)) \/ UNCHANGED vaultVars
    BY <1>1, <2>4, StoppedIsSame DEF PublishPage, GoneIsGone
  <2> QED BY <2>1, <2>2, <2>3, <2>4
<1>4. \A holds \in backups' : holds \in backups \/ gone' \cap holds = {}
  <2>1. CASE PublishSnapshot
    BY <1>1, <2>1 DEF PublishSnapshot, GoneIsGone
  <2>2. CASE ~PublishSnapshot
    <3>1. backups' = backups
      BY <2>2, StoppedIsSame DEF store, StartSnapshot, ReadSnapshot, PublishPage
    <3> QED BY <3>1
  <2> QED BY <2>1, <2>2
<1> QED BY <1>1, <1>2, <1>3, <1>4, NothingRemoved, GoneStays DEF GoneIsGone

\* What a deletion removes is pending in pages and backups until it is past them.
LEMMA DeletionsKeepGone ==
  ASSUME OperationsAreSound, StoreIsSound, GoneIsGone,
         \/ PrepareDeletion \/ DeleteRows \/ SupersedeDeletion \/ CompleteDeletion
         \/ AdoptDeletion \/ DeletionFails
  PROVE  GoneIsGone'
<1> VaultTyped /\ WorkIsSound /\ JournalTyped
  BY DEF OperationsAreSound, VaultTyped
<1> USE DEF PagesDone, BackupsDone
<1>0. UNCHANGED <<pages, shelf, backups, snapshot>>
  BY EndOfWork DEF PrepareDeletion, DeleteRows, SupersedeDeletion, CompleteDeletion, AdoptDeletion,
     DeletionFails, FailDeletion, store, WorkStep, Control
<1>1. CASE PrepareDeletion
  <2> DEFINE n == Len(deletions) + 1
  <2>1. /\ n \notin DOMAIN deletions /\ DOMAIN deletions' = DOMAIN deletions \cup {n}
        /\ \A k \in DOMAIN deletions : deletions'[k] = deletions[k]
        /\ work'.step = "delete" /\ UNCHANGED <<imports, marker, rows, gone>>
    BY <1>1, PreparedRow DEF PrepareDeletion, WorkStep, ghosts, store
  <2> HIDE DEF n
  <2>2. RemovalStays(PagesDone) /\ RemovalStays(BackupsDone)
    BY <2>1, RemovalStillPending
  <2>3. ReplacementStays
    BY <2>1 DEF ReplacementStays
  <2> QED BY <1>0, <2>1, <2>2, <2>3, GoneStays DEF GoneIsGone
<1>2. CASE DeleteRows
  <2>0. PICK i : i = ItemOf(work.req)
    OBVIOUS
  <2> DEFINE freed == UnsharedBytesOf(i, rows \ {i})
  <2>1. /\ Doing("delete") /\ deletions[work.row].item = i /\ RowOfDeletion("prepared")
        /\ DeletionBecomes(work.row, "database_complete", freed)
        /\ work'.step \in {"erase", "supersede"} /\ work'.row = work.row
        /\ UNCHANGED <<want, imports, marker>>
    BY <1>2, <2>0, DeletedRow
  <2>2. rows' = rows \ {i} /\ gone' = gone \cup {i} /\ work.step = "delete"
    BY <1>2, <2>0 DEF DeleteRows, At
  <2> HIDE DEF freed
  <2>3. RemovalStays(PagesDone) /\ RemovalStays(BackupsDone)
    BY <2>1, RemovalStillPending DEF DeletionBecomes, RowOfDeletion
  <2>4. ReplacementPending' <=> ReplacementPending
    BY <2>1, <2>2 DEF ReplacementPending
  <2>5. RemovalPending(i, PagesDone)' /\ RemovalPending(i, BackupsDone)'
    BY <2>1 DEF RemovalPending, Past, DeletionBecomes
  <2>6. gone \subseteq Items /\ Requests # {}
    BY <2>1 DEF VaultTyped, Doing
  <2>7. \A j \in gone' \cap pages' : RemovalPending(j, PagesDone)' \/ ReplacementPending'
    BY <1>0, <2>2, <2>3, <2>4, <2>5, <2>6 DEF GoneIsGone, RemovalStays
  <2>8. \A holds \in backups' : \A j \in gone' \cap holds : RemovalPending(j, BackupsDone)'
    BY <1>0, <2>2, <2>3, <2>5, <2>6 DEF GoneIsGone, RemovalStays
  <2>9. snapshot.step # "writing"
    BY <2>2 DEF OperationsAreSound, GateIsSound, Resting
  <2>10. shelf' # {} => ShelfInUse'
    BY <1>0, <2>1 DEF GoneIsGone, ShelfInUse
  <2> QED BY <1>0, <2>2, <2>6, <2>7, <2>8, <2>9, <2>10 DEF GoneIsGone
<1>3. CASE SupersedeDeletion
  <2>1. /\ DeletionBecomes(work.older, "complete", deletions[work.older].freed)
        /\ deletions[work.older].phase = "prepared"
        /\ work'.step = "erase" /\ UNCHANGED <<imports, marker, rows, gone>>
    BY <1>3, SupersededRow DEF SupersedeDeletion, WorkStep, ghosts, store
  <2>2. RemovalStays(PagesDone) /\ RemovalStays(BackupsDone)
    BY <2>1, RemovalStillPending DEF DeletionBecomes
  <2>3. ReplacementStays
    BY <2>1 DEF ReplacementStays
  <2> QED BY <1>0, <2>1, <2>2, <2>3, GoneStays DEF GoneIsGone
<1>4. CASE CompleteDeletion
  <2>1. /\ Doing("delete") /\ DeletionBecomes(work.row, "complete", deletions[work.row].freed)
        /\ EndWork(TRUE) /\ ~Resting /\ UNCHANGED <<marker, imports, rows, gone>>
        /\ work.step = "complete"
    BY <1>4, CompletedRow DEF CompleteDeletion, At, Resting, store, ghosts
  <2>2. RemovalStays(PagesDone) /\ RemovalStays(BackupsDone)
    BY <2>1, EndStays, RemovalStillPending DEF DeletionBecomes, Past
  <2>3. ReplacementStays
    BY <2>1 DEF ReplacementStays
  <2>4. work'.step \notin {"install", "tidy"}
    BY <2>1, EndStays
  <2> QED BY <1>0, <2>1, <2>2, <2>3, <2>4, GoneStays DEF GoneIsGone
<1>5. CASE AdoptDeletion
  <2>1. PICK k \in DOMAIN deletions :
          /\ deletions[k].phase = "prepared" /\ work.step = "resume"
          /\ DeletionBecomes(k, "complete", deletions[k].freed)
          /\ work'.step = "erase" \/ work' = work
    BY <1>5, AdoptedRow
  <2>2. UNCHANGED <<marker, imports, rows, gone>>
    BY <1>5 DEF AdoptDeletion, WorkStep, ghosts, store
  <2>3. RemovalStays(PagesDone) /\ RemovalStays(BackupsDone)
    BY <2>1, <2>2, RemovalStillPending DEF DeletionBecomes
  <2>4. ReplacementStays
    BY <2>2 DEF ReplacementStays
  <2> QED BY <1>0, <2>1, <2>2, <2>3, <2>4, GoneStays DEF GoneIsGone
<1>6. CASE DeletionFails
  <2>1. /\ Doing("delete") /\ DeletionBecomes(work.row, "failed", deletions[work.row].freed)
        /\ EndWork(FALSE) /\ ~Resting /\ UNCHANGED <<marker, imports, rows>>
        /\ RowOfDeletion("prepared") /\ gone' = gone
    BY <1>6, FailedRow DEF DeletionFails, FailDeletion, At, Resting, store
  <2>2. RemovalStays(PagesDone) /\ RemovalStays(BackupsDone)
    BY <2>1, EndStays, RemovalStillPending DEF DeletionBecomes, RowOfDeletion
  <2>3. ReplacementStays
    BY <2>1 DEF ReplacementStays
  <2>4. work'.step \notin {"install", "tidy"}
    BY <2>1, EndStays
  <2> QED BY <1>0, <1>6, <2>1, <2>2, <2>3, <2>4, GoneStays DEF GoneIsGone
<1> QED BY <1>1, <1>2, <1>3, <1>4, <1>5, <1>6

\* What an import leaves out is pending until the pages are exchanged.
LEMMA ImportsKeepGone ==
  ASSUME OperationsAreSound, StoreIsSound, GoneIsGone,
         \/ StageImport \/ ReplaceRows \/ MovePagesAway \/ InstallPages \/ TidyPages
         \/ CompleteImport \/ RollBackImport
  PROVE  GoneIsGone'
<1> VaultTyped /\ WorkIsSound /\ RowIsSound /\ JournalIsSound /\ JournalTyped /\ work \in Work
  BY DEF OperationsAreSound, VaultTyped
<1> USE DEF PagesDone, BackupsDone
<1>0. ~Resting
  BY DEF StageImport, ReplaceRows, MovePagesAway, InstallPages, TidyPages, CompleteImport,
         RollBackImport, At, Resting
<1>d. Doing("import") /\ marker = NoRequest
  BY <1>0, NotMarked, OwnRequest DEF StageImport, ReplaceRows, MovePagesAway, InstallPages,
     TidyPages, CompleteImport, RollBackImport, At
<1>1. CASE StageImport
  <2> DEFINE n == Len(imports) + 1
  <2>1. /\ n \notin DOMAIN imports /\ DOMAIN imports' = DOMAIN imports \cup {n}
        /\ \A k \in DOMAIN imports : imports'[k] = imports[k]
        /\ work'.step = "put" /\ UNCHANGED <<deletions, marker>>
    BY <1>1, StagedRow
  <2>2. UNCHANGED <<rows, gone, pages, shelf, backups, snapshot>>
    BY <1>1 DEF StageImport, WorkStep, store, ghosts
  <2> HIDE DEF n
  <2>3. RemovalStays(PagesDone) /\ RemovalStays(BackupsDone)
    BY <2>1, RemovalStillPending
  <2>4. ReplacementStays
    BY <2>1 DEF ReplacementStays
  <2> QED BY <2>1, <2>2, <2>3, <2>4, GoneStays DEF GoneIsGone
<1>2. CASE ReplaceRows
  <2>1. /\ RowOfImport("prepared") /\ ImportBecomes(work.row, "database_complete")
        /\ DOMAIN deletions' = {} /\ work'.step = "away" /\ work'.row = work.row
        /\ marker' = marker
    BY <1>2, ReplacedRow
  <2>2. /\ rows' = Archive /\ gone' = gone \ Archive /\ work.step = "replace"
        /\ UNCHANGED <<pages, shelf, backups, snapshot>>
    BY <1>2 DEF ReplaceRows, Control, At
  <2>3. \A k \in DOMAIN deletions : ~OpenDeletion(k)
    <3>1. server = "open"
      BY <2>2 DEF WorkIsSound
    <3>2. ~Doing("delete")
      BY <1>d, OwnRequest
    <3> QED BY <2>2, <3>1, <3>2 DEF JournalIsSound
  <2>4. \A i \in Items : ~RemovalPending(i, BackupsDone)
    BY <1>d, <2>3 DEF RemovalPending, OpenDeletion
  <2>5. \A holds \in backups' : gone' \cap holds = {}
    BY <2>2, <2>4 DEF GoneIsGone, VaultTyped
  <2>6. ReplacementPending' /\ ShelfInUse'
    BY <2>1 DEF ReplacementPending, ImportBecomes, ShelfInUse
  <2> QED BY <2>2, <2>5, <2>6 DEF GoneIsGone
<1>3. CASE MovePagesAway
  <2>1. /\ Same /\ work'.step = "install" /\ work'.row = work.row /\ work'.req = work.req
        /\ pages' = {} /\ UNCHANGED <<rows, gone, backups, snapshot>> /\ work.step = "away"
    BY <1>3 DEF MovePagesAway, Step, Same, JournalVars, journal, WorkStep, client, ghosts, At, Work
  <2>2. RemovalStays(BackupsDone)
    BY <1>d, <2>1, RemovalStillPending DEF Same, JournalVars
  <2>3. ShelfInUse'
    BY <2>1 DEF ShelfInUse, RowIsSound, RowOfImport, Same, JournalVars
  <2>4. \A holds \in backups' : \A i \in gone' \cap holds : RemovalPending(i, BackupsDone)'
    BY <2>1, <2>2 DEF GoneIsGone, RemovalStays, VaultTyped
  <2> QED BY <2>1, <2>3, <2>4 DEF GoneIsGone
<1>4. CASE InstallPages
  <2>1. /\ Same /\ work'.step = "tidy"
        /\ pages' \subseteq Archive /\ UNCHANGED <<rows, gone, backups, snapshot, shelf>>
        /\ work.step = "install"
    BY <1>4 DEF InstallPages, Step, Same, JournalVars, journal, WorkStep, client, ghosts, At, Work
  <2>2. rows = Archive
    BY <2>1 DEF RowIsSound, RowOfImport, StoreIsSound
  <2>3. RemovalStays(BackupsDone)
    BY <1>d, <2>1, RemovalStillPending DEF Same, JournalVars
  <2>4. gone' \cap pages' = {}
    BY <2>1, <2>2 DEF GoneIsGone
  <2>5. shelf' # {} => ShelfInUse'
    BY <2>1 DEF GoneIsGone, ShelfInUse, Same, JournalVars
  <2>6. \A holds \in backups' : \A i \in gone' \cap holds : RemovalPending(i, BackupsDone)'
    BY <2>1, <2>3 DEF GoneIsGone, RemovalStays, VaultTyped
  <2> QED BY <2>1, <2>4, <2>5, <2>6 DEF GoneIsGone
<1>5. CASE TidyPages
  <2>1. /\ ImportBecomes(work.row, "files_complete")
        /\ work'.step = "drop" /\ UNCHANGED <<deletions, marker>>
    BY <1>5, TidiedRow
  <2>2. /\ shelf' = {} /\ UNCHANGED <<rows, gone, pages, backups, snapshot>> /\ work.step = "tidy"
    BY <1>5 DEF TidyPages, WorkStep, ghosts, At
  <2>3. RemovalStays(PagesDone) /\ RemovalStays(BackupsDone)
    BY <2>1, RemovalStillPending
  <2>4. \A k \in DOMAIN imports :
          imports[k].phase = "database_complete" /\ k # work.row =>
             k \in DOMAIN imports' /\ imports'[k].phase = "database_complete"
    BY <2>1 DEF ImportBecomes
  <2>5. work' # work
    BY <2>1, <2>2
  <2> QED BY <2>1, <2>2, <2>3, <2>4, <2>5, GoneStays DEF GoneIsGone
<1>6. CASE CompleteImport \/ RollBackImport
  <2>1. \E phase : /\ ImportBecomes(work.row, phase)
                   /\ imports[work.row].phase # "database_complete"
    BY <1>6, ImportedRow, RolledBackRow DEF RowOfImport
  <2>2. /\ \E success : EndWork(success)
        /\ UNCHANGED <<rows, gone, pages, shelf, backups, deletions, marker>>
    BY <1>6, ImportedRow, RolledBackRow DEF CompleteImport, RollBackImport, store, ghosts
  <2>3. snapshot' = snapshot /\ work'.step \in {"none", "resume"}
    BY <1>0, <2>2, EndStays
  <2>4. RemovalStays(PagesDone) /\ RemovalStays(BackupsDone)
    BY <2>2, <2>3, RemovalStillPending
  <2>5. ReplacementStays
    BY <2>1 DEF ReplacementStays, ImportBecomes
  <2> QED BY <2>2, <2>3, <2>4, <2>5, GoneStays DEF GoneIsGone
<1> QED BY <1>1, <1>2, <1>3, <1>4, <1>5, <1>6

\* All other steps keep what is gone out of pages and backups.
LEMMA OthersKeepGone ==
  ASSUME OperationsAreSound, StoreIsSound, GoneIsGone,
         \/ EraseBytes \/ UnpublishPages \/ ScrubBackups \/ CopyAfterDeletion
         \/ RememberResponse \/ ClaimImport \/ SaveBeforeImport \/ PutImportedBytes
         \/ DropOldBytes
         \/ MarkDestroy \/ ClearTables \/ WipeFiles \/ UnmarkDestroy
         \/ ResumeImport \/ ResumeDeletion \/ RepeatDeletion \/ SweepBytes \/ Open
         \/ FailsEarly \/ OtherFails
         \/ Crash \/ FailStart \/ Quit \/ Boot
  PROVE  GoneIsGone'
<1> VaultTyped /\ WorkIsSound /\ RowIsSound /\ JournalIsSound /\ JournalTyped /\ work \in Work
  BY DEF OperationsAreSound, VaultTyped
<1> USE DEF PagesDone, BackupsDone
<1>1. CASE \/ EraseBytes \/ PutImportedBytes \/ DropOldBytes \/ SaveBeforeImport
           \/ MarkDestroy \/ SweepBytes
           \/ OtherFails
  <2>1. \E s \in WorkSteps \ (PagesDone \cup {"install", "tidy"}) : work' = [work EXCEPT !.step = s]
    BY <1>1 DEF Step, EraseBytes, PutImportedBytes, DropOldBytes, SaveBeforeImport, MarkDestroy,
       SweepBytes, OtherFails, FailImport, FailAfterCommit, WorkSteps, DeleteSteps, ImportSteps,
       DestroySteps, StartSteps
  <2>2. work'.step \notin PagesDone /\ work'.step \notin {"install", "tidy"}
    BY <2>1 DEF Work
  <2>3. UNCHANGED <<deletions, imports, rows, gone, pages, shelf, snapshot>>
    BY <1>1 DEF EraseBytes, PutImportedBytes, DropOldBytes, SaveBeforeImport, MarkDestroy,
       SweepBytes, OtherFails, FailImport, FailAfterCommit, journal, store, WorkStep, ghosts
  <2>4. marker' = marker \/ (marker = NoRequest /\ NoneOpen)
    <3>1. CASE MarkDestroy
      <4>1. work.step = "mark" /\ ~Resting
        BY <3>1 DEF MarkDestroy, At, Resting
      <4> QED BY <4>1, NotMarked, <3>1, OwnRequest DEF JournalIsSound, WorkIsSound, NoneOpen
    <3>2. CASE ~MarkDestroy
      BY <1>1, <3>2 DEF EraseBytes, PutImportedBytes, DropOldBytes, SaveBeforeImport,
       SweepBytes, OtherFails, FailImport, FailAfterCommit, journal
    <3> QED BY <3>1, <3>2
  <2>5. \A holds \in backups' : holds \in backups \/ gone' \cap holds = {}
    <3>1. CASE SaveBeforeImport
      BY <2>3, <3>1 DEF SaveBeforeImport, GoneIsGone
    <3>2. CASE ~SaveBeforeImport
      <4>1. backups' = backups
        BY <1>1, <3>2 DEF EraseBytes, PutImportedBytes, DropOldBytes, MarkDestroy,
           SweepBytes, OtherFails, FailImport, FailAfterCommit, store
      <4> QED BY <4>1
    <3> QED BY <3>1, <3>2
  <2>6. RemovalStays(PagesDone) /\ RemovalStays(BackupsDone)
    BY <2>2, <2>3, <2>4, RemovalStillPending
  <2>7. ReplacementStays
    BY <2>3 DEF ReplacementStays
  <2> QED BY <2>2, <2>3, <2>5, <2>6, <2>7, GoneStays DEF GoneIsGone
<1>2. CASE UnpublishPages
  <2>1. /\ Same /\ work'.step = "scrub" /\ work'.row = work.row /\ work'.req = work.req
        /\ work.step = "unpublish" /\ pages' = pages \ {deletions[work.row].item}
        /\ UNCHANGED <<rows, gone, shelf, backups, snapshot>>
    BY <1>2 DEF UnpublishPages, Step, Same, JournalVars, journal, WorkStep, client, ghosts, At, Work
  <2>2. Doing("delete") /\ marker = NoRequest /\ \A kind : Doing(kind)' <=> Doing(kind)
    BY <2>1, OwnRequest, NotMarked, SameRequests DEF Resting, Same
  <2>3. RemovalStays(BackupsDone)
    BY <2>1, RemovalStillPending DEF Same, JournalVars
  <2>4. \A i \in gone' \cap pages' : RemovalPending(i, PagesDone)' \/ ReplacementPending'
    <3>1. ReplacementPending => ReplacementPending'
      BY <2>1 DEF ReplacementPending, Same, JournalVars
    <3>2. \A i \in gone' \cap pages' : RemovalPending(i, PagesDone) => RemovalPending(i, PagesDone)'
      BY <2>1, <2>2 DEF RemovalPending, Past, Same, JournalVars
    <3> QED BY <2>1, <3>1, <3>2 DEF GoneIsGone
  <2>5. shelf' # {} => ShelfInUse'
    BY <2>1 DEF GoneIsGone, ShelfInUse, Same, JournalVars
  <2>6. \A holds \in backups' : \A i \in gone' \cap holds : RemovalPending(i, BackupsDone)'
    BY <2>1, <2>3 DEF GoneIsGone, RemovalStays, VaultTyped
  <2> QED BY <2>1, <2>4, <2>5, <2>6 DEF GoneIsGone
<1>3. CASE ScrubBackups
  <2>1. /\ Same /\ work'.step = "recopy" /\ work'.row = work.row /\ work'.req = work.req
        /\ work.step = "scrub" /\ backups' = {}
        /\ UNCHANGED <<rows, gone, shelf, pages, snapshot>>
    BY <1>3 DEF ScrubBackups, Step, Same, JournalVars, journal, WorkStep, client, ghosts, At, Work
  <2>2. RemovalStays(PagesDone)
    BY <2>1, RemovalGoesOn
  <2>3. ReplacementPending => ReplacementPending'
    BY <2>1 DEF ReplacementPending, Same, JournalVars
  <2>4. \A i \in gone' \cap pages' : RemovalPending(i, PagesDone)' \/ ReplacementPending'
    BY <2>1, <2>2, <2>3 DEF GoneIsGone, RemovalStays, VaultTyped
  <2>5. shelf' # {} => ShelfInUse'
    BY <2>1 DEF GoneIsGone, ShelfInUse, Same, JournalVars
  <2> QED BY <2>1, <2>4, <2>5 DEF GoneIsGone
<1>4. CASE CopyAfterDeletion \/ RememberResponse
  <2>1. /\ Same /\ work'.row = work.row /\ work'.req = work.req
        /\ work.step \in {"recopy", "remember"}
        /\ work'.step \in {"remember", "unmark", "complete"}
        /\ backups' \subseteq backups \cup {rows}
        /\ UNCHANGED <<rows, gone, shelf, pages, snapshot>>
    BY <1>4 DEF CopyAfterDeletion, RememberResponse, Step, Same, JournalVars, journal, WorkStep,
       client, ghosts, store, At, Work
  <2>2. RemovalStays(PagesDone) /\ RemovalStays(BackupsDone)
    BY <2>1, RemovalGoesOn
  <2>3. ReplacementStays
    BY <2>1 DEF ReplacementStays, Same, JournalVars
  <2> QED BY <2>1, <2>2, <2>3, GoneStays DEF GoneIsGone
<1>5. CASE WipeFiles
  <2>1. /\ pages' = {} /\ backups' = {} /\ UNCHANGED <<rows, gone, shelf, imports, snapshot>>
    BY <1>5 DEF WipeFiles, WorkStep, ghosts
  <2>2. shelf' # {} => ShelfInUse'
    BY <2>1 DEF GoneIsGone, ShelfInUse
  <2> QED BY <2>1, <2>2 DEF GoneIsGone
<1>6. CASE ClearTables
  <2>1. /\ Doing("destroy") /\ marker = work.req /\ marker' = marker /\ work'.step = "wipe"
    BY <1>6, ClearedRows
  <2>2. marker # NoRequest /\ NoneOpen /\ Requests # {}
    BY <2>1, NoRequestAssumption DEF Doing, JournalIsSound
  <2>3. /\ rows' = {} /\ gone' = Items /\ UNCHANGED <<pages, shelf, backups, snapshot>>
        /\ work.step = "clear"
    BY <1>6 DEF ClearTables, Control, At
  <2>4. shelf' = {}
    BY <2>2, <2>3 DEF GoneIsGone, ShelfInUse, NoneOpen, OpenImport
  <2>5. \A i : RemovalPending(i, PagesDone)' /\ RemovalPending(i, BackupsDone)'
    BY <2>1, <2>2 DEF RemovalPending
  <2>6. snapshot.step # "writing"
    BY <2>3 DEF OperationsAreSound, GateIsSound, Resting
  <2> QED BY <2>2, <2>3, <2>4, <2>5, <2>6 DEF GoneIsGone
<1>7. CASE ClaimImport \/ UnmarkDestroy \/ FailsEarly
  <2>1. UNCHANGED <<deletions, imports, rows, gone, pages, shelf, backups>> /\ ~Resting
    BY <1>7 DEF ClaimImport, UnmarkDestroy, FailsEarly, FailBeforeCommit, journal, store, ghosts,
       At, Resting
  <2>2. marker' = marker \/ work.step = "unmark"
    BY <1>7 DEF ClaimImport, UnmarkDestroy, FailsEarly, FailBeforeCommit, journal, At
  <2>3. ReplacementStays
    BY <2>1 DEF ReplacementStays
  <2>4. snapshot' = snapshot /\ work'.step \in {"none", "resume", "save", "stuck"}
    <3>1. CASE \E success : EndWork(success)
      BY <2>1, <3>1, EndStays
    <3>2. CASE ClaimImport /\ ~EndWork(FALSE)
      BY <3>2 DEF ClaimImport, Step, Work
    <3>3. CASE ClaimImport /\ EndWork(FALSE)
      BY <3>1, <3>3
    <3>4. CASE UnmarkDestroy
      BY <3>1, <3>4 DEF UnmarkDestroy
    <3>5. CASE FailsEarly
      BY <3>1, <3>5 DEF FailsEarly, FailBeforeCommit
    <3> QED BY <1>7, <3>2, <3>3, <3>4, <3>5
  <2>5. RemovalStays(PagesDone) /\ RemovalStays(BackupsDone)
    BY <2>1, <2>2, <2>4, RemovalStillPending
  <2> QED BY <2>1, <2>3, <2>4, <2>5, GoneStays DEF GoneIsGone
<1>8. CASE ResumeImport \/ ResumeDeletion \/ RepeatDeletion \/ Open
  <2>1. Same /\ UNCHANGED <<rows, gone, pages, backups, snapshot>> /\ shelf' \in {shelf, {}}
    BY <1>8 DEF ResumeImport, ResumeDeletion, RepeatDeletion, Open, Same, JournalVars, journal,
       WorkStep, client, ghosts, store
  <2>2. work'.step \notin PagesDone /\ work'.step \notin {"install", "tidy"}
    <3>1. CASE ResumeImport
      <4>1. work'.step \in {"rollback", "away", "drop"}
        BY <3>1, ImportResumed DEF OpenImport
      <4> QED BY <4>1
    <3>2. CASE ResumeDeletion
      <4>1. work'.step \in {"erase", "resume"}
        BY <3>2, DeletionResumed DEF ResumeDeletion, At
      <4> QED BY <4>1
    <3>3. CASE RepeatDeletion
      <4>1. work'.step = "prepare"
        BY <3>3, DeletionRepeated
      <4> QED BY <4>1
    <3>4. CASE Open
      <4>1. work'.step = "none"
        BY <3>4 DEF Open, NoWork
      <4> QED BY <4>1
    <3> QED BY <1>8, <3>1, <3>2, <3>3, <3>4
  <2>3. RemovalStays(PagesDone) /\ RemovalStays(BackupsDone)
    BY <2>1, <2>2, RemovalStillPending DEF Same, JournalVars
  <2>4. ReplacementStays
    BY <2>1 DEF ReplacementStays, Same, JournalVars
  <2> QED BY <2>1, <2>2, <2>3, <2>4, GoneStays DEF GoneIsGone
<1>9. CASE Crash \/ FailStart \/ Quit \/ Boot
  <2>1. Same /\ UNCHANGED <<rows, gone, pages, backups, shelf>>
    BY <1>9 DEF Crash, FailStart, Quit, Boot, Exit, Same, JournalVars, journal,
       client, ghosts, store
  <2>2. snapshot' = snapshot \/ snapshot'.step = "idle"
    BY <1>9 DEF Crash, FailStart, Quit, Boot, Exit, NoSnapshot
  <2>3. work'.step \in {"none", "clear", "resume"}
    <3>1. CASE Boot
      BY <3>1 DEF Boot, NoWork
    <3>2. CASE ~Boot
      BY <1>9, <3>2 DEF Crash, FailStart, Quit, Exit, NoWork
    <3> QED BY <3>1, <3>2
  <2>4. RemovalStays(PagesDone) /\ RemovalStays(BackupsDone)
    BY <2>1, <2>3, RemovalStillPending DEF Same, JournalVars
  <2>5. ReplacementStays
    BY <2>1 DEF ReplacementStays, Same, JournalVars
  <2> QED BY <2>1, <2>2, <2>3, <2>4, <2>5, GoneStays DEF GoneIsGone
<1>11. CASE \/ EraseBytes \/ UnpublishPages \/ ScrubBackups \/ CopyAfterDeletion
            \/ RememberResponse \/ ClaimImport \/ SaveBeforeImport \/ PutImportedBytes
            \/ DropOldBytes \/ MarkDestroy \/ ClearTables \/ WipeFiles \/ UnmarkDestroy
            \/ SweepBytes
  <2>1. CASE \/ EraseBytes \/ PutImportedBytes \/ DropOldBytes \/ SaveBeforeImport
             \/ MarkDestroy \/ SweepBytes
    BY <1>1, <2>1
  <2>2. CASE ClaimImport \/ UnmarkDestroy
    BY <1>7, <2>2
  <2> QED BY <1>2, <1>3, <1>4, <1>5, <1>6, <1>11, <2>1, <2>2
<1> QED BY <1>1, <1>7, <1>8, <1>9, <1>11

\* Every step keeps what is gone out of pages and backups, or pending.
LEMMA GoneStaysGone ==
  ASSUME OperationsAreSound, StoreIsSound, GoneIsGone, [VaultNext]_vaultVars
  PROVE  GoneIsGone'
<1>2. CASE WorkAction
  <2>1. CASE \/ PrepareDeletion \/ DeleteRows \/ SupersedeDeletion \/ CompleteDeletion
             \/ AdoptDeletion
    BY <2>1, DeletionsKeepGone
  <2>2. CASE \/ StageImport \/ ReplaceRows \/ MovePagesAway \/ InstallPages \/ TidyPages
             \/ CompleteImport \/ RollBackImport
    BY <2>2, ImportsKeepGone
  <2>3. CASE \/ EraseBytes \/ UnpublishPages \/ ScrubBackups \/ CopyAfterDeletion
             \/ RememberResponse \/ ClaimImport \/ SaveBeforeImport \/ PutImportedBytes
             \/ DropOldBytes
             \/ MarkDestroy \/ ClearTables \/ WipeFiles \/ UnmarkDestroy
             \/ ResumeImport \/ ResumeDeletion \/ RepeatDeletion \/ SweepBytes \/ Open
    BY <2>3, OthersKeepGone
  <2> QED BY <1>2, <2>1, <2>2, <2>3 DEF WorkAction
<1>3. CASE FailStep
  <2>1. FailBeforeCommit \/ FailDeletion \/ FailImport \/ FailAfterCommit
    BY <1>3 DEF FailStep
  <2>2. gone' = gone
    BY <1>3 DEF FailStep, ghosts
  <2>3. CASE FailDeletion
    BY <2>2, <2>3, DeletionsKeepGone DEF DeletionFails
  <2>4. CASE FailBeforeCommit \/ FailImport \/ FailAfterCommit
    BY <2>2, <2>4, OthersKeepGone DEF FailsEarly, OtherFails
  <2> QED BY <2>1, <2>3, <2>4
<1>4. CASE \E r \in Requests : Admit(r) \/ HandlerAction(r) \/ GiveUp(r) \/ FailUpload(r)
  BY <1>4, RequestsKeepGone
<1>5. CASE \/ StartSnapshot \/ ReadSnapshot \/ PublishSnapshot
           \/ (\E i \in Items : PublishPage(i)) \/ UNCHANGED vaultVars
  BY <1>5, SnapshotsKeepGone
<1>6. CASE Crash \/ FailStart \/ Quit \/ Boot
  BY <1>6, OthersKeepGone
<1> QED BY <1>2, <1>3, <1>4, <1>5, <1>6 DEF VaultNext, SnapshotAction

-----------------------------------------------------------------------------
(* What is gone loses its bytes                                              *)

ErasingSteps == {"wipe", "stuck", "erase", "replace", "away", "install", "tidy", "drop"}

\* A write that failed may leave bytes behind until the next start.
LEMMA FaultsExcuse == ASSUME faults' # 0 PROVE BytesAreGone'
  BY DEF BytesAreGone

\* A start will sweep them.
LEMMA StartWillErase ==
  ASSUME server' # "open", work'.step # "unlock"
  PROVE  BytesAreGone'
  BY DEF BytesAreGone, ErasurePending

\* A step that adds no bytes and erases what it had to keeps the bytes gone.
LEMMA BytesStay ==
  ASSUME BytesAreGone, want' = want, gone' \subseteq gone, faults' = faults, bytes' \subseteq bytes,
         rows' = rows, \A r \in Requests : at[r] = "put" => at'[r] = "put",
         \A b \in bytes' : ErasurePending(b) => ErasurePending(b)' \/ b \in BytesOf(rows)
  PROVE  BytesAreGone'
<1>1. BytesOf(rows)' = BytesOf(rows) /\ \A r : ItemOf(r)' = ItemOf(r)
  BY SameRequests DEF BytesOf
<1> QED BY <1>1 DEF BytesAreGone

\* Steps outside of erasures have nothing to erase.
LEMMA QuietBytes ==
  ASSUME OperationsAreSound, BytesAreGone, ~Resting, want' = want, gone' = gone,
         faults' = faults, bytes' \subseteq bytes, rows' = rows, server' = server,
         work'.step # "unlock", server = "open" => work.step \notin ErasingSteps
  PROVE  BytesAreGone'
<1>1. CASE server = "open"
  <2>1. \A b : ~ErasurePending(b)
    BY <1>1 DEF ErasurePending, ErasingSteps
  <2>2. \A r \in Requests : at[r] # "put"
    BY NoPuts
  <2> QED BY <2>1, <2>2, BytesStay
<1>2. CASE server # "open"
  BY <1>2, StartWillErase
<1> QED BY <1>1, <1>2

\* Requests add bytes of uploads under way only.
LEMMA RequestsKeepBytes ==
  ASSUME OperationsAreSound, BytesAreGone, NEW r \in Requests,
         Admit(r) \/ HandlerAction(r) \/ GiveUp(r) \/ FailUpload(r)
  PROVE  BytesAreGone'
<1> VaultTyped
  BY DEF OperationsAreSound
<1>1. want' = want /\ \A q : ItemOf(q)' = ItemOf(q)
  <2>1. want' = want
    BY DEF HandlerAction, client, Admit, AnswerAgain, Refuse,
         BeginExclusive, Lock, GiveUp, StartWork, PutUpload, InsertUpload, FailUpload, Respond
  <2> QED BY <2>1, SameRequests
<1>2. CASE \/ Admit(r) \/ AnswerAgain(r) \/ Refuse(r) \/ BeginExclusive(r) \/ Lock(r)
           \/ GiveUp(r)
  <2>1. /\ UNCHANGED <<rows, bytes, gone, faults, server, work, deletions, imports>>
        /\ at[r] # "put"
        /\ \A q \in Requests : q # r => at'[q] = at[q]
    BY <1>2 DEF store, ghosts, bounds, journal, Admit, AnswerAgain, Refuse, BeginExclusive, Lock,
       GiveUp, Respond, VaultTyped
  <2>2. \A b : ErasurePending(b) => ErasurePending(b)'
    BY <2>1 DEF ErasurePending
  <2> QED BY <1>1, <2>1, <2>2, BytesStay
<1>3. CASE StartWork(r)
  <2>1. /\ UNCHANGED <<rows, bytes, gone, faults, server>> /\ at[r] = "waiting"
        /\ \A q \in Requests : q # r => at'[q] = at[q]
    BY <1>3 DEF store, ghosts, bounds, StartWork, VaultTyped
  <2>2. \A b : ~ErasurePending(b)
    BY <2>1, PutsAreAlone DEF ErasurePending
  <2> QED BY <1>1, <2>1, <2>2, BytesStay
<1>4. CASE PutUpload(r)
  <2>1. /\ bytes' = bytes \cup {BlobOf[ItemOf(r)]} /\ at'[r] = "put"
        /\ \A q \in Requests : q # r => at'[q] = at[q]
        /\ UNCHANGED <<rows, gone, faults>> /\ at[r] = "admitted"
    BY <1>4 DEF PutUpload, ghosts, bounds, VaultTyped
  <2>2. \A b : ~ErasurePending(b)
    BY <2>1, PutsAreAlone DEF ErasurePending
  <2>3. BytesOf(rows)' = BytesOf(rows)
    BY <2>1 DEF BytesOf
  <2>4. ASSUME NEW i \in gone', (BlobOf[i] \in bytes /\ faults = 0)'
        PROVE  \/ BlobOf[i] \in BytesOf(rows)
               \/ \E q \in Requests : at'[q] = "put" /\ BlobOf[ItemOf(q)'] = BlobOf[i]
    BY <1>1, <2>1, <2>2, <2>4 DEF BytesAreGone
  <2> QED BY <2>3, <2>4 DEF BytesAreGone
<1>5. CASE InsertUpload(r)
  <2>1. /\ rows' = rows \cup {ItemOf(r)} /\ UNCHANGED <<bytes, faults>> /\ gone' \subseteq gone
        /\ \A q \in Requests : q # r => at'[q] = at[q]
        /\ at[r] = "put"
    BY <1>5 DEF InsertUpload, Respond, bounds, VaultTyped
  <2>2. \A b : ~ErasurePending(b)
    BY <2>1, PutsAreAlone DEF ErasurePending
  <2>3. BytesOf(rows)' = BytesOf(rows) \cup {BlobOf[ItemOf(r)]}
    BY <2>1 DEF BytesOf
  <2>4. ASSUME NEW i \in gone', (BlobOf[i] \in bytes /\ faults = 0)'
        PROVE  \/ BlobOf[i] \in BytesOf(rows)'
               \/ \E q \in Requests : at'[q] = "put" /\ BlobOf[ItemOf(q)'] = BlobOf[i]
    <3>1. \/ BlobOf[i] \in BytesOf(rows)
          \/ \E q \in Requests : at[q] = "put" /\ BlobOf[ItemOf(q)] = BlobOf[i]
      BY <2>1, <2>2, <2>4 DEF BytesAreGone
    <3> QED BY <1>1, <2>1, <2>3, <3>1
  <2> QED BY <2>4 DEF BytesAreGone
<1>6. CASE FailUpload(r)
  BY <1>6, FaultsExcuse DEF FailUpload, VaultTyped
<1> QED BY <1>2, <1>3, <1>4, <1>5, <1>6 DEF HandlerAction

\* Steps that erase no bytes leave none behind.
LEMMA WorkKeepsBytes ==
  ASSUME OperationsAreSound, StoreIsSound, BytesAreGone,
         \/ PrepareDeletion \/ SupersedeDeletion \/ UnpublishPages \/ ScrubBackups
         \/ CopyAfterDeletion \/ RememberResponse \/ CompleteDeletion \/ ClaimImport
         \/ SaveBeforeImport \/ StageImport \/ CompleteImport \/ RollBackImport
         \/ MarkDestroy \/ UnmarkDestroy
  PROVE  BytesAreGone'
<1> VaultTyped /\ work \in Work
  BY DEF OperationsAreSound, VaultTyped
<1>1. /\ ~Resting /\ work.step \notin ErasingSteps
      /\ gone' = gone /\ faults' = faults /\ rows' = rows /\ bytes' \subseteq bytes
  BY DEF PrepareDeletion, SupersedeDeletion, UnpublishPages, ScrubBackups,
     CopyAfterDeletion, RememberResponse, CompleteDeletion, ClaimImport, SaveBeforeImport,
     StageImport, CompleteImport, RollBackImport, MarkDestroy, UnmarkDestroy, ErasingSteps, At,
     Resting, WorkStep, ghosts, bounds, store
<1>2. CASE \E success : EndWork(success)
  BY <1>1, <1>2, EndStays, QuietBytes
<1>3. CASE PrepareDeletion \/ StageImport \/ SupersedeDeletion
  <2>1. work'.step \in {"delete", "put", "erase"} /\ want' = want /\ server' = server
    BY <1>3, PreparedRow, StagedRow, SupersededRow
  <2> QED BY <1>1, <2>1, QuietBytes
<1>4. CASE \/ UnpublishPages \/ ScrubBackups \/ CopyAfterDeletion \/ RememberResponse
           \/ SaveBeforeImport \/ MarkDestroy
  <2>1. \E s \in WorkSteps \ {"unlock"} : work' = [work EXCEPT !.step = s]
    BY <1>4 DEF WorkSteps, Step, UnpublishPages, ScrubBackups, CopyAfterDeletion, RememberResponse,
       SaveBeforeImport, MarkDestroy, DeleteSteps, ImportSteps, DestroySteps
  <2>2. work'.step # "unlock"
    BY <2>1 DEF Work
  <2>3. want' = want /\ server' = server
    BY <1>4 DEF UnpublishPages, ScrubBackups, CopyAfterDeletion, RememberResponse,
       SaveBeforeImport, MarkDestroy, WorkStep, client
  <2> QED BY <1>1, <2>2, <2>3, QuietBytes
<1>5. CASE ClaimImport
  <2>1. CASE EndWork(FALSE)
    BY <1>2, <2>1
  <2>2. CASE ~EndWork(FALSE)
    <3>1. want' = want /\ server' = server /\ work'.step \in {"save", "stuck"}
      BY <1>5, <2>2 DEF ClaimImport, Step, client, Work
    <3> QED BY <1>1, <3>1, QuietBytes
  <2> QED BY <2>1, <2>2
<1>6. CASE CompleteDeletion \/ CompleteImport \/ RollBackImport \/ UnmarkDestroy
  BY <1>2, <1>6 DEF CompleteDeletion, CompleteImport, RollBackImport, UnmarkDestroy
<1> QED BY <1>3, <1>4, <1>5, <1>6

\* A commit says which bytes are to be erased, and an erasure leaves none of them.
LEMMA ErasuresKeepBytes ==
  ASSUME OperationsAreSound, StoreIsSound, BytesAreGone,
         \/ DeleteRows \/ EraseBytes \/ PutImportedBytes \/ ReplaceRows \/ MovePagesAway
         \/ InstallPages \/ TidyPages \/ DropOldBytes \/ ClearTables \/ WipeFiles
  PROVE  BytesAreGone'
<1> VaultTyped /\ work \in Work /\ RowIsSound /\ WorkIsSound
  BY DEF OperationsAreSound, VaultTyped
<1>0. /\ ~Resting /\ want' = want /\ server' = server /\ faults' = faults
      /\ \A q : ItemOf(q)' = ItemOf(q)
  <2>1. /\ ~Resting /\ want' = want /\ server' = server /\ faults' = faults
    BY DEF DeleteRows, EraseBytes, PutImportedBytes, ReplaceRows, MovePagesAway,
       InstallPages, TidyPages, DropOldBytes, ClearTables, WipeFiles, Resting, At, WorkStep,
       Control, client, bounds
  <2> QED BY <2>1, SameRequests
<1>u. work'.step # "unlock"
  <2>1. \E s \in WorkSteps \ {"unlock"} : work' = [work EXCEPT !.step = s]
    BY DEF WorkSteps, Step, DeleteRows, EraseBytes, PutImportedBytes, ReplaceRows, MovePagesAway,
       InstallPages, TidyPages, DropOldBytes, ClearTables, WipeFiles, DeleteSteps, ImportSteps,
       DestroySteps
  <2> QED BY <2>1 DEF Work
<1>1. CASE server # "open"
  BY <1>0, <1>u, <1>1, StartWillErase
<1>2. CASE server = "open"
  <2>0. \A r \in Requests : at[r] # "put"
    BY <1>0, NoPuts
  <2>1. CASE DeleteRows
    <3>0. PICK i : i = ItemOf(work.req)
      OBVIOUS
    <3> DEFINE freed == UnsharedBytesOf(i, rows \ {i})
    <3>1. /\ DeletionBecomes(work.row, "database_complete", freed) /\ OlderRow
          /\ work' = [step |-> IF work.older = 0 THEN "erase" ELSE "supersede",
                      req |-> work.req, row |-> work.row, older |-> work.older]
      BY <2>1, <3>0, DeletedRow
    <3>2. /\ work.step = "delete" /\ rows' = rows \ {i} /\ gone' = gone \cup {i} /\ bytes' = bytes
      BY <2>1, <3>0 DEF DeleteRows, At
    <3>3. work'.step = "erase" /\ work'.row = work.row /\ deletions'[work.row].freed = freed
      BY <1>2, <3>1 DEF OlderRow, DeletionBecomes
    <3>4. \A b : ~ErasurePending(b)
      BY <1>2, <3>2 DEF ErasurePending
    <3>5. \A b \in BytesOf(rows) \cup {BlobOf[i]} : b \in BytesOf(rows \ {i}) \/ b \in freed
      BY DEF BytesOf, UnsharedBytesOf
    <3> HIDE DEF freed
    <3>6. BytesOf(rows)' = BytesOf(rows \ {i})
      BY <3>2 DEF BytesOf
    <3>7. \A b : b \in freed => ErasurePending(b)'
      BY <3>3 DEF ErasurePending
    <3>8. ASSUME NEW j \in gone', (BlobOf[j] \in bytes /\ faults = 0)'
          PROVE  BlobOf[j] \in BytesOf(rows \ {i}) \/ ErasurePending(BlobOf[j])'
      BY <1>0, <2>0, <3>2, <3>4, <3>5, <3>7, <3>8 DEF BytesAreGone
    <3> QED BY <3>6, <3>8 DEF BytesAreGone
  <2>2. CASE EraseBytes
    <3>1. /\ work.step = "erase" /\ bytes' = bytes \ deletions[work.row].freed
          /\ UNCHANGED <<rows, gone>>
      BY <2>2 DEF EraseBytes, At, WorkStep, ghosts
    <3>2. \A b \in bytes' : ~ErasurePending(b)
      BY <1>2, <3>1 DEF ErasurePending
    <3> QED BY <1>0, <2>0, <3>1, <3>2, BytesStay
  <2>3. CASE PutImportedBytes
    <3>1. /\ work.step = "put" /\ work'.step = "replace" /\ bytes' = bytes \cup BytesOf(Archive)
          /\ UNCHANGED <<rows, gone>>
      BY <2>3 DEF PutImportedBytes, At, Step, Work, WorkStep, ghosts
    <3>2. \A b : ~ErasurePending(b)
      BY <1>2, <3>1 DEF ErasurePending
    <3>3. BytesOf(rows)' = BytesOf(rows) /\ BytesOf(Archive)' = BytesOf(Archive)
      BY <3>1 DEF BytesOf
    <3>4. \A b \in BytesOf(Archive) : ErasurePending(b)'
      BY <3>1, <3>3 DEF ErasurePending
    <3>5. ASSUME NEW j \in gone', (BlobOf[j] \in bytes /\ faults = 0)'
          PROVE  BlobOf[j] \in BytesOf(rows) \/ ErasurePending(BlobOf[j])'
      BY <1>0, <2>0, <3>1, <3>2, <3>4, <3>5 DEF BytesAreGone
    <3> QED BY <3>3, <3>5 DEF BytesAreGone
  <2>4. CASE ReplaceRows
    <3>1. /\ RowOfImport("prepared") /\ ImportBecomes(work.row, "database_complete")
          /\ work'.step = "away" /\ work'.row = work.row
      BY <2>4, ReplacedRow
    <3>2. /\ work.step = "replace" /\ rows' = Archive /\ gone' \subseteq gone /\ bytes' = bytes
      BY <2>4 DEF ReplaceRows, At
    <3>3. imports'[work.row].old = BytesOf(rows)
      BY <3>1 DEF ImportBecomes, RowOfImport, StoreIsSound
    <3>4. BytesOf(rows)' = BytesOf(Archive)
      BY <3>2 DEF BytesOf
    <3>5. \A b : ErasurePending(b) => b \in BytesOf(Archive)
      BY <1>2, <3>2 DEF ErasurePending
    <3>6. \A b \in BytesOf(rows) : ErasurePending(b)'
      BY <3>1, <3>3 DEF ErasurePending
    <3>7. ASSUME NEW j \in gone', (BlobOf[j] \in bytes /\ faults = 0)'
          PROVE  BlobOf[j] \in BytesOf(Archive) \/ ErasurePending(BlobOf[j])'
      BY <1>0, <2>0, <3>2, <3>5, <3>6, <3>7 DEF BytesAreGone
    <3> QED BY <3>4, <3>7 DEF BytesAreGone
  <2>5. CASE MovePagesAway \/ InstallPages
    <3>1. /\ work.step \in {"away", "install"} /\ work'.step \in {"install", "tidy"}
          /\ work'.row = work.row /\ UNCHANGED <<rows, gone, bytes, imports>>
      BY <2>5 DEF MovePagesAway, InstallPages, At, Step, Work, WorkStep, ghosts, journal
    <3>2. \A b : ErasurePending(b) => ErasurePending(b)'
      BY <1>2, <3>1 DEF ErasurePending
    <3> QED BY <1>0, <2>0, <3>1, <3>2, BytesStay
  <2>6. CASE TidyPages
    <3>1. /\ RowOfImport("database_complete") /\ ImportBecomes(work.row, "files_complete")
          /\ work'.step = "drop" /\ work'.row = work.row
      BY <2>6, TidiedRow
    <3>2. /\ work.step = "tidy" /\ UNCHANGED <<rows, gone, bytes>>
      BY <2>6 DEF TidyPages, At, WorkStep, ghosts
    <3>3. imports'[work.row].old = imports[work.row].old
      BY <3>1 DEF ImportBecomes, RowOfImport
    <3>4. \A b : ErasurePending(b) => ErasurePending(b)'
      BY <1>2, <3>1, <3>2, <3>3 DEF ErasurePending
    <3> QED BY <1>0, <2>0, <3>2, <3>4, BytesStay
  <2>7. CASE DropOldBytes
    <3>1. /\ work.step = "drop" /\ UNCHANGED <<rows, gone>>
          /\ bytes' = bytes \ (imports[work.row].old \ BytesOf(Archive))
      BY <2>7 DEF DropOldBytes, At, WorkStep, ghosts
    <3>2. rows = Archive
      BY <3>1 DEF RowIsSound, RowOfImport, StoreIsSound
    <3>3. \A b : ErasurePending(b) => b \in imports[work.row].old
      BY <1>2, <3>1 DEF ErasurePending
    <3> QED BY <1>0, <2>0, <3>1, <3>2, <3>3, BytesStay
  <2>8. CASE ClearTables
    <3>1. work'.step = "wipe"
      BY <2>8, ClearedRows
    <3> QED BY <3>1 DEF BytesAreGone, ErasurePending
  <2>9. CASE WipeFiles
    BY <2>9 DEF WipeFiles, BytesAreGone
  <2> QED BY <2>1, <2>2, <2>3, <2>4, <2>5, <2>6, <2>7, <2>8, <2>9
<1> QED BY <1>1, <1>2

\* A start sweeps what no row has, and the API stops with a start to come.
LEMMA StartsKeepBytes ==
  ASSUME OperationsAreSound, StoreIsSound, BytesAreGone,
         \/ ResumeImport \/ ResumeDeletion \/ AdoptDeletion \/ RepeatDeletion \/ SweepBytes \/ Open
         \/ Crash \/ FailStart \/ Quit \/ Boot
         \/ StartSnapshot \/ ReadSnapshot \/ PublishSnapshot
         \/ (\E i \in Items : PublishPage(i)) \/ UNCHANGED vaultVars
  PROVE  BytesAreGone'
<1> VaultTyped /\ work \in Work
  BY DEF OperationsAreSound, VaultTyped
<1>1. CASE ResumeImport \/ ResumeDeletion \/ AdoptDeletion \/ RepeatDeletion
  <2>1. server' = server /\ server = "starting"
    BY <1>1, Resuming DEF ResumeImport, ResumeDeletion, AdoptDeletion, RepeatDeletion, At,
       StartSteps, WorkStep
  <2>2. work'.step # "unlock"
    <3>1. CASE ResumeImport
      BY <3>1, ImportResumed DEF OpenImport
    <3>2. CASE ResumeDeletion \/ AdoptDeletion
      <4>1. work.step = "resume"
        BY <3>2 DEF ResumeDeletion, AdoptDeletion, At
      <4> QED BY <3>2, <4>1, DeletionResumed
    <3>3. CASE RepeatDeletion
      BY <3>3, DeletionRepeated
    <3> QED BY <1>1, <3>1, <3>2, <3>3
  <2> QED BY <2>1, <2>2, StartWillErase
<1>2. CASE SweepBytes
  <2>1. bytes' = bytes \cap BytesOf(rows) /\ rows' = rows
    BY <1>2 DEF SweepBytes
  <2>2. BytesOf(rows)' = BytesOf(rows)
    BY <2>1 DEF BytesOf
  <2> QED BY <2>1, <2>2 DEF BytesAreGone
<1>3. CASE Open
  <2>1. /\ work.step = "unlock" /\ ~Resting
        /\ UNCHANGED <<rows, bytes, gone, faults, want>>
    BY <1>3 DEF Open, At, Resting, store, ghosts, bounds, client
  <2>2. \A b : ~ErasurePending(b)
    BY <2>1 DEF ErasurePending
  <2>3. \A r \in Requests : at[r] # "put"
    BY <2>1, NoPuts
  <2> QED BY <2>1, <2>2, <2>3, BytesStay
<1>4. CASE Crash \/ FailStart \/ Quit
  <2>1. server' = "down" /\ work'.step = "none"
    BY <1>4 DEF Crash, FailStart, Quit, Exit, NoWork
  <2> QED BY <2>1, StartWillErase
<1>5. CASE Boot
  <2>1. server' = "starting" /\ work'.step # "unlock"
    BY <1>5 DEF Boot, NoWork
  <2> QED BY <2>1, StartWillErase
<1>6. CASE \/ StartSnapshot \/ ReadSnapshot \/ PublishSnapshot
           \/ (\E i \in Items : PublishPage(i)) \/ UNCHANGED vaultVars
  <2>1. UNCHANGED <<rows, bytes, gone, faults, want, at, server, work, deletions, imports>>
    BY <1>6, StoppedIsSame DEF store, ghosts, bounds, client, gate, journal, StartSnapshot,
       ReadSnapshot, PublishSnapshot, PublishPage
  <2>2. \A b : ErasurePending(b) => ErasurePending(b)'
    BY <2>1 DEF ErasurePending
  <2> QED BY <2>1, <2>2, BytesStay
<1> QED BY <1>1, <1>2, <1>3, <1>4, <1>5, <1>6

\* Every step keeps bytes of what is gone out of the store, or to be erased.
LEMMA BytesStayGone ==
  ASSUME OperationsAreSound, StoreIsSound, BytesAreGone, [VaultNext]_vaultVars
  PROVE  BytesAreGone'
<1>2. CASE WorkAction
  <2>1. CASE \/ PrepareDeletion \/ SupersedeDeletion \/ UnpublishPages \/ ScrubBackups
             \/ CopyAfterDeletion \/ RememberResponse \/ CompleteDeletion \/ ClaimImport
             \/ SaveBeforeImport \/ StageImport \/ CompleteImport \/ RollBackImport
             \/ MarkDestroy \/ UnmarkDestroy
    BY <2>1, WorkKeepsBytes
  <2>2. CASE \/ DeleteRows \/ EraseBytes \/ PutImportedBytes \/ ReplaceRows \/ MovePagesAway
             \/ InstallPages \/ TidyPages \/ DropOldBytes \/ ClearTables \/ WipeFiles
    BY <2>2, ErasuresKeepBytes
  <2>3. CASE \/ ResumeImport \/ ResumeDeletion \/ AdoptDeletion \/ RepeatDeletion \/ SweepBytes
             \/ Open
    BY <2>3, StartsKeepBytes
  <2> QED BY <1>2, <2>1, <2>2, <2>3 DEF WorkAction
<1>3. CASE FailStep
  BY <1>3, FaultsExcuse DEF FailStep, OperationsAreSound, VaultTyped
<1>4. CASE \E r \in Requests : Admit(r) \/ HandlerAction(r) \/ GiveUp(r) \/ FailUpload(r)
  BY <1>4, RequestsKeepBytes
<1>5. CASE \/ StartSnapshot \/ ReadSnapshot \/ PublishSnapshot
           \/ (\E i \in Items : PublishPage(i)) \/ UNCHANGED vaultVars
  BY <1>5, StartsKeepBytes
<1>6. CASE Crash \/ FailStart \/ Quit \/ Boot
  BY <1>6, StartsKeepBytes
<1> QED BY <1>2, <1>3, <1>4, <1>5, <1>6 DEF VaultNext, SnapshotAction

-----------------------------------------------------------------------------
(* What a request does is done once                                          *)

\* The phases of a row that count for the effects are what they were.
DeletionsKept ==
  /\ \A k \in DOMAIN deletions : deletions[k].phase = "database_complete" =>
       \/ deletions[k].req \in keys
       \/ /\ k \in DOMAIN deletions' /\ deletions'[k].phase = "database_complete"
          /\ deletions'[k].req = deletions[k].req
  /\ \A k \in DOMAIN deletions' :
       /\ deletions'[k].phase = "database_complete" =>
            /\ k \in DOMAIN deletions /\ deletions[k].phase = "database_complete"
            /\ deletions'[k].req = deletions[k].req
       /\ deletions'[k].phase \in {"prepared", "database_complete"} =>
            \/ deletions'[k].req \notin keys
            \/ /\ k \in DOMAIN deletions /\ OpenDeletion(k)
               /\ deletions'[k].req = deletions[k].req /\ deletions'[k].item = deletions[k].item
ImportsKept == \A r \in Requests : Committed(r)' <=> Committed(r)
EffectsKept == DeletionsKept /\ ImportsKept

\* Journals that do not change keep the effects.
LEMMA SameEffects == ASSUME Same PROVE EffectsKept
  BY DEF Same, JournalVars, EffectsKept, DeletionsKept, ImportsKept, Committed, OpenDeletion

\* A step that neither commits nor remembers keeps effects and journals in agreement.
LEMMA JournalEffectsStay ==
  ASSUME JournalEffects, want' = want, UNCHANGED <<commits, keys>>, rows' \subseteq rows,
         EffectsKept, staged' \subseteq staged,
         marker # NoRequest => marker' # NoRequest \/ staged' = {}
  PROVE  JournalEffects'
<1>1. \A r : KindOf(r)' = KindOf(r)
  BY SameRequests
<1>2. \A r \in Requests : KindOf(r) = "delete" /\ commits[r] = 1 /\ r \notin keys =>
        \E k \in DOMAIN deletions' :
          deletions'[k].req = r /\ deletions'[k].phase = "database_complete"
  BY DEF JournalEffects, EffectsKept, DeletionsKept
<1>3. \A k \in DOMAIN deletions' :
        /\ deletions'[k].phase = "database_complete" => commits[deletions'[k].req] = 1
        /\ OpenDeletion(k)' /\ deletions'[k].item \in rows' => deletions'[k].req \notin keys
  BY DEF JournalEffects, EffectsKept, DeletionsKept, OpenDeletion
<1>4. \A r \in Requests :
        /\ KindOf(r) = "import" /\ commits[r] = 1 =>
             Committed(r)' \/ r \notin staged' \/ marker' # NoRequest
        /\ KindOf(r) = "import" /\ Committed(r)' => commits[r] = 1
  BY DEF JournalEffects, EffectsKept, ImportsKept
<1> QED BY <1>1, <1>2, <1>3, <1>4 DEF JournalEffects

\* An import that moves on within its commit, or before it, keeps the effects, ...
LEMMA ImportMoved ==
  ASSUME OperationsAreSound, NEW k, NEW phase, ImportBecomes(k, phase),
         LET done == {"database_complete", "files_complete", "complete"}
         IN imports[k].phase \in done <=> phase \in done
  PROVE  ImportsKept
  BY DEF ImportBecomes, ImportsKept, Committed

\* ... and so does a deletion that ends answered or uncommitted.
LEMMA DeletionEnds ==
  ASSUME OperationsAreSound, NEW k, NEW phase \in {"complete", "failed"}, NEW freed,
         DeletionBecomes(k, phase, freed),
         deletions[k].phase = "prepared" \/ deletions[k].req \in keys
  PROVE  DeletionsKept
  BY DEF DeletionBecomes, DeletionsKept, OpenDeletion

\* A table that does not change keeps the effects.
LEMMA SameKept ==
  /\ deletions' = deletions => DeletionsKept
  /\ imports' = imports => ImportsKept
  BY DEF DeletionsKept, ImportsKept, Committed, OpenDeletion

\* A step of an operation leaves no request waiting.
LEMMA EndKeepsKeys ==
  ASSUME OperationsAreSound, ~Resting \/ server # "open",
         \A r \in Requests : at'[r] = at[r] \/ at'[r] = "idle"
  PROVE  GateEffects'
<1>1. \A r \in Requests : at[r] \in {"idle", "working"}
  BY WorkIsAlone, StartIsAlone DEF OperationsAreSound
<1> QED BY <1>1 DEF GateEffects

\* A request waits only after it found itself unanswered.
LEMMA KeysStay ==
  ASSUME GateEffects, keys' = keys,
         \A r \in Requests : \/ at'[r] = at[r] \/ at'[r] \in {"idle", "admitted", "working"}
                             \/ at[r] \in {"draining", "waiting"} \/ r \notin keys
  PROVE  GateEffects'
  BY DEF GateEffects

\* Only some steps say anything about what was done.
LEMMA OtherStepsHaveNoEffects ==
  ASSUME \/ work'.step \notin {"prepare", "delete", "complete", "save", "stage", "put", "replace",
                               "scrub", "recopy", "remember", "unmark"}
         \/ WorkEffects /\ UNCHANGED <<work, want, commits, keys, staged>>
  PROVE  WorkEffects'
<1>1. CASE work'.step \notin {"prepare", "delete", "complete", "save", "stage", "put", "replace",
                              "scrub", "recopy", "remember", "unmark"}
  BY <1>1 DEF WorkEffects
<1>2. CASE WorkEffects /\ UNCHANGED <<work, want, commits, keys, staged>>
  <2>1. \A kind : Doing(kind)' <=> Doing(kind)
    BY <1>2, SameRequests
  <2> QED BY <1>2, <2>1 DEF WorkEffects
<1> QED BY <1>1, <1>2

\* What was not committed once was not committed.
LEMMA CommitsBegin ==
  ASSUME OperationsAreSound, JournalEffects, NEW r \in Requests, commits[r] # 1
  PROVE  commits[r] = 0
<1>1. commits[r] \in Nat /\ commits[r] <= 1
  BY DEF OperationsAreSound, VaultTyped, JournalEffects
<1> QED BY <1>1

\* An upload commits and remembers at once; an operation begins undone.
LEMMA RequestsKeepEffects ==
  ASSUME OperationsAreSound, EffectsAreSound, NEW r \in Requests,
         Admit(r) \/ HandlerAction(r) \/ GiveUp(r) \/ FailUpload(r)
  PROVE  EffectsAreSound'
<1> VaultTyped /\ JournalEffects /\ GateEffects /\ WorkEffects
  BY DEF OperationsAreSound, EffectsAreSound
<1>1. Same /\ staged' = staged
  BY DEF HandlerAction, Same, JournalVars, journal, client, Admit, AnswerAgain, Refuse,
         BeginExclusive, Lock, GiveUp, StartWork, PutUpload, InsertUpload, FailUpload, Respond
<1>2. CASE ~InsertUpload(r)
  <2>1. UNCHANGED <<commits, keys, rows>>
    BY <1>2 DEF HandlerAction, store, ghosts, journal, Admit, AnswerAgain, Refuse, BeginExclusive,
       Lock, GiveUp, StartWork, PutUpload, FailUpload
  <2>2. JournalEffects'
    BY <1>1, <2>1, SameEffects, JournalEffectsStay DEF Same, JournalVars
  <2>3. GateEffects'
    <3>1. \A q \in Requests : \/ at'[q] = at[q] \/ at'[q] \in {"idle", "admitted", "working"}
                              \/ at[q] \in {"draining", "waiting"} \/ q \notin keys
      BY <1>2 DEF HandlerAction, Admit, AnswerAgain, Refuse, BeginExclusive, Lock, GiveUp,
         StartWork, PutUpload, FailUpload, Respond, VaultTyped
    <3> QED BY <2>1, <3>1, KeysStay
  <2>4. WorkEffects'
    <3>1. CASE StartWork(r)
      <4>1. /\ at[r] = "waiting" /\ work'.req = r /\ work'.step = FirstStep[KindOf(r)]
        BY <3>1 DEF StartWork, NoWork
      <4>2. KindOf(r) \in {"delete", "import", "destroy"}
        BY <4>1, WhatIsAsked DEF OperationsAreSound, GateIsSound, VaultTyped
      <4>3. r \notin keys /\ NoneOpen
        BY <4>1, PutsAreAlone DEF GateEffects
      <4>4. CASE KindOf(r) = "delete"
        <5>1. work'.step = "prepare"
          BY <4>1, <4>4 DEF FirstStep
        <5>2. commits[r] = 0
          BY <4>3, <4>4, CommitsBegin DEF JournalEffects, NoneOpen, OpenDeletion
        <5> QED BY <2>1, <4>1, <4>3, <5>1, <5>2 DEF WorkEffects
      <4>5. CASE KindOf(r) # "delete"
        <5>1. work'.step \in {"claim", "mark"}
          BY <4>1, <4>2, <4>5 DEF FirstStep
        <5> QED BY <5>1, OtherStepsHaveNoEffects
      <4> QED BY <4>4, <4>5
    <3>2. CASE ~StartWork(r)
      <4>1. UNCHANGED work
        BY <1>2, <3>2 DEF HandlerAction, Admit, AnswerAgain, Refuse, BeginExclusive, Lock, GiveUp,
           PutUpload, FailUpload
      <4> QED BY <1>1, <2>1, <4>1, OtherStepsHaveNoEffects DEF Same
    <3> QED BY <3>1, <3>2
  <2> QED BY <2>2, <2>3, <2>4 DEF EffectsAreSound
<1>3. CASE InsertUpload(r)
  <2>1. /\ at[r] = "put" /\ at' = [at EXCEPT ![r] = "idle"] /\ keys' = keys \cup {r}
        /\ commits' = [commits EXCEPT ![r] = @ + 1] /\ work' = work
    BY <1>3 DEF InsertUpload, Respond
  <2>2. work.step = "none" /\ NoneOpen /\ KindOf(r) = "upload"
    BY <2>1, PutsAreAlone DEF OperationsAreSound, GateIsSound
  <2>3. r \notin keys /\ commits[r] = 0
    BY <2>1, <2>2 DEF GateEffects, JournalEffects
  <2>4. commits'[r] = 1 /\ \A q \in Requests : q # r => commits'[q] = commits[q]
    BY <2>1, <2>3 DEF VaultTyped
  <2>5. /\ \A q : KindOf(q)' = KindOf(q) /\ OpenDeletion(q)' = OpenDeletion(q)
        /\ \A q : Committed(q)' = Committed(q)
        /\ UNCHANGED <<deletions, imports, marker>>
    BY <1>1, SameRequests DEF Same, JournalVars, OpenDeletion, Committed
  <2>6. JournalEffects'
    <3>1. \A k \in DOMAIN deletions : ~OpenDeletion(k) /\ deletions[k].phase # "database_complete"
      BY <2>2 DEF NoneOpen, OpenDeletion
    <3>2. \A q \in Requests : /\ commits'[q] <= 1
                              /\ q \in keys' /\ KindOf(q) # "destroy" => commits'[q] = 1
                              /\ KindOf(q) = "upload" /\ q \notin keys' => commits'[q] = 0
      BY <2>1, <2>4 DEF JournalEffects
    <3>3. \A q \in Requests : ~(KindOf(q) = "delete" /\ commits'[q] = 1 /\ q \notin keys')
      BY <2>1, <2>2, <2>4, <3>1 DEF JournalEffects
    <3>4. \A q \in Requests : KindOf(q) = "import" =>
            /\ commits'[q] = 1 => Committed(q) \/ q \notin staged \/ marker # NoRequest
            /\ Committed(q) => commits'[q] = 1
      BY <2>2, <2>4 DEF JournalEffects
    <3> QED BY <1>1, <2>5, <3>1, <3>2, <3>3, <3>4 DEF JournalEffects
  <2>7. GateEffects'
    BY <2>1 DEF GateEffects, VaultTyped
  <2>8. WorkEffects'
    BY <2>1, <2>2, OtherStepsHaveNoEffects
  <2> QED BY <2>6, <2>7, <2>8 DEF EffectsAreSound
<1> QED BY <1>2, <1>3

\* The steps that neither commit nor remember anything, one table at a time.
LEMMA DeletionsKeepEffects ==
  ASSUME OperationsAreSound, EffectsAreSound,
         \/ PrepareDeletion \/ SupersedeDeletion \/ CompleteDeletion \/ AdoptDeletion
         \/ FailDeletion
  PROVE  DeletionsKept
<1> JournalEffects /\ GateEffects /\ WorkEffects
  BY DEF EffectsAreSound
<1>1. CASE PrepareDeletion
  <2> DEFINE n == Len(deletions) + 1
  <2>1. /\ n \notin DOMAIN deletions /\ DOMAIN deletions' = DOMAIN deletions \cup {n}
        /\ \A k \in DOMAIN deletions : deletions'[k] = deletions[k]
        /\ deletions'[n].phase = "prepared" /\ deletions'[n].req = work.req
    BY <1>1, PreparedRow
  <2>2. work.req \notin keys
    BY <1>1 DEF PrepareDeletion, At, WorkEffects
  <2> HIDE DEF n
  <2> QED BY <2>1, <2>2 DEF DeletionsKept, OpenDeletion
<1>2. CASE SupersedeDeletion
  BY <1>2, SupersededRow, DeletionEnds
<1>3. CASE CompleteDeletion
  <2>1. /\ RowOfDeletion("database_complete")
        /\ DeletionBecomes(work.row, "complete", deletions[work.row].freed)
    BY <1>3, CompletedRow
  <2>2. work.req \in keys
    BY <1>3 DEF CompleteDeletion, At, WorkEffects
  <2> QED BY <2>1, <2>2, DeletionEnds DEF RowOfDeletion
<1>4. CASE AdoptDeletion
  BY <1>4, AdoptedRow, DeletionEnds
<1>5. CASE FailDeletion
  <2>1. /\ RowOfDeletion("prepared")
        /\ DeletionBecomes(work.row, "failed", deletions[work.row].freed)
    BY <1>5, FailedRow
  <2> QED BY <2>1, DeletionEnds DEF RowOfDeletion
<1> QED BY <1>1, <1>2, <1>3, <1>4, <1>5

\* The same of imports.
LEMMA ImportsKeepEffects ==
  ASSUME OperationsAreSound, StageImport \/ TidyPages \/ RollBackImport
  PROVE  ImportsKept
<1>1. CASE StageImport
  <2> DEFINE n == Len(imports) + 1
  <2>1. /\ n \notin DOMAIN imports /\ DOMAIN imports' = DOMAIN imports \cup {n}
        /\ \A k \in DOMAIN imports : imports'[k] = imports[k]
        /\ imports'[n].phase = "prepared"
    BY <1>1, StagedRow
  <2> HIDE DEF n
  <2> QED BY <2>1 DEF ImportsKept, Committed
<1>2. CASE TidyPages
  BY <1>2, TidiedRow, ImportMoved DEF RowOfImport
<1>3. CASE RollBackImport
  BY <1>3, RolledBackRow, ImportMoved DEF RowOfImport
<1> QED BY <1>1, <1>2, <1>3

DeletionEffects == PrepareDeletion \/ SupersedeDeletion \/ CompleteDeletion \/ AdoptDeletion
ImportEffects == StageImport \/ TidyPages \/ RollBackImport
NoEffects ==
  \/ EraseBytes \/ UnpublishPages \/ ScrubBackups \/ CopyAfterDeletion
  \/ ClaimImport \/ SaveBeforeImport \/ PutImportedBytes \/ MovePagesAway \/ InstallPages
  \/ DropOldBytes \/ MarkDestroy \/ WipeFiles \/ UnmarkDestroy
  \/ ResumeImport \/ ResumeDeletion \/ RepeatDeletion \/ SweepBytes \/ Open
FailedEffects ==
  /\ FailBeforeCommit \/ FailDeletion \/ FailImport \/ FailAfterCommit
  /\ UNCHANGED commits

\* They keep effects and journals in agreement.
LEMMA QuietStepsKeepJournals ==
  ASSUME OperationsAreSound, EffectsAreSound,
         DeletionEffects \/ ImportEffects \/ NoEffects \/ FailedEffects
  PROVE  JournalEffects'
<1> JournalEffects /\ GateEffects /\ WorkEffects /\ VaultTyped
  BY DEF EffectsAreSound, OperationsAreSound
<1>1. UNCHANGED <<want, commits, keys, rows>> /\ staged' \subseteq staged
  <2>1. CASE DeletionEffects
    BY <2>1 DEF DeletionEffects, PrepareDeletion, SupersedeDeletion, CompleteDeletion,
       AdoptDeletion, EndWork, store, WorkStep, client, ghosts
  <2>2. CASE ImportEffects
    BY <2>2 DEF ImportEffects, StageImport, TidyPages, RollBackImport, EndWork, store, WorkStep,
       client, ghosts
  <2>3. CASE NoEffects
    BY <2>3 DEF NoEffects, EraseBytes, UnpublishPages, ScrubBackups, CopyAfterDeletion,
       ClaimImport, SaveBeforeImport, PutImportedBytes, MovePagesAway, InstallPages,
       DropOldBytes, MarkDestroy, WipeFiles, UnmarkDestroy, ResumeImport, ResumeDeletion,
       RepeatDeletion, SweepBytes, Open, EndWork, store, WorkStep, client, ghosts, journal
  <2>4. CASE FailedEffects
    BY <2>4 DEF FailedEffects, FailBeforeCommit, FailDeletion, FailImport, FailAfterCommit,
       EndWork, store, client, journal
  <2> QED BY <2>1, <2>2, <2>3, <2>4
<1>2. marker # NoRequest => marker' # NoRequest \/ staged' = {}
  <2>1. CASE MarkDestroy
    BY <2>1, OwnRequest, NoRequestAssumption DEF MarkDestroy, At, Doing
  <2>2. CASE UnmarkDestroy
    <3>1. staged = {} /\ staged' = staged
      BY <2>2, OwnRequest DEF UnmarkDestroy, At, WorkEffects
    <3> QED BY <3>1
  <2>3. CASE ~MarkDestroy /\ ~UnmarkDestroy
    <3>1. marker' = marker
      BY <2>3 DEF DeletionEffects, PrepareDeletion, SupersedeDeletion, CompleteDeletion,
         AdoptDeletion, ImportEffects, StageImport, TidyPages, RollBackImport,
         NoEffects, EraseBytes, UnpublishPages, ScrubBackups, CopyAfterDeletion,
         ClaimImport, SaveBeforeImport, PutImportedBytes, MovePagesAway, InstallPages,
         DropOldBytes, WipeFiles, ResumeImport, ResumeDeletion,
         RepeatDeletion, SweepBytes, Open, journal,
         FailedEffects, FailBeforeCommit, FailDeletion, FailImport, FailAfterCommit
    <3> QED BY <3>1
  <2> QED BY <2>1, <2>2, <2>3
<1>3. DeletionsKept
  <2>1. CASE DeletionEffects
    BY <2>1, DeletionsKeepEffects DEF DeletionEffects
  <2>2. CASE FailedEffects
    <3>1. CASE FailDeletion
      BY <3>1, DeletionsKeepEffects
    <3>2. CASE ~FailDeletion
      BY <2>2, <3>2, SameKept DEF FailedEffects, FailBeforeCommit, FailImport, FailAfterCommit,
         journal
    <3> QED BY <3>1, <3>2
  <2>3. CASE ImportEffects \/ NoEffects
    <3>1. deletions' = deletions
      BY <2>3 DEF ImportEffects, StageImport, TidyPages, RollBackImport,
         NoEffects, EraseBytes, UnpublishPages, ScrubBackups, CopyAfterDeletion,
         ClaimImport, SaveBeforeImport, PutImportedBytes, MovePagesAway, InstallPages,
         DropOldBytes, MarkDestroy, WipeFiles, UnmarkDestroy, ResumeImport, ResumeDeletion,
         RepeatDeletion, SweepBytes, Open, journal
    <3> QED BY <3>1, SameKept
  <2> QED BY <2>1, <2>2, <2>3
<1>4. ImportsKept
  <2>1. CASE ImportEffects
    BY <2>1, ImportsKeepEffects DEF ImportEffects
  <2>2. CASE DeletionEffects \/ NoEffects \/ FailedEffects
    <3>1. imports' = imports
      BY <2>2 DEF DeletionEffects, PrepareDeletion, SupersedeDeletion, CompleteDeletion,
         AdoptDeletion,
         NoEffects, EraseBytes, UnpublishPages, ScrubBackups, CopyAfterDeletion,
         ClaimImport, SaveBeforeImport, PutImportedBytes, MovePagesAway, InstallPages,
         DropOldBytes, MarkDestroy, WipeFiles, UnmarkDestroy, ResumeImport, ResumeDeletion,
         RepeatDeletion, SweepBytes, Open, journal,
         FailedEffects, FailBeforeCommit, FailDeletion, FailImport, FailAfterCommit
    <3> QED BY <3>1, SameKept
  <2> QED BY <2>1, <2>2
<1> QED BY <1>1, <1>2, <1>3, <1>4, JournalEffectsStay DEF EffectsKept

\* What each of these steps begins has not been done, and what it ends has.
LEMMA QuietStepsKeepWork ==
  ASSUME OperationsAreSound, StoreIsSound, EffectsAreSound,
         DeletionEffects \/ ImportEffects \/ NoEffects \/ FailedEffects
  PROVE  WorkEffects'
<1> JournalEffects /\ GateEffects /\ WorkEffects /\ VaultTyped /\ work \in Work
  BY DEF EffectsAreSound, OperationsAreSound, VaultTyped
<1>0. UNCHANGED <<want, commits, keys>>
  <2>1. CASE DeletionEffects
    BY <2>1 DEF DeletionEffects, PrepareDeletion, SupersedeDeletion, CompleteDeletion,
       AdoptDeletion, EndWork, store, WorkStep, client, ghosts
  <2>2. CASE ImportEffects
    BY <2>2 DEF ImportEffects, StageImport, TidyPages, RollBackImport, EndWork, store, WorkStep,
       client, ghosts
  <2>3. CASE NoEffects
    BY <2>3 DEF NoEffects, EraseBytes, UnpublishPages, ScrubBackups, CopyAfterDeletion,
       ClaimImport, SaveBeforeImport, PutImportedBytes, MovePagesAway, InstallPages,
       DropOldBytes, MarkDestroy, WipeFiles, UnmarkDestroy, ResumeImport, ResumeDeletion,
       RepeatDeletion, SweepBytes, Open, EndWork, store, WorkStep, client, ghosts, journal
  <2>4. CASE FailedEffects
    BY <2>4 DEF FailedEffects, FailBeforeCommit, FailDeletion, FailImport, FailAfterCommit,
       EndWork, store, client, journal
  <2> QED BY <2>1, <2>2, <2>3, <2>4
<1>e. CASE \E success : EndWork(success)
  <2>1. work'.step \in {"none", "resume"}
    <3>1. work' = NoWork \/ work' = [NoWork EXCEPT !.step = "resume"]
      BY <1>e, EndOfWork
    <3> QED BY <3>1 DEF NoWork
  <2> QED BY <2>1, OtherStepsHaveNoEffects
<1>1. CASE PrepareDeletion
  <2>1. work.step = "prepare" /\ work'.step = "delete" /\ work'.req = work.req
    BY <1>1 DEF PrepareDeletion, At, Work
  <2> QED BY <1>0, <2>1 DEF WorkEffects
<1>2. CASE SupersedeDeletion \/ AdoptDeletion \/ ResumeDeletion
  <2>1. work'.step \in {"erase", "resume"}
    <3>1. CASE SupersedeDeletion
      BY <3>1, SupersededRow
    <3>2. CASE AdoptDeletion
      BY <3>2, AdoptedRow
    <3>3. CASE ResumeDeletion
      BY <3>3, DeletionResumed DEF ResumeDeletion, At, Work
    <3> QED BY <1>2, <3>1, <3>2, <3>3
  <2> QED BY <2>1, OtherStepsHaveNoEffects
<1>3. CASE ClaimImport
  <2>1. CASE EndWork(FALSE)
    BY <1>e, <2>1
  <2>2. CASE ~EndWork(FALSE)
    <3>1. /\ work.step = "claim" /\ work'.req = work.req
          /\ \/ work'.step = "stuck"
             \/ /\ work'.step = "save" /\ work.req \in staged
                /\ \A k \in ImportsOf(work.req) : imports[k].phase # "complete"
      BY <1>3, <2>2 DEF ClaimImport, At, Step, Work
    <3>2. CASE work'.step = "save"
      <4>1. Doing("import") /\ marker = NoRequest /\ server = "open" /\ ~Resting
        BY <3>1, OwnRequest, NotMarked DEF OperationsAreSound, WorkIsSound, Resting
      <4>2. work.row = 0
        BY <3>1 DEF OperationsAreSound, WorkIsSound
      <4>3. \A k \in DOMAIN imports : ~OpenImport(k)
        BY <3>1, <4>1, <4>2 DEF OperationsAreSound, JournalIsSound, VaultTyped, JournalTyped
      <4>4. ~Committed(work.req)
        BY <3>1, <3>2, <4>3 DEF Committed, OpenImport, ImportsOf
      <4>5. commits[work.req] = 0
        BY <3>1, <3>2, <4>1, <4>4, CommitsBegin DEF JournalEffects, Doing
      <4> QED BY <1>0, <3>1, <3>2, <4>5 DEF WorkEffects
    <3> QED BY <3>1, <3>2, OtherStepsHaveNoEffects
  <2> QED BY <2>1, <2>2
<1>4. CASE SaveBeforeImport \/ StageImport \/ PutImportedBytes
  <2>1. /\ work.step \in {"save", "stage", "put"} /\ work'.step \in {"stage", "put", "replace"}
        /\ work'.req = work.req
    BY <1>4 DEF SaveBeforeImport, StageImport, PutImportedBytes, At, Step, Work
  <2> QED BY <1>0, <2>1 DEF WorkEffects
<1>5. CASE \/ EraseBytes \/ TidyPages \/ MovePagesAway \/ InstallPages \/ DropOldBytes
           \/ MarkDestroy \/ SweepBytes
  <2>1. work'.step \in {"unpublish", "drop", "install", "tidy", "publish", "clear", "unlock"}
    BY <1>5 DEF EraseBytes, TidyPages, MovePagesAway, InstallPages, DropOldBytes, MarkDestroy,
       SweepBytes, Step, Work
  <2> QED BY <2>1, OtherStepsHaveNoEffects
<1>6. CASE UnpublishPages \/ ScrubBackups \/ CopyAfterDeletion \/ WipeFiles
  <2>1. /\ work.step \in {"unpublish", "scrub", "recopy", "wipe"}
        /\ work'.step \in {"scrub", "recopy", "remember"} /\ work'.req = work.req
        /\ work.step = "wipe" \/ staged' = staged
        /\ work.step = "wipe" => staged' = {}
    BY <1>6 DEF UnpublishPages, ScrubBackups, CopyAfterDeletion, WipeFiles, At, Step, Work,
       journal
  <2>2. Doing("destroy")' <=> Doing("destroy")
    BY <1>0, <2>1, SameRequests
  <2>3. Doing("destroy") => work.step # "unpublish"
    BY OwnRequest
  <2> QED BY <1>0, <2>1, <2>2, <2>3 DEF WorkEffects
<1>7. CASE ResumeImport
  <2>1. work'.step \in {"rollback", "away", "drop"}
    BY <1>7, ImportResumed DEF OpenImport
  <2> QED BY <2>1, OtherStepsHaveNoEffects
<1>8. CASE RepeatDeletion
  <2>1. PICK k \in OpenDeletions :
          /\ deletions[k].phase = "prepared" /\ deletions[k].item \in rows
          /\ work' = [work EXCEPT !.step = "prepare", !.req = deletions[k].req, !.older = k]
    BY <1>8 DEF RepeatDeletion
  <2>2. k \in DOMAIN deletions /\ OpenDeletion(k)
    BY <2>1 DEF OpenDeletions, FirstIn, OpenDeletion
  <2>3. PICK r \in Requests : r = deletions[k].req
    <3>1. deletions[k] \in Deletion
      BY <2>2 DEF VaultTyped, JournalTyped
    <3> QED BY <3>1 DEF Deletion
  <2>4. KindOf(r) = "delete" /\ deletions[k].item = ItemOf(r)
    BY <2>2, <2>3 DEF VaultTyped, JournalTyped
  <2>5. r \notin keys
    BY <2>1, <2>2, <2>3 DEF JournalEffects
  <2>6. \A j \in DOMAIN deletions :
          ~(deletions[j].req = r /\ deletions[j].phase = "database_complete")
    BY <2>1, <2>4 DEF StoreIsSound, VaultTyped, JournalTyped
  <2>7. commits[r] = 0
    BY <2>4, <2>5, <2>6, CommitsBegin DEF JournalEffects
  <2>8. work'.step = "prepare" /\ work'.req = r
    BY <2>1, <2>3 DEF Work
  <2> QED BY <1>0, <2>5, <2>7, <2>8 DEF WorkEffects
<1>9. CASE Open
  <2>1. work'.step = "none"
    BY <1>9 DEF Open, NoWork
  <2> QED BY <2>1, OtherStepsHaveNoEffects
<1>10. CASE FailImport \/ FailAfterCommit
  <2>1. work'.step \in {"rollback", "stuck"}
    BY <1>10 DEF FailImport, FailAfterCommit, Step, Work
  <2> QED BY <2>1, OtherStepsHaveNoEffects
<1>11. CASE CompleteDeletion \/ RollBackImport \/ UnmarkDestroy \/ FailBeforeCommit \/ FailDeletion
  BY <1>e, <1>11 DEF CompleteDeletion, RollBackImport, UnmarkDestroy, FailBeforeCommit,
     FailDeletion
<1> QED BY <1>1, <1>2, <1>3, <1>4, <1>5, <1>6, <1>7, <1>8, <1>9, <1>10, <1>11
        DEF DeletionEffects, ImportEffects, NoEffects, FailedEffects

\* The steps that commit: the rows of a deletion, those of an import, a destruction.
LEMMA CommitsKeepEffects ==
  ASSUME OperationsAreSound, StoreIsSound, EffectsAreSound,
         DeleteRows \/ ReplaceRows \/ ClearTables
  PROVE  JournalEffects' /\ WorkEffects'
<1> JournalEffects /\ GateEffects /\ WorkEffects /\ VaultTyped /\ work \in Work /\ JournalTyped
  BY DEF EffectsAreSound, OperationsAreSound, VaultTyped
<1>1. CASE DeleteRows
  <2>1. PICK i : i = ItemOf(work.req)
    OBVIOUS
  <2>2. /\ Doing("delete") /\ RowOfDeletion("prepared")
        /\ DeletionBecomes(work.row, "database_complete", UnsharedBytesOf(i, rows \ {i}))
        /\ UNCHANGED <<want, imports, marker>>
        /\ work'.step \in {"erase", "supersede"}
    BY <1>1, <2>1, DeletedRow DEF OlderRow
  <2>3. PICK r \in Requests : r = work.req
    BY <2>2 DEF Doing
  <2>4. /\ work.step = "delete" /\ rows' = rows \ {i} /\ UNCHANGED <<keys, staged>>
        /\ commits' = [commits EXCEPT ![r] = @ + 1]
    BY <1>1, <2>1, <2>3 DEF DeleteRows, At
  <2>5. r \notin keys /\ commits[r] = 0 /\ KindOf(r) = "delete"
    BY <2>2, <2>3, <2>4 DEF WorkEffects, Doing
  <2>6. commits'[r] = 1 /\ \A q \in Requests : q # r => commits'[q] = commits[q]
    BY <2>4, <2>5 DEF VaultTyped
  <2>7. PICK n \in DOMAIN deletions : n = work.row
    BY <2>2 DEF RowOfDeletion
  <2>8. /\ DOMAIN deletions' = DOMAIN deletions /\ deletions'[n].req = r
        /\ deletions'[n].phase = "database_complete" /\ deletions[n].phase = "prepared"
        /\ \A k \in DOMAIN deletions : /\ k # n => deletions'[k] = deletions[k]
                                       /\ deletions'[k].req = deletions[k].req
                                       /\ deletions'[k].item = deletions[k].item
    BY <2>2, <2>3, <2>7 DEF DeletionBecomes, RowOfDeletion
  <2>9. \A q : KindOf(q)' = KindOf(q) /\ Committed(q)' = Committed(q)
    BY <2>2, SameRequests DEF Committed
  <2>10. \A q \in Requests : /\ commits'[q] <= 1
                             /\ q \in keys /\ KindOf(q) # "destroy" => commits'[q] = 1
                             /\ KindOf(q) = "upload" /\ q \notin keys => commits'[q] = 0
    BY <2>5, <2>6 DEF JournalEffects
  <2>11. \A q \in Requests : KindOf(q) = "delete" /\ commits'[q] = 1 /\ q \notin keys =>
           \E k \in DOMAIN deletions' :
             deletions'[k].req = q /\ deletions'[k].phase = "database_complete"
    <3> TAKE q \in Requests
    <3>1. CASE q = r
      BY <2>8, <3>1
    <3>2. CASE q # r
      BY <2>6, <2>8, <3>2 DEF JournalEffects
    <3> QED BY <3>1, <3>2
  <2>12. \A k \in DOMAIN deletions' :
           /\ deletions'[k].phase = "database_complete" => commits'[deletions'[k].req] = 1
           /\ OpenDeletion(k)' /\ deletions'[k].item \in rows' => deletions'[k].req \notin keys
    <3> TAKE k \in DOMAIN deletions'
    <3>1. deletions[k] \in Deletion
      BY <2>8 DEF JournalTyped
    <3>2. deletions[k].req \in Requests
      BY <3>1 DEF Deletion
    <3>3. CASE k = n
      BY <2>5, <2>6, <2>8, <3>3
    <3>4. CASE k # n
      BY <2>4, <2>6, <2>8, <3>2, <3>4 DEF JournalEffects, OpenDeletion
    <3> QED BY <3>3, <3>4
  <2>13. \A q \in Requests : KindOf(q) = "import" =>
            /\ commits'[q] = 1 => Committed(q) \/ q \notin staged \/ marker # NoRequest
            /\ Committed(q) => commits'[q] = 1
    BY <2>5, <2>6 DEF JournalEffects
  <2>14. JournalEffects'
    BY <2>2, <2>4, <2>9, <2>10, <2>11, <2>12, <2>13 DEF JournalEffects
  <2>15. WorkEffects'
    BY <2>2, OtherStepsHaveNoEffects
  <2> QED BY <2>14, <2>15
<1>2. CASE ReplaceRows
  <2>1. /\ Doing("import") /\ RowOfImport("prepared")
        /\ ImportBecomes(work.row, "database_complete")
        /\ DOMAIN deletions' = {} /\ UNCHANGED <<want, marker>> /\ work'.step = "away"
    BY <1>2, ReplacedRow
  <2>2. PICK r \in Requests : r = work.req
    BY <2>1 DEF Doing
  <2>3. /\ work.step = "replace" /\ keys' = {} /\ staged' = staged
        /\ commits' = [CommitsForgotten EXCEPT ![r] = @ + 1]
    BY <1>2, <2>2 DEF ReplaceRows, At
  <2>4. commits[r] = 0 /\ KindOf(r) = "import"
    BY <2>1, <2>2, <2>3 DEF WorkEffects, Doing
  <2>5. /\ commits'[r] = 1
        /\ \A q \in Requests : q # r => commits'[q] = IF KindOf(q) = "import" THEN commits[q] ELSE 0
    BY <2>3, <2>4 DEF VaultTyped, CommitsForgotten
  <2>6. \A q : KindOf(q)' = KindOf(q)
    BY <2>1, SameRequests
  <2>7. \A q \in Requests : Committed(q)' <=> Committed(q) \/ q = r
    BY <2>1, <2>2 DEF Committed, ImportBecomes, RowOfImport
  <2>8. \A q \in Requests : /\ commits'[q] <= 1
                            /\ KindOf(q) = "upload" => commits'[q] = 0
                            /\ KindOf(q) = "delete" => commits'[q] = 0
    BY <2>4, <2>5 DEF JournalEffects
  <2>9. \A q \in Requests : KindOf(q) = "import" =>
            /\ commits'[q] = 1 => Committed(q)' \/ q \notin staged \/ marker # NoRequest
            /\ Committed(q)' => commits'[q] = 1
    BY <2>5, <2>7 DEF JournalEffects
  <2>10. JournalEffects'
    BY <2>1, <2>3, <2>6, <2>8, <2>9 DEF JournalEffects
  <2>11. WorkEffects'
    BY <2>1, OtherStepsHaveNoEffects
  <2> QED BY <2>10, <2>11
<1>3. CASE ClearTables
  <2>1. /\ Doing("destroy") /\ marker = work.req /\ UNCHANGED <<want, marker>>
        /\ DOMAIN deletions' = {} /\ DOMAIN imports' = {} /\ work'.step = "wipe"
    BY <1>3, ClearedRows
  <2>2. keys' = {} /\ commits' = CommitsForgotten
    BY <1>3 DEF ClearTables
  <2>3. \A q \in Requests : commits'[q] = IF KindOf(q) = "import" THEN commits[q] ELSE 0
    BY <2>2 DEF CommitsForgotten
  <2>4. marker # NoRequest
    BY <2>1, NoRequestAssumption DEF Doing
  <2>5. (\A q : KindOf(q)' = KindOf(q)) /\ \A q : ~Committed(q)'
    BY <2>1, SameRequests DEF Committed
  <2>6. \A q \in Requests : /\ commits'[q] <= 1
                            /\ KindOf(q) = "upload" => commits'[q] = 0
                            /\ KindOf(q) = "delete" => commits'[q] = 0
    BY <2>3 DEF JournalEffects
  <2>7. JournalEffects'
    BY <2>1, <2>2, <2>4, <2>5, <2>6 DEF JournalEffects
  <2>8. WorkEffects'
    BY <2>1, OtherStepsHaveNoEffects
  <2> QED BY <2>7, <2>8
<1> QED BY <1>1, <1>2, <1>3

\* The steps that remember a response: of a deletion or destruction, and of an import.
LEMMA AnswersKeepEffects ==
  ASSUME OperationsAreSound, StoreIsSound, EffectsAreSound,
         RememberResponse \/ CompleteImport
  PROVE  JournalEffects' /\ WorkEffects'
<1> JournalEffects /\ GateEffects /\ WorkEffects /\ VaultTyped /\ work \in Work /\ JournalTyped
  BY DEF EffectsAreSound, OperationsAreSound, VaultTyped
<1>1. CASE RememberResponse
  <2>1. /\ work.step = "remember"
        /\ Doing("delete") \/ Doing("destroy")
        /\ UNCHANGED <<want, commits, rows, deletions, imports, marker, staged>>
        /\ keys' = keys \cup {work.req} /\ work'.req = work.req
        /\ work'.step = IF KindOf(work.req) = "destroy" THEN "unmark" ELSE "complete"
    BY <1>1, OwnRequest DEF RememberResponse, At, Step, Work, WorkStep, client, ghosts, store
  <2>2. PICK r \in Requests : r = work.req
    BY <2>1 DEF Doing
  <2>3. KindOf(r) = "delete" => RowOfDeletion("database_complete")
    BY <2>1, <2>2 DEF OperationsAreSound, RowIsSound, Doing
  <2>4. KindOf(r) \in {"delete", "destroy"}
    BY <2>1, <2>2 DEF Doing
  <2>5. KindOf(r) = "delete" => commits[r] = 1
    BY <2>2, <2>3 DEF RowOfDeletion, JournalEffects
  <2>6. /\ \A q : KindOf(q)' = KindOf(q) /\ OpenDeletion(q)' = OpenDeletion(q)
        /\ \A q : Committed(q)' = Committed(q)
    BY <2>1, SameRequests DEF Committed, OpenDeletion
  <2>7. \A q \in Requests : q \in keys' /\ KindOf(q) # "destroy" => commits[q] = 1
    BY <2>1, <2>2, <2>4, <2>5 DEF JournalEffects
  <2>8. ASSUME NEW k \in DOMAIN deletions, OpenDeletion(k), deletions[k].item \in rows
        PROVE  deletions[k].req \notin keys'
    <3>1. CASE KindOf(r) = "delete"
      <4>1. deletions[work.row].item \notin rows /\ deletions[work.row].item = ItemOf(r)
        BY <2>2, <2>3, <3>1 DEF RowOfDeletion, StoreIsSound, JournalTyped
      <4>2. deletions[k].item = ItemOf(deletions[k].req)
        BY <2>8 DEF JournalTyped
      <4> QED BY <2>1, <2>2, <2>8, <4>1, <4>2 DEF JournalEffects
    <3>2. CASE KindOf(r) # "delete"
      BY <2>1, <2>2, <2>8, <3>2 DEF JournalEffects, JournalTyped
    <3> QED BY <3>1, <3>2
  <2>9. JournalEffects'
    <3>1. \A q \in Requests : q \in keys => q \in keys'
      BY <2>1
    <3> QED BY <2>1, <2>6, <2>7, <2>8, <3>1 DEF JournalEffects
  <2>10. WorkEffects'
    <3>1. Doing("destroy")' <=> Doing("destroy")
      BY <2>1, SameRequests
    <3>2. work.req \in keys'
      BY <2>1
    <3> QED BY <2>1, <3>1, <3>2 DEF WorkEffects
  <2> QED BY <2>9, <2>10
<1>2. CASE CompleteImport
  <2>1. /\ Doing("import") /\ RowOfImport("files_complete") /\ ImportBecomes(work.row, "complete")
        /\ EndWork(TRUE) /\ UNCHANGED <<want, deletions, marker>>
    BY <1>2, ImportedRow
  <2>2. PICK r \in Requests : r = work.req
    BY <2>1 DEF Doing
  <2>3. /\ imports[work.row].req = r /\ KindOf(r) = "import" /\ Committed(r)
    BY <2>1, <2>2 DEF RowOfImport, Doing, Committed
  <2>4. /\ keys' = keys \cup {r} /\ staged' = staged \ {r} /\ UNCHANGED <<commits, rows>>
    BY <1>2, <2>3 DEF CompleteImport, store, ghosts
  <2>5. commits[r] = 1
    BY <2>3 DEF JournalEffects
  <2>6. ImportsKept
    BY <2>1, ImportMoved DEF RowOfImport
  <2>7. \A q : KindOf(q)' = KindOf(q) /\ OpenDeletion(q)' = OpenDeletion(q)
    BY <2>1, SameRequests DEF OpenDeletion
  <2>8. \A q \in Requests : q \in keys' /\ KindOf(q) # "destroy" => commits[q] = 1
    BY <2>4, <2>5 DEF JournalEffects
  <2>9. \A k \in DOMAIN deletions :
           OpenDeletion(k) /\ deletions[k].item \in rows => deletions[k].req \notin keys'
    BY <2>3, <2>4 DEF JournalEffects, JournalTyped
  <2>10. \A q \in Requests : KindOf(q) = "import" =>
            /\ commits[q] = 1 => Committed(q)' \/ q \notin staged' \/ marker # NoRequest
            /\ Committed(q)' => commits[q] = 1
    BY <2>4, <2>6 DEF JournalEffects, ImportsKept
  <2>11. JournalEffects'
    <3>1. \A q \in Requests : q \in keys => q \in keys'
      BY <2>4
    <3> QED BY <2>1, <2>4, <2>7, <2>8, <2>9, <2>10, <3>1 DEF JournalEffects
  <2>12. WorkEffects'
    <3>1. work' = NoWork \/ work' = [NoWork EXCEPT !.step = "resume"]
      BY <2>1, EndOfWork
    <3>2. work'.step \in {"none", "resume"}
      BY <3>1 DEF NoWork
    <3> QED BY <3>2, OtherStepsHaveNoEffects
  <2> QED BY <2>11, <2>12
<1> QED BY <1>1, <1>2

\* Nobody but the request of the operation is past the gate.
LEMMA WorkKeepsGateEffects ==
  ASSUME OperationsAreSound, EffectsAreSound,
         WorkAction \/ FailBeforeCommit \/ FailDeletion \/ FailImport \/ FailAfterCommit
  PROVE  GateEffects'
<1> VaultTyped
  BY DEF OperationsAreSound
<1>1. ~Resting
  BY DEF Resting, WorkAction, PrepareDeletion, DeleteRows, SupersedeDeletion, EraseBytes,
     UnpublishPages, ScrubBackups, CopyAfterDeletion, RememberResponse, CompleteDeletion,
     ClaimImport, SaveBeforeImport, StageImport, PutImportedBytes, ReplaceRows, MovePagesAway,
     InstallPages, TidyPages, DropOldBytes, CompleteImport, RollBackImport, MarkDestroy,
     ClearTables, WipeFiles, UnmarkDestroy, ResumeImport, ResumeDeletion, AdoptDeletion,
     RepeatDeletion, SweepBytes, Open, FailBeforeCommit, FailDeletion, FailImport,
     FailAfterCommit, At
<1>2. at' = at \/ \E success : EndWork(success)
  BY DEF WorkAction, PrepareDeletion, DeleteRows, SupersedeDeletion, EraseBytes,
     UnpublishPages, ScrubBackups, CopyAfterDeletion, RememberResponse, CompleteDeletion,
     ClaimImport, SaveBeforeImport, StageImport, PutImportedBytes, ReplaceRows, MovePagesAway,
     InstallPages, TidyPages, DropOldBytes, CompleteImport, RollBackImport, MarkDestroy,
     ClearTables, WipeFiles, UnmarkDestroy, ResumeImport, ResumeDeletion, AdoptDeletion,
     RepeatDeletion, SweepBytes, Open, FailBeforeCommit, FailDeletion, FailImport,
     FailAfterCommit, WorkStep, Control, gate
<1>3. \A r \in Requests : at'[r] = at[r] \/ at'[r] = "idle"
  BY <1>1, <1>2, EndStays
<1> QED BY <1>1, <1>3, EndKeepsKeys

\* Every step keeps effects, journals and responses in agreement.
LEMMA EffectsStaySound ==
  ASSUME OperationsAreSound, StoreIsSound, EffectsAreSound, [VaultNext]_vaultVars
  PROVE  EffectsAreSound'
<1> JournalEffects /\ GateEffects /\ WorkEffects
  BY DEF EffectsAreSound
<1>1. CASE WorkAction
  <2>1. CASE DeleteRows \/ ReplaceRows \/ ClearTables
    BY <1>1, <2>1, CommitsKeepEffects, WorkKeepsGateEffects DEF EffectsAreSound
  <2>2. CASE RememberResponse \/ CompleteImport
    BY <1>1, <2>2, AnswersKeepEffects, WorkKeepsGateEffects DEF EffectsAreSound
  <2>3. CASE DeletionEffects \/ ImportEffects \/ NoEffects
    BY <1>1, <2>3, QuietStepsKeepJournals, QuietStepsKeepWork, WorkKeepsGateEffects
       DEF EffectsAreSound
  <2> QED BY <1>1, <2>1, <2>2, <2>3 DEF WorkAction, DeletionEffects, ImportEffects, NoEffects
<1>2. CASE FailStep
  <2>1. FailedEffects
    BY <1>2 DEF FailStep, FailedEffects, ghosts
  <2>2. GateEffects'
    BY <2>1, WorkKeepsGateEffects DEF FailedEffects
  <2> QED BY <2>1, <2>2, QuietStepsKeepJournals, QuietStepsKeepWork DEF EffectsAreSound
<1>3. CASE \E r \in Requests : Admit(r) \/ HandlerAction(r) \/ GiveUp(r) \/ FailUpload(r)
  BY <1>3, RequestsKeepEffects
<1>4. CASE \/ StartSnapshot \/ ReadSnapshot \/ PublishSnapshot
           \/ (\E i \in Items : PublishPage(i)) \/ UNCHANGED vaultVars
  <2>1. Same /\ UNCHANGED <<commits, keys, rows, staged, at, work>>
    BY <1>4, StoppedIsSame DEF Same, JournalVars, journal, client, store, ghosts, gate,
       StartSnapshot, ReadSnapshot, PublishSnapshot, PublishPage
  <2>2. JournalEffects'
    BY <2>1, SameEffects, JournalEffectsStay DEF Same, JournalVars
  <2>3. GateEffects'
    BY <2>1 DEF GateEffects
  <2>4. WorkEffects'
    BY <2>1, OtherStepsHaveNoEffects DEF Same
  <2> QED BY <2>2, <2>3, <2>4 DEF EffectsAreSound
<1>5. CASE Crash \/ FailStart \/ Quit \/ Boot
  <2>1. Same /\ UNCHANGED <<commits, keys, rows, staged>>
    BY <1>5 DEF Crash, FailStart, Quit, Boot, Exit, Same, JournalVars, journal, client, store,
       ghosts
  <2>2. JournalEffects'
    BY <2>1, SameEffects, JournalEffectsStay DEF Same, JournalVars
  <2>3. \A r \in Requests : at'[r] = "idle"
    BY <1>5, StartIsAlone DEF Crash, FailStart, Quit, Boot, Exit, OperationsAreSound
  <2>4. GateEffects'
    BY <2>3 DEF GateEffects
  <2>5. work'.step \in {"none", "clear", "resume"}
    <3>1. CASE Boot
      BY <3>1 DEF Boot, NoWork
    <3>2. CASE Crash \/ FailStart \/ Quit
      BY <3>2 DEF Crash, FailStart, Quit, Exit, NoWork
    <3> QED BY <1>5, <3>1, <3>2
  <2> QED BY <2>2, <2>4, <2>5, OtherStepsHaveNoEffects DEF EffectsAreSound
<1> QED BY <1>1, <1>2, <1>3, <1>4, <1>5 DEF VaultNext, SnapshotAction

-----------------------------------------------------------------------------
(* The vault is whole when it is open                                        *)

\* At first nothing was removed or done.
LEMMA VaultBegins == ASSUME VaultInit PROVE VaultInv
<1>1. /\ deletions = << >> /\ imports = << >> /\ gone = {} /\ shelf = {} /\ backups = {}
      /\ keys = {} /\ bytes = BytesOf(rows) /\ marker = NoRequest
      /\ staged = {r \in Requests : KindOf(r) = "import"}
      /\ at = [r \in Requests |-> "idle"] /\ commits = [r \in Requests |-> 0]
  BY DEF VaultInit
<1>2. DOMAIN deletions = {} /\ DOMAIN imports = {}
  BY <1>1, SequencesBegin
<1>3. work.step = "none" /\ snapshot.step = "idle"
  BY DEF VaultInit, NoWork, NoSnapshot
<1>4. \A r \in Requests : at[r] = "idle" /\ commits[r] = 0
  BY <1>1
<1>5. OperationsAreSound
  BY OperationsBegin
<1>6. StoreIsSound
  BY <1>1, <1>2, <1>3, <1>4 DEF StoreIsSound
<1>7. GoneIsGone
  BY <1>1, <1>3 DEF GoneIsGone
<1>8. BytesAreGone
  BY <1>1 DEF BytesAreGone
<1>9. JournalEffects
  BY <1>1, <1>2, <1>4 DEF JournalEffects, Committed
<1>10. GateEffects /\ WorkEffects
  BY <1>3, <1>4 DEF GateEffects, WorkEffects
<1> QED BY <1>5, <1>6, <1>7, <1>8, <1>9, <1>10 DEF VaultInv, EffectsAreSound

\* Every step keeps the invariant.
LEMMA VaultStaysSound == ASSUME VaultInv, [VaultNext]_vaultVars PROVE VaultInv'
  BY OperationsStaySound, StoreStaysSound, GoneStaysGone, BytesStayGone, EffectsStaySound
     DEF VaultInv

\* In an open vault nothing is under way, hence nothing open and nothing pending.
LEMMA OpenIsWhole == ASSUME VaultInv PROVE WholeWhenOpen
<1> OperationsAreSound /\ StoreIsSound /\ GoneIsGone /\ BytesAreGone
  BY DEF VaultInv
<1> VaultTyped /\ GateIsSound /\ WorkIsSound /\ JournalIsSound /\ JournalTyped
  BY DEF OperationsAreSound, VaultTyped
<1>1. BytesOf(rows) \subseteq bytes
  BY DEF StoreIsSound
<1>2. ASSUME VaultOpen
      PROVE  /\ marker = NoRequest /\ OpenImports = {} /\ OpenDeletions = {}
             /\ gone \cap pages = {} /\ gone \cap shelf = {}
             /\ \A holds \in backups : gone \cap holds = {}
             /\ \A i \in gone : BlobOf[i] \in bytes => \E r \in Requests :
                  at[r] = "put" \/ faults > 0 \/ \E j \in rows : BlobOf[j] = BlobOf[i]
  <2>1. server = "open" /\ ~locked /\ exclusive = NoRequest
    BY <1>2 DEF VaultOpen
  <2>2. Resting
    BY <2>1, WorkIsAlone
  <2>3. work.req = NoRequest /\ work.step = "none"
    BY <2>2 DEF WorkIsSound, NoWork, Resting
  <2>4. \A kind : ~Doing(kind)
    BY <2>3, NoRequestAssumption DEF Doing
  <2>5. NoneOpen
    BY <2>1, <2>3, <2>4 DEF JournalIsSound, NoneOpen
  <2>6. marker = NoRequest
    BY <2>1, <2>3 DEF JournalIsSound, JournalTyped
  <2>7. OpenImports = {} /\ OpenDeletions = {}
    BY <2>5 DEF OpenImports, OpenDeletions, FirstIn, NoneOpen, OpenDeletion, OpenImport
  <2>8. /\ \A k \in DOMAIN deletions : deletions[k].phase # "database_complete"
        /\ \A k \in DOMAIN imports : imports[k].phase # "database_complete"
    BY <2>5 DEF NoneOpen, OpenDeletion, OpenImport
  <2>9. /\ \A i, steps : ~RemovalPending(i, steps)
        /\ ~ReplacementPending /\ ~ShelfInUse
    BY <2>6, <2>8 DEF RemovalPending, ReplacementPending, ShelfInUse
  <2>10. /\ gone \cap pages = {} /\ gone \cap shelf = {}
         /\ \A holds \in backups : gone \cap holds = {}
    BY <2>9 DEF GoneIsGone
  <2>11. ASSUME NEW i \in gone, BlobOf[i] \in bytes
         PROVE  \E r \in Requests :
                  at[r] = "put" \/ faults > 0 \/ \E j \in rows : BlobOf[j] = BlobOf[i]
    <3>1. PICK r \in Requests : TRUE
      BY <2>11 DEF GoneIsGone
    <3>2. CASE faults = 0
      <4>1. ~ErasurePending(BlobOf[i])
        BY <2>1, <2>3 DEF ErasurePending
      <4>2. \/ \E j \in rows : BlobOf[j] = BlobOf[i]
            \/ \E q \in Requests : at[q] = "put"
        BY <2>11, <3>2, <4>1 DEF BytesAreGone, BytesOf
      <4> QED BY <3>1, <4>2
    <3>3. CASE faults # 0
      <4>1. faults > 0
        BY <3>3 DEF VaultTyped
      <4> QED BY <3>1, <4>1
    <3> QED BY <3>2, <3>3
  <2> QED BY <2>6, <2>7, <2>10, <2>11
<1> QED BY <1>1, <1>2 DEF WholeWhenOpen

\* The effects say what AppliedOnce says.
LEMMA DoneOnce == ASSUME VaultInv PROVE AppliedOnce
  BY DEF VaultInv, EffectsAreSound, JournalEffects, AppliedOnce

\* The strengthening of both properties: who may pass the gate and work, what is
\* open in the journals, and what rows, bytes, pages, backups and remembered
\* responses have to do with it, holds in every reachable state.
THEOREM VaultIsSound == VaultSpec => []VaultInv
<1>1. VaultInit => VaultInv
  BY VaultBegins
<1>2. VaultInv /\ [VaultNext]_vaultVars => VaultInv'
  BY VaultStaysSound
<1> QED BY <1>1, <1>2, PTL DEF VaultSpec

\* Whatever requests, deaths of the API and failing writes interleave, no row is
\* without its bytes, and in an open vault no deletion, import or destruction is
\* half done in any store (maintenance.ts, recoverUnfinishedHardDeletions and
\* recoverInterruptedVaultImports).
THEOREM VaultWholeWhenOpen == VaultSpec => []WholeWhenOpen
<1>1. VaultInv => WholeWhenOpen
  BY OpenIsWhole
<1> QED BY <1>1, VaultIsSound, PTL

\* A request that is sent again, or that a start goes on with, takes effect once,
\* and one whose response is remembered has taken effect.
THEOREM VaultAppliedOnce == VaultSpec => []AppliedOnce
<1>1. VaultInv => AppliedOnce
  BY DoneOnce
<1> QED BY <1>1, VaultIsSound, PTL

-----------------------------------------------------------------------------
(* Archives and exports                                                      *)

CommitSteps == {"none", "open", "copy", "replace", "consume", "consumeAndLock", "leave", "locked"}

(* There is a number of tokens.                                                *)
LEMMA TokensAreNatural == Tokens \in Nat
  BY ManagedAssumption DEF ManagedAssumption

(* The last field only tells how the import began.                             *)
CommitShape ==
  /\ commit = [step |-> commit.step, token |-> commit.token, stale |-> commit.stale]
  /\ commit.step \in CommitSteps /\ commit.token \in 0..Tokens

CommitType ==
  /\ phaseOf \in [1..Tokens -> {"none", "prepared", "complete", "failed"}]
  /\ replacements \in [1..Tokens -> Nat]
  /\ CommitShape

(* The row of the journal that names a token tells whether it was used, from   *)
(* before the vault is replaced on.                                            *)
JournalTells ==
  /\ \A t \in 1..Tokens : replacements[t] # 0 => phaseOf[t] = "complete"
  /\ commit.step # "none" => commit.token \in 1..Tokens
  /\ commit.step \in {"open", "copy"} => phaseOf[commit.token] \notin {"prepared", "complete"}
  /\ commit.step = "replace" => phaseOf[commit.token] = "prepared"

CommitInv == CommitType /\ JournalTells /\ TokenCommitsOnce

(* What a step of the queue or of an export leaves alone.                      *)
LEMMA StepsBesideImports ==
  ASSUME \/ \E t \in 1..Tokens : ExpireToken(t)
         \/ WriteMarker \/ LinkArchive \/ StartSweep \/ SweepNext \/ SweepUnlinks \/ EndSweep
         \/ MakeExport
         \/ \E f \in 1..Exports : OpenDownload(f) \/ CloseDownload(f)
         \/ \E old \in SUBSET finished : PruneExports(old, {})
         \/ PruneExports({}, {LatestOf(finished)})
         \/ UNCHANGED managedVars
  PROVE  UNCHANGED <<commit, phaseOf, replacements, inFlight>>
BY DEF ExpireToken, WriteMarker, LinkArchive, StartSweep, SweepNext, SweepUnlinks, EndSweep,
       MakeExport, OpenDownload, CloseDownload, PruneExports, managedVars, importVars

(* What BeginImport does, the note on a pruning that is under way aside.        *)
LEMMA ImportBegins ==
  ASSUME NEW t \in 1..Tokens, BeginImport(t)
  PROVE  /\ IsUnclaimed(t)
         /\ inFlight' = inFlight \cup {t}
         /\ UNCHANGED <<queueVars, phaseOf, replacements>>
         /\ \E stale : commit' = [step |-> "open", token |-> t, stale |-> stale]
         /\ sweep.step = "unlink" /\ sweep.token = t => commit'.stale = TRUE
<1>1. ASSUME sweep.step = "unlink", sweep.token = t
      PROVE  commit'.stale = TRUE
  BY <1>1, Zenon DEF BeginImport
<1> QED BY <1>1, Zenon DEF BeginImport

(* The steps of an import and a restart keep what the journal tells.           *)
LEMMA ImportStepsKeepCommitInv ==
  ASSUME CommitInv,
         \/ \E t \in 1..Tokens : BeginImport(t)
         \/ OpenArchive \/ CopyArchive \/ ReplaceVault \/ ConsumeToken \/ LeaveToken
         \/ \E sameSession \in BOOLEAN : RestartApi(sameSession)
  PROVE  CommitInv'
<1> USE TokensAreNatural
    DEF CommitInv, CommitType, CommitShape, JournalTells, TokenCommitsOnce, CommitSteps
<1>1. CASE \E t \in 1..Tokens : BeginImport(t)
  <2>1. PICK t \in 1..Tokens :
          /\ \E stale : commit' = [step |-> "open", token |-> t, stale |-> stale]
          /\ phaseOf[t] \notin {"prepared", "complete"}
          /\ UNCHANGED <<phaseOf, replacements>>
    BY <1>1, ImportBegins DEF IsUnclaimed
  <2> QED BY <2>1
<1>2. CASE OpenArchive
  <2>1. /\ UNCHANGED <<phaseOf, replacements>>
        /\ commit.step = "open"
        /\ \E step \in {"copy", "consume", "leave"} : commit' = [commit EXCEPT !.step = step]
    BY <1>2 DEF OpenArchive, Goto
  <2> QED BY <2>1
<1>3. CASE CopyArchive
  <2>1. /\ UNCHANGED replacements
        /\ commit.step = "copy"
        /\ \/ /\ phaseOf' = [phaseOf EXCEPT ![commit.token] = "prepared"]
              /\ commit' = [commit EXCEPT !.step = "replace"]
           \/ phaseOf' = phaseOf /\ commit' = [commit EXCEPT !.step = "leave"]
    BY <1>3 DEF CopyArchive, Goto
  <2> QED BY <2>1
<1>4. CASE ReplaceVault
  <2> DEFINE t == commit.token
  <2>1. /\ commit.step = "replace"
        /\ \E step \in {"consume", "consumeAndLock", "leave"} :
             commit' = [commit EXCEPT !.step = step]
        /\ \/ /\ phaseOf' = [phaseOf EXCEPT ![t] = "complete"]
              /\ replacements' = [replacements EXCEPT ![t] = @ + 1]
           \/ /\ UNCHANGED replacements
              /\ phaseOf' = [phaseOf EXCEPT ![t] = "failed"] \/ UNCHANGED phaseOf
    BY <1>4 DEF ReplaceVault, Goto
  <2>2. t \in 1..Tokens /\ replacements[t] = 0 /\ phaseOf[t] = "prepared"
    BY <2>1
  <2>3. commit'.step \in {"consume", "consumeAndLock", "leave"} /\ commit'.token = t
    BY <2>1
  <2>4. CommitShape' BY <2>1
  <2>5. CommitType' BY <2>1, <2>2, <2>4
  <2>6. TokenCommitsOnce'
    <3> SUFFICES ASSUME NEW u \in 1..Tokens PROVE replacements'[u] <= 1
      OBVIOUS
    <3>1. CASE UNCHANGED replacements
      BY <3>1
    <3>2. CASE replacements' = [replacements EXCEPT ![t] = @ + 1]
      <4>1. replacements'[u] = IF u = t THEN replacements[u] + 1 ELSE replacements[u]
        BY <3>2
      <4> QED BY <4>1, <2>2
    <3> QED BY <2>1, <3>1, <3>2
  <2>7. JournalTells' BY <2>1, <2>2, <2>3
  <2> QED BY <2>5, <2>6, <2>7
<1>5. CASE ConsumeToken \/ LeaveToken
  <2>1. /\ UNCHANGED <<phaseOf, replacements>>
        /\ commit' = NoCommit \/ commit' = [commit EXCEPT !.step = "locked"]
        /\ commit.step # "none"
    BY <1>5 DEF ConsumeToken, LeaveToken, Done, queueVars
  <2> QED BY <2>1 DEF NoCommit
<1>6. CASE \E sameSession \in BOOLEAN : RestartApi(sameSession)
  <2>1. /\ UNCHANGED replacements
        /\ commit' = NoCommit
        /\ phaseOf' = [t \in 1..Tokens |->
                         IF phaseOf[t] = "prepared" THEN "failed" ELSE phaseOf[t]]
    BY <1>6 DEF RestartApi
  <2> QED BY <2>1 DEF NoCommit
<1> QED BY <1>1, <1>2, <1>3, <1>4, <1>5, <1>6

(* A verified archive replaces the vault at most once: the import of a token   *)
(* begins only when its row says it may, and says so before it writes.         *)
THEOREM ArchivesCommitOnce == ManagedSpec => []TokenCommitsOnce
<1>1. ManagedInit => CommitInv
  BY TokensAreNatural
  DEF ManagedInit, CommitInv, CommitType, CommitShape, JournalTells, TokenCommitsOnce, CommitSteps,
      NoCommit
<1>2. CommitInv /\ UNCHANGED <<commit, phaseOf, replacements, inFlight>> => CommitInv'
  BY DEF CommitInv, CommitType, CommitShape, JournalTells, TokenCommitsOnce
<1>3. CommitInv /\ [ManagedNext]_managedVars => CommitInv'
  BY <1>2, StepsBesideImports, ImportStepsKeepCommitInv DEF ManagedNext, TokensNext, ExportsNext
<1>4. CommitInv => TokenCommitsOnce
  BY DEF CommitInv
<1> QED BY <1>1, <1>3, <1>4, PTL DEF ManagedSpec

-----------------------------------------------------------------------------
(* An archive that an import has opened: announced, and not being unlinked.    *)
ArchiveIsHeld ==
  commit.step \in {"open", "copy"} =>
    /\ commit.token \in inFlight
    /\ sweep.step = "unlink" /\ sweep.token = commit.token => commit.stale = TRUE
    /\ commit.step = "copy" /\ commit.stale # TRUE => commit.token \in stored \ foreign

(* An export that is downloaded once at a time is in #activeExportDownloads.   *)
DownloadIsHeld ==
  /\ downloads \in [1..Exports -> Nat]
  /\ \A f \in 1..Exports :
       /\ downloads[f] > 1 => f \in shared
       /\ downloads[f] > 0 /\ f \notin shared => f \in activeExports \cap finished

SweepShape ==
  sweep = [step |-> sweep.step, left |-> sweep.left, kept |-> sweep.kept,
           spared |-> sweep.spared, token |-> sweep.token]

HeldInv == CommitShape /\ SweepShape /\ ArchiveIsHeld /\ DownloadIsHeld

(* Archives come, are used and go; an import's stays until it lets it go.      *)
LEMMA TokenStepsKeepArchive ==
  ASSUME HeldInv, TokensNext
  PROVE  CommitShape' /\ SweepShape' /\ ArchiveIsHeld'
<1> USE TokensAreNatural DEF HeldInv, CommitShape, SweepShape, ArchiveIsHeld, CommitSteps
<1>1. CASE \E t \in 1..Tokens : ExpireToken(t)
  BY <1>1 DEF ExpireToken, importVars
<1>2. CASE \E t \in 1..Tokens : BeginImport(t)
  <2>1. PICK t \in 1..Tokens :
          /\ \E stale : commit' = [step |-> "open", token |-> t, stale |-> stale]
          /\ sweep.step = "unlink" /\ sweep.token = t => commit'.stale = TRUE
          /\ inFlight' = inFlight \cup {t}
          /\ UNCHANGED <<sweep, stored, foreign>>
    BY <1>2, ImportBegins DEF queueVars
  <2> QED BY <2>1
<1>3. CASE WriteMarker \/ LinkArchive
  BY <1>3 DEF WriteMarker, LinkArchive, importVars
<1>4. CASE StartSweep
  BY <1>4 DEF StartSweep, importVars
<1>5. CASE SweepNext
  <2>1. PICK t :
          /\ sweep.step = "choose"
          /\ \/ sweep' = [sweep EXCEPT !.left = @ \ {t}, !.kept = @ + 1]
             \/ /\ t \notin inFlight
                /\ sweep' = [sweep EXCEPT !.left = @ \ {t}, !.step = "unlink", !.token = t]
          /\ UNCHANGED <<commit, inFlight, stored, foreign>>
    BY <1>5 DEF SweepNext, IsSpared, importVars, SweepShape
  <2> QED BY <2>1
<1>6. CASE SweepUnlinks
  BY <1>6 DEF SweepUnlinks, importVars
<1>7. CASE EndSweep
  BY <1>7 DEF EndSweep, NoSweep
<1>8. CASE OpenArchive \/ CopyArchive \/ ReplaceVault
  <2>1. /\ UNCHANGED <<sweep, inFlight, stored, foreign>>
        /\ \E step \in {"copy", "consume", "leave", "replace", "consumeAndLock"} :
             /\ commit' = [commit EXCEPT !.step = step]
             /\ step = "copy" => /\ commit.step = "open"
                                /\ commit.token \in stored \ foreign
    BY <1>8 DEF OpenArchive, CopyArchive, ReplaceVault, Goto, queueVars
  <2> QED BY <2>1
<1>9. CASE ConsumeToken \/ LeaveToken
  <2>1. /\ commit' = NoCommit \/ commit' = [commit EXCEPT !.step = "locked"]
        /\ UNCHANGED sweep
    BY <1>9 DEF ConsumeToken, LeaveToken, Done, queueVars
  <2>2. commit'.step \in {"none", "locked"} BY <2>1 DEF NoCommit
  <2>3. CommitShape' BY <2>1 DEF NoCommit
  <2> QED BY <2>1, <2>2, <2>3
<1>10. CASE \E sameSession \in BOOLEAN : RestartApi(sameSession)
  BY <1>10 DEF RestartApi, NoCommit, NoSweep
<1> QED BY <1>1, <1>2, <1>3, <1>4, <1>5, <1>6, <1>7, <1>8, <1>9, <1>10 DEF TokensNext

(* So do exports; one that is downloaded once stays until the download ends.   *)
LEMMA ExportStepsKeepDownloads ==
  ASSUME DownloadIsHeld,
         \/ MakeExport
         \/ \E f \in 1..Exports : OpenDownload(f) \/ CloseDownload(f)
         \/ \E old, spared : PruneExports(old, spared)
  PROVE  DownloadIsHeld' /\ UNCHANGED <<queueVars, importVars>>
<1>1. CASE MakeExport
  BY <1>1 DEF MakeExport, DownloadIsHeld
<1>2. CASE \E f \in 1..Exports : OpenDownload(f)
  BY <1>2 DEF OpenDownload, DownloadIsHeld
<1>3. CASE \E f \in 1..Exports : CloseDownload(f)
  BY <1>3 DEF CloseDownload, DownloadIsHeld
<1>4. CASE \E old, spared : PruneExports(old, spared)
  BY <1>4 DEF PruneExports, DownloadIsHeld
<1> QED BY <1>1, <1>2, <1>3, <1>4

(* A file in use is not pruned, whatever else fails, dies or is downloaded.    *)
THEOREM FilesInUseAreKept == ManagedSpec => []InUseIsKept
<1>1. ManagedInit => HeldInv
  BY TokensAreNatural
  DEF ManagedInit, HeldInv, CommitShape, SweepShape, ArchiveIsHeld, DownloadIsHeld, CommitSteps,
      NoCommit, NoSweep
<1>2. ASSUME HeldInv, TokensNext PROVE HeldInv'
  <2>1. DownloadIsHeld'
    <3>1. CASE \E sameSession \in BOOLEAN : RestartApi(sameSession)
      BY <1>2, <3>1 DEF RestartApi, HeldInv, DownloadIsHeld
    <3>2. CASE ~\E sameSession \in BOOLEAN : RestartApi(sameSession)
      <4>1. UNCHANGED exportVars
        BY <1>2, <3>2
        DEF TokensNext, ExpireToken, BeginImport, WriteMarker, LinkArchive, StartSweep,
            SweepNext, SweepUnlinks, EndSweep, OpenArchive, CopyArchive, ReplaceVault,
            ConsumeToken, LeaveToken
      <4> QED BY <1>2, <4>1 DEF HeldInv, DownloadIsHeld, exportVars
    <3> QED BY <3>1, <3>2
  <2> QED BY <1>2, <2>1, TokenStepsKeepArchive DEF HeldInv
<1>3. ASSUME HeldInv, ExportsNext PROVE HeldInv'
  <2>1. CASE RestartApi(FALSE)
    BY <1>2, <1>3, <2>1 DEF TokensNext
  <2>2. CASE ~RestartApi(FALSE)
    <3>1. DownloadIsHeld' /\ UNCHANGED <<queueVars, importVars>>
      <4>1. \/ MakeExport
            \/ \E f \in 1..Exports : OpenDownload(f) \/ CloseDownload(f)
            \/ \E old, spared : PruneExports(old, spared)
        BY <1>3, <2>2 DEF ExportsNext
      <4> QED BY <1>3, <4>1, ExportStepsKeepDownloads DEF HeldInv
    <3> QED BY <1>3, <3>1
            DEF HeldInv, CommitShape, SweepShape, ArchiveIsHeld, queueVars, importVars
  <2> QED BY <2>1, <2>2
<1>4. HeldInv /\ UNCHANGED managedVars => HeldInv'
  BY DEF HeldInv, CommitShape, SweepShape, ArchiveIsHeld, DownloadIsHeld, managedVars, queueVars,
         importVars, exportVars
<1>5. HeldInv => InUseIsKept
  BY DEF HeldInv, ArchiveIsHeld, DownloadIsHeld, InUseIsKept
<1>6. HeldInv /\ [ManagedNext]_managedVars => HeldInv'
  BY <1>2, <1>3, <1>4 DEF ManagedNext
<1> QED BY <1>1, <1>5, <1>6, PTL DEF ManagedSpec

-----------------------------------------------------------------------------
(* Portable archives *)

RevisionRecords ==
  [author : {"model", "user"}, rows : SUBSET ((Beliefs \cup {NoBelief}) \X Heard),
   inputs : SUBSET (Beliefs \cup Heard), tells : SUBSET Heard]

RowsAreTyped ==
  /\ evidence \in [Beliefs -> SUBSET Heard]
  /\ topicOf \in [Beliefs -> Wiki \cup {NoWiki}]
  /\ written \in [Wiki -> Seq(RevisionRecords)]
  /\ called \in [Names -> SUBSET Heard]
  /\ aliases \in [Names -> SUBSET Heard]

\* A revision has a row for every message its words are from, and each claim among
\* its rows and inputs is on this page.
IsSourced(t, revision) ==
  /\ revision.tells = {row[2] : row \in revision.rows}
  /\ \A row \in revision.rows : row[1] \in Beliefs => topicOf[row[1]] = t
  /\ \A x \in revision.inputs : x \in Beliefs => topicOf[x] = t
  /\ \A x \in revision.inputs : x \in Heard => x \in revision.tells

PagesAreSourced ==
  \A t \in Wiki : \A k \in DOMAIN written[t] : IsSourced(t, written[t][k])

\* Whom an entity has its name from is among its aliases, until it is merged away.
NamesAreSourced == \A n \in Names \ mergedAway : called[n] \subseteq aliases[n]

\* The pages that tool output has a part in.
IsTouched(t) ==
  \/ \E k \in DOMAIN written[t] : written[t][k].tells \cap FromTools # {}
  \/ \E b \in Beliefs : topicOf[b] = t /\ evidence[b] \cap FromTools # {}
TouchedPages == {t \in Wiki : IsTouched(t)}

HasTheRest(tables) ==
  /\ \A b \in Known : evidence[b] \cap FromTools = {} /\ topicOf[b] \notin TouchedPages =>
       b \in tables.claims /\ {b} \X evidence[b] \subseteq tables.claimSources
  /\ \A r \in {r \in Revisions : r[1] \notin TouchedPages} :
       /\ r[1] \in tables.topics /\ r \in tables.revisions
       /\ \A row \in written[r[1]][r[2]].rows : <<r, row[1], row[2]>> \in tables.sections
  /\ \A n \in Names :
       called[n] # {} /\ (called[n] \cup aliases[n]) \cap FromTools = {} =>
         n \in tables.entities

HasNoToolOutput(tables) ==
  /\ tables.texts \cap FromTools = {}
  /\ \A b \in tables.claims : evidence[b] \cap FromTools = {}
  /\ \A r \in tables.revisions : written[r[1]][r[2]].tells \cap FromTools = {}
  /\ \A n \in tables.entities \ mergedAway : called[n] \cap FromTools = {}
  /\ \A p \in tables.edges : ties[p] \cap FromTools = {}
  /\ \A s \in tables.sections : s[3] \notin FromTools

ArchiveIsWhole == archive # Nothing => HasTheRest(archive.tables)

ImportsAreOfAnArchive == imported # Nothing => archive # Nothing

PortableInv ==
  /\ RowsAreTyped /\ PagesAreSourced /\ NamesAreSourced
  /\ ToolOutputStaysHome /\ ArchiveIsWhole /\ ImportsAreOfAnArchive /\ TheRestArrives

\* A revision of a page is known by its page and its number.
LEMMA RevisionsKnown ==
  ASSUME NEW r \in Revisions
  PROVE  r[1] \in Wiki /\ r[2] \in DOMAIN written[r[1]] /\ r = <<r[1], r[2]>>
BY DEF Revisions

\* A page with a revision has a topic row.
LEMMA RevisedIsWritten ==
  ASSUME RowsAreTyped, NEW r \in Revisions
  PROVE  written[r[1]] # <<>>
<1>1. r[1] \in Wiki /\ r[2] \in DOMAIN written[r[1]]
  BY RevisionsKnown
<1>2. written[r[1]] \in Seq(RevisionRecords)
  BY <1>1 DEF RowsAreTyped
<1> QED
  BY <1>1, <1>2

\* The revision, and the rows it has, are what the invariant says of them.
LEMMA RevisionFacts ==
  ASSUME RowsAreTyped, PagesAreSourced, NEW r \in Revisions
  PROVE  /\ written[r[1]][r[2]] \in RevisionRecords
         /\ IsSourced(r[1], written[r[1]][r[2]])
<1>1. r[1] \in Wiki /\ r[2] \in DOMAIN written[r[1]]
  BY RevisionsKnown
<1>2. written[r[1]] \in Seq(RevisionRecords)
  BY <1>1 DEF RowsAreTyped
<1>3. written[r[1]][r[2]] \in RevisionRecords
  BY <1>1, <1>2
<1> QED
  BY <1>1, <1>3 DEF PagesAreSourced

\* What an export without tool output leaves out: pages, claims and entities that
\* tool output has a part in, ...
LEMMA ExclusionsAreSound ==
  ASSUME RowsAreTyped, PagesAreSourced, PortableAssumption,
         NEW privacy, privacy = exportPrivacy(FALSE)
  PROVE  /\ privacy.topics \subseteq TouchedPages
         /\ privacy.claims \subseteq Known
         /\ \A b \in privacy.claims :
              evidence[b] \cap FromTools # {} \/ topicOf[b] \in privacy.topics
         /\ \A r \in privacy.revisions : r[1] \in privacy.topics
<1> DEFINE direct == {b \in Known : evidence[b] \cap FromTools # {}}
<1> DEFINE revisions == {r \in Revisions :
        \/ \E row \in written[r[1]][r[2]].rows : row[2] \in FromTools \/ row[1] \in direct
        \/ written[r[1]][r[2]].inputs \cap (FromTools \cup direct) # {}}
<1> DEFINE topics == {r[1] : r \in revisions} \cup ({topicOf[b] : b \in direct} \ {NoWiki})
<1>1. /\ privacy.revisions = revisions
      /\ privacy.topics = topics
      /\ privacy.claims = direct \cup SpreadToClaims(topics)
  BY Zenon DEF exportPrivacy
<1>2. \A r \in revisions : r[1] \in Wiki /\ IsTouched(r[1])
  <2> SUFFICES ASSUME NEW r \in revisions PROVE r[1] \in Wiki /\ IsTouched(r[1])
    OBVIOUS
  <2> DEFINE revision == written[r[1]][r[2]]
  <2>1. /\ r[1] \in Wiki /\ r[2] \in DOMAIN written[r[1]]
        /\ revision \in RevisionRecords /\ IsSourced(r[1], revision)
    BY RevisionsKnown, RevisionFacts
  <2>2. \A b \in direct : b \in Beliefs /\ evidence[b] \cap FromTools # {}
    BY DEF Known
  <2>3. CASE \E row \in revision.rows : row[2] \in FromTools
    BY <2>1, <2>3 DEF IsSourced, IsTouched
  <2>4. CASE \E row \in revision.rows : row[1] \in direct
    BY <2>1, <2>2, <2>4 DEF IsSourced, IsTouched
  <2>5. CASE \E x \in revision.inputs : x \in FromTools
    BY <2>1, <2>5 DEF IsSourced, IsTouched, PortableAssumption
  <2>6. CASE \E x \in revision.inputs : x \in direct
    BY <2>1, <2>2, <2>6 DEF IsSourced, IsTouched
  <2> QED
    BY <2>3, <2>4, <2>5, <2>6
<1>3. \A b \in direct : topicOf[b] # NoWiki => topicOf[b] \in TouchedPages
  BY DEF Known, TouchedPages, IsTouched, RowsAreTyped
<1>4. topics \subseteq TouchedPages
  BY <1>2, <1>3 DEF TouchedPages
<1> QED
  BY <1>1, <1>4 DEF SpreadToClaims, Known

\* ... and all of them.
LEMMA ExclusionsAreComplete ==
  ASSUME RowsAreTyped, PagesAreSourced, PortableAssumption,
         NEW privacy, privacy = exportPrivacy(FALSE)
  PROVE  /\ privacy.events = FromTools
         /\ \A b \in Known : evidence[b] \cap FromTools # {} => b \in privacy.claims
         /\ \A r \in Revisions : r[1] \notin privacy.topics =>
              written[r[1]][r[2]].tells \cap FromTools = {}
         /\ privacy.entities = TaintedEntities(privacy.claims)
<1> DEFINE direct == {b \in Known : evidence[b] \cap FromTools # {}}
<1> DEFINE revisions == {r \in Revisions :
        \/ \E row \in written[r[1]][r[2]].rows : row[2] \in FromTools \/ row[1] \in direct
        \/ written[r[1]][r[2]].inputs \cap (FromTools \cup direct) # {}}
<1> DEFINE topics == {r[1] : r \in revisions} \cup ({topicOf[b] : b \in direct} \ {NoWiki})
<1>1. /\ privacy.events = FromTools
      /\ privacy.topics = topics
      /\ privacy.claims = direct \cup SpreadToClaims(topics)
      /\ privacy.entities = TaintedEntities(direct \cup SpreadToClaims(topics))
  BY Zenon DEF exportPrivacy
<1>2. ASSUME NEW r \in Revisions, r[1] \notin topics
      PROVE  written[r[1]][r[2]].tells \cap FromTools = {}
  <2>1. IsSourced(r[1], written[r[1]][r[2]])
    BY RevisionFacts
  <2>2. r \notin revisions
    BY <1>2
  <2>3. \A row \in written[r[1]][r[2]].rows : row[2] \notin FromTools
    BY <2>2
  <2> QED
    BY <2>1, <2>3 DEF IsSourced
<1>3. \A b \in Known : evidence[b] \cap FromTools # {} => b \in direct
  OBVIOUS
<1> QED
  BY <1>1, <1>2, <1>3, Zenon

\* No table of an export without tool output has any of it, ...
LEMMA ExportIsClean ==
  ASSUME RowsAreTyped, PagesAreSourced, NamesAreSourced, PortableAssumption
  PROVE  HasNoToolOutput(Tables(exportPrivacy(FALSE)))
<1> DEFINE privacy == exportPrivacy(FALSE)
           tables == Tables(privacy)
<1>0. /\ privacy.events = FromTools
      /\ \A b \in Known : evidence[b] \cap FromTools # {} => b \in privacy.claims
      /\ \A r \in Revisions : r[1] \notin privacy.topics =>
           written[r[1]][r[2]].tells \cap FromTools = {}
      /\ privacy.entities = TaintedEntities(privacy.claims)
  BY ExclusionsAreComplete
<1> HIDE DEF privacy
<1>1. tables.texts \cap FromTools = {}
  BY <1>0 DEF Tables
<1>2. \A b \in tables.claims : evidence[b] \cap FromTools = {}
  BY <1>0 DEF Tables
<1>3. \A r \in tables.revisions : written[r[1]][r[2]].tells \cap FromTools = {}
  BY <1>0 DEF Tables
<1>4. \A n \in tables.entities \ mergedAway : called[n] \cap FromTools = {}
  BY <1>0 DEF Tables, TaintedEntities, NamesAreSourced
<1>5. \A p \in tables.edges : ties[p] \cap FromTools = {}
  BY <1>0 DEF Tables, EdgeIsExported
<1>6. \A s \in tables.sections : s[3] \notin FromTools
  BY <1>0 DEF Tables
<1> QED
  BY <1>1, <1>2, <1>3, <1>4, <1>5, <1>6 DEF HasNoToolOutput, privacy

\* ... and every export has the rest.
LEMMA ExportIsWhole ==
  ASSUME RowsAreTyped, PagesAreSourced, PortableAssumption, NEW sensitive \in BOOLEAN
  PROVE  HasTheRest(Tables(exportPrivacy(sensitive)))
<1> DEFINE privacy == exportPrivacy(sensitive)
           tables == Tables(privacy)
<1>0. /\ privacy.events \subseteq FromTools
      /\ privacy.topics \subseteq TouchedPages
      /\ privacy.claims \subseteq Known
      /\ \A b \in privacy.claims :
           evidence[b] \cap FromTools # {} \/ topicOf[b] \in TouchedPages
      /\ \A r \in privacy.revisions : r[1] \in TouchedPages
      /\ privacy.entities \subseteq TaintedEntities(privacy.claims)
  <2>1. CASE sensitive
    BY <2>1 DEF exportPrivacy, NoTaint
  <2>2. CASE ~sensitive
    <3>1. privacy = exportPrivacy(FALSE)
      BY <2>2
    <3> QED
      BY <3>1, ExclusionsAreSound, ExclusionsAreComplete
  <2> QED
    BY <2>1, <2>2
<1> HIDE DEF privacy
<1>1. ASSUME NEW b \in Known, evidence[b] \cap FromTools = {}, topicOf[b] \notin TouchedPages
      PROVE  b \in tables.claims /\ {b} \X evidence[b] \subseteq tables.claimSources
  <2>1. b \notin privacy.claims
    BY <1>0, <1>1
  <2>2. evidence[b] \subseteq Heard /\ evidence[b] \cap privacy.events = {}
    BY <1>0, <1>1 DEF Known, RowsAreTyped
  <2> QED
    BY <2>1, <2>2 DEF Tables
<1>2. ASSUME NEW r \in Revisions, r[1] \notin TouchedPages
      PROVE  /\ r[1] \in tables.topics /\ r \in tables.revisions
             /\ \A row \in written[r[1]][r[2]].rows :
                  <<r, row[1], row[2]>> \in tables.sections
  <2> DEFINE revision == written[r[1]][r[2]]
  <2>1. /\ r[1] \in Wiki /\ r[2] \in DOMAIN written[r[1]] /\ written[r[1]] # <<>>
        /\ revision \in RevisionRecords /\ IsSourced(r[1], revision)
    BY RevisionsKnown, RevisionFacts, RevisedIsWritten
  <2>2. r[1] \notin privacy.topics /\ r \notin privacy.revisions
    BY <1>0, <1>2
  <2>3. revision.tells \cap FromTools = {}
    BY <1>2, <2>1 DEF TouchedPages, IsTouched
  <2>4. ASSUME NEW row \in revision.rows
        PROVE  <<r, row[1], row[2]>> \in tables.sections
    <3>1. /\ row = <<row[1], row[2]>> /\ row[2] \in Heard
          /\ row[1] \in Beliefs \cup {NoBelief}
      BY <2>1 DEF RevisionRecords
    <3>2. row[2] \notin privacy.events
      BY <1>0, <2>1, <2>3 DEF IsSourced
    <3>3. row[1] \notin privacy.claims
      <4> SUFFICES ASSUME row[1] \in privacy.claims PROVE FALSE
        OBVIOUS
      <4>1. row[1] \in Beliefs /\ topicOf[row[1]] = r[1]
        BY <1>0, <2>1 DEF IsSourced, Known
      <4>2. evidence[row[1]] \cap FromTools # {}
        BY <1>0, <1>2, <4>1
      <4> QED
        BY <1>2, <2>1, <4>1, <4>2 DEF TouchedPages, IsTouched
    <3>4. row[1] \in (Beliefs \ privacy.claims) \cup {NoBelief}
      BY <3>1, <3>3
    <3> QED
      BY <2>2, <3>1, <3>2, <3>4 DEF Tables
  <2> QED
    BY <2>1, <2>2, <2>4 DEF Tables
<1>3. ASSUME NEW n \in Names, called[n] # {},
             (called[n] \cup aliases[n]) \cap FromTools = {}
      PROVE  n \in tables.entities
  <2>1. aliases[n] \cap privacy.claims = {}
    BY <1>0 DEF RowsAreTyped, PortableAssumption, Known
  <2> QED
    BY <1>0, <1>3, <2>1 DEF Tables, TaintedEntities
<1> QED
  BY <1>1, <1>2, <1>3 DEF HasTheRest, privacy

-----------------------------------------------------------------------------
(* What the vault comes to hold *)

\* A page that is given one more revision.
LEMMA OneMoreRevision ==
  ASSUME RowsAreTyped, NEW t \in Wiki, NEW revision \in RevisionRecords,
         written' = [written EXCEPT ![t] = Append(@, revision)]
  PROVE  /\ written' \in [Wiki -> Seq(RevisionRecords)]
         /\ \A s \in Wiki : \A k \in DOMAIN written'[s] :
              \/ k \in DOMAIN written[s] /\ written'[s][k] = written[s][k]
              \/ s = t /\ written'[s][k] = revision
<1>1. written[t] \in Seq(RevisionRecords)
  BY DEF RowsAreTyped
<1> DEFINE longer == Append(written[t], revision)
<1>2. /\ longer \in Seq(RevisionRecords)
      /\ \A k \in DOMAIN longer :
           \/ k \in DOMAIN written[t] /\ longer[k] = written[t][k]
           \/ longer[k] = revision
  BY <1>1
<1> HIDE DEF longer
<1>3. written' = [written EXCEPT ![t] = longer]
  BY DEF longer
<1> QED
  BY <1>2, <1>3 DEF RowsAreTyped

\* While the vault is being written, there is neither an archive nor an import.
LEMMA WriteFacts ==
  ASSUME Write, ImportsAreOfAnArchive
  PROVE  /\ archive' = Nothing /\ imported' = Nothing
         /\ ToolOutputStaysHome' /\ ArchiveIsWhole' /\ ImportsAreOfAnArchive' /\ TheRestArrives'
<1>1. archive' = Nothing /\ imported' = Nothing
  BY DEF Write, ImportsAreOfAnArchive
<1> QED
  BY <1>1 DEF ToolOutputStaysHome, ArchiveIsWhole, ImportsAreOfAnArchive, TheRestArrives

\* Revisions stay sourced where neither they nor the pages of claims change.
LEMMA PagesStaySourced ==
  ASSUME RowsAreTyped, PagesAreSourced, UNCHANGED <<topicOf, written>>
  PROVE  PagesAreSourced'
BY DEF PagesAreSourced, IsSourced

\* A claim that is learned, or said again, is on no page yet.
LEMMA LearnKeeps ==
  ASSUME PortableInv, NEW b \in Beliefs, NEW m \in Heard, LearnBelief(b, m)
  PROVE  PortableInv'
<1>1. RowsAreTyped'
  BY DEF PortableInv, RowsAreTyped, LearnBelief, entityRows
<1>2. PagesAreSourced'
  BY PagesStaySourced DEF PortableInv, LearnBelief
<1>3. NamesAreSourced'
  BY DEF PortableInv, NamesAreSourced, LearnBelief, entityRows
<1> QED
  BY <1>1, <1>2, <1>3, WriteFacts DEF PortableInv, LearnBelief

\* A page that is compiled has rows for all evidence of its claims.
LEMMA CompileKeeps ==
  ASSUME PortableInv, PortableAssumption, NEW t \in Wiki, NEW fresh \in SUBSET Beliefs,
         CompilePage(t, fresh)
  PROVE  PortableInv'
<1> DEFINE claims == {b \in Beliefs : topicOf[b] = t} \cup fresh
           sources == UNION {evidence[b] : b \in claims}
           cited == {row \in claims \X sources : row[2] \in evidence[row[1]]}
           revision == [author |-> "model", rows |-> cited, inputs |-> claims \cup sources,
                        tells |-> sources]
<1>1. /\ written' = [written EXCEPT ![t] = Append(@, revision)]
      /\ topicOf' = [b \in Beliefs |-> IF b \in fresh THEN t ELSE topicOf[b]]
      /\ \A b \in fresh : topicOf[b] = NoWiki
      /\ UNCHANGED <<evidence, called, aliases, mergedAway>>
      /\ Write
  BY Zenon DEF CompilePage, entityRows
<1>2. claims \subseteq Beliefs /\ sources \subseteq Heard
  BY DEF PortableInv, RowsAreTyped
<1>3. \A b \in claims : topicOf'[b] = t
  BY <1>1, <1>2
<1>4. sources = {row[2] : row \in cited}
  <2>1. ASSUME NEW m \in sources PROVE \E row \in cited : m = row[2]
    <3>1. PICK b \in claims : m \in evidence[b]
      OBVIOUS
    <3>2. <<b, m>> \in cited
      BY <3>1
    <3> QED
      BY <3>2
  <2> QED
    BY <2>1
<1>5. revision \in RevisionRecords
  BY <1>2 DEF RevisionRecords
<1>6. /\ revision.tells = {row[2] : row \in revision.rows}
      /\ \A row \in revision.rows : row[1] \in Beliefs => topicOf'[row[1]] = t
      /\ \A x \in revision.inputs : x \in Beliefs => topicOf'[x] = t
      /\ \A x \in revision.inputs : x \in Heard => x \in revision.tells
  <2>1. \A row \in cited : row[1] \in claims
    OBVIOUS
  <2>2. \A x \in claims \cup sources : 
         (x \in Beliefs => x \in claims) /\ (x \in Heard => x \in sources)
    BY <1>2 DEF PortableAssumption
  <2> HIDE DEF cited, sources, claims
  <2> QED
    BY <1>3, <1>4, <2>1, <2>2
<1> HIDE DEF revision
<1>7. /\ written' \in [Wiki -> Seq(RevisionRecords)]
      /\ \A s \in Wiki : \A k \in DOMAIN written'[s] :
           \/ k \in DOMAIN written[s] /\ written'[s][k] = written[s][k]
           \/ s = t /\ written'[s][k] = revision
  BY <1>1, <1>5, OneMoreRevision DEF PortableInv
<1>8. \A b \in Beliefs : topicOf[b] \in Wiki => topicOf'[b] = topicOf[b]
  BY <1>1 DEF PortableAssumption
<1>9. RowsAreTyped'
  BY <1>1, <1>7 DEF PortableInv, RowsAreTyped
<1>10. PagesAreSourced'
  <2> SUFFICES ASSUME NEW s \in Wiki, NEW k \in DOMAIN written'[s]
               PROVE  IsSourced(s, written[s][k])'
    BY DEF PagesAreSourced
  <2>1. CASE s = t /\ written'[s][k] = revision
    BY <1>6, <2>1 DEF IsSourced
  <2>2. CASE k \in DOMAIN written[s] /\ written'[s][k] = written[s][k]
    <3>1. IsSourced(s, written[s][k])
      BY <2>2 DEF PortableInv, PagesAreSourced
    <3> QED
      BY <1>8, <2>2, <3>1 DEF IsSourced
  <2> QED
    BY <1>7, <2>1, <2>2
<1>11. NamesAreSourced'
  BY <1>1 DEF PortableInv, NamesAreSourced
<1> QED
  BY <1>1, <1>9, <1>10, <1>11, WriteFacts DEF PortableInv

\* A user's edit keeps the sources of the text.
LEMMA EditKeeps ==
  ASSUME PortableInv, PortableAssumption, NEW t \in Wiki, EditText(t)
  PROVE  PortableInv'
<1> DEFINE active == ActiveRevision(t)
           sourceIds == {row[2] : row \in active.rows}
           cited == {NoBelief} \X sourceIds
           revision == [author |-> "user", rows |-> cited, inputs |-> sourceIds,
                        tells |-> active.tells]
<1>1. /\ written' = [written EXCEPT ![t] = Append(@, revision)]
      /\ Len(written[t]) >= 1
      /\ UNCHANGED <<evidence, topicOf, called, aliases, mergedAway>>
      /\ Write
  <2>1. /\ written' = [written EXCEPT ![t] = Append(@, revision)]
        /\ Len(written[t]) \in 1..(MaxWritten - 1)
        /\ UNCHANGED <<evidence, topicOf, called, aliases, mergedAway>>
        /\ Write
    BY Zenon DEF EditText, entityRows
  <2> QED
    BY <2>1
<1>2. active \in RevisionRecords /\ IsSourced(t, active)
  <2>1. written[t] \in Seq(RevisionRecords)
    BY DEF PortableInv, RowsAreTyped
  <2>2. Len(written[t]) \in DOMAIN written[t]
    BY <1>1, <2>1
  <2> QED
    BY <2>1, <2>2 DEF PortableInv, PagesAreSourced, ActiveRevision
<1>3. sourceIds = active.tells /\ sourceIds \subseteq Heard
  BY <1>2 DEF IsSourced, RevisionRecords
<1>4. revision \in RevisionRecords
  BY <1>2, <1>3 DEF RevisionRecords
<1>5. IsSourced(t, revision)
  <2>1. active.tells = {row[2] : row \in cited}
    <3>1. ASSUME NEW m \in sourceIds PROVE \E row \in cited : m = row[2]
      <4>1. <<NoBelief, m>> \in cited
        OBVIOUS
      <4> QED
        BY <4>1
    <3> QED
      BY <1>3, <3>1
  <2>2. \A row \in cited : row[1] \notin Beliefs
    BY DEF PortableAssumption
  <2>3. \A x \in sourceIds : x \notin Beliefs /\ x \in active.tells
    BY <1>3 DEF PortableAssumption
  <2> HIDE DEF cited, sourceIds
  <2> QED
    BY <2>1, <2>2, <2>3 DEF IsSourced
<1> HIDE DEF revision
<1>6. /\ written' \in [Wiki -> Seq(RevisionRecords)]
      /\ \A s \in Wiki : \A k \in DOMAIN written'[s] :
           \/ k \in DOMAIN written[s] /\ written'[s][k] = written[s][k]
           \/ s = t /\ written'[s][k] = revision
  BY <1>1, <1>4, OneMoreRevision DEF PortableInv
<1>7. RowsAreTyped'
  BY <1>1, <1>6 DEF PortableInv, RowsAreTyped
<1>8. PagesAreSourced'
  <2> SUFFICES ASSUME NEW s \in Wiki, NEW k \in DOMAIN written'[s]
               PROVE  IsSourced(s, written[s][k])'
    BY DEF PagesAreSourced
  <2>1. IsSourced(s, written'[s][k])
    BY <1>5, <1>6 DEF PortableInv, PagesAreSourced
  <2> QED
    BY <1>1, <2>1 DEF IsSourced
<1>9. NamesAreSourced'
  BY <1>1 DEF PortableInv, NamesAreSourced
<1> QED
  BY <1>1, <1>7, <1>8, <1>9, WriteFacts DEF PortableInv

\* An entity is named by its first alias.
LEMMA MentionKeeps ==
  ASSUME PortableInv, NEW n \in Names, NEW m \in Heard, MentionName(n, m)
  PROVE  PortableInv'
<1>1. RowsAreTyped'
  BY DEF PortableInv, RowsAreTyped, MentionName, memoryRows
<1>2. PagesAreSourced'
  BY PagesStaySourced DEF PortableInv, MentionName, memoryRows
<1>3. NamesAreSourced'
  BY DEF PortableInv, RowsAreTyped, NamesAreSourced, MentionName
<1> QED
  BY <1>1, <1>2, <1>3, WriteFacts DEF PortableInv, MentionName

\* A relation changes nothing of pages and names.
LEMMA RelateKeeps ==
  ASSUME PortableInv, NEW n \in Names, NEW o \in Names, NEW m \in Heard, RelateNames(n, o, m)
  PROVE  PortableInv'
<1>1. UNCHANGED <<evidence, topicOf, written, called, aliases, mergedAway>> /\ Write
  BY DEF RelateNames, memoryRows
<1>2. RowsAreTyped' /\ NamesAreSourced'
  BY <1>1 DEF PortableInv, RowsAreTyped, NamesAreSourced
<1>3. PagesAreSourced'
  BY <1>1, PagesStaySourced DEF PortableInv
<1> QED
  BY <1>1, <1>2, <1>3, WriteFacts DEF PortableInv

\* A merge takes aliases from the entity that is merged away only.
LEMMA MergeKeeps ==
  ASSUME PortableInv, NEW n \in Names, NEW o \in Names, MergeNames(n, o)
  PROVE  PortableInv'
<1>1. /\ UNCHANGED <<evidence, topicOf, written, called>> /\ Write
      /\ aliases' = [aliases EXCEPT ![n] = {}, ![o] = @ \cup aliases[n]]
      /\ mergedAway' = mergedAway \cup {n}
      /\ n # o
  BY Zenon DEF MergeNames, memoryRows
<1>2. aliases' \in [Names -> SUBSET Heard]
  BY <1>1 DEF PortableInv, RowsAreTyped
<1>3. \A x \in Names \ {n} : aliases[x] \subseteq aliases'[x]
  BY <1>1 DEF PortableInv, RowsAreTyped
<1>4. RowsAreTyped' /\ NamesAreSourced'
  BY <1>1, <1>2, <1>3 DEF PortableInv, RowsAreTyped, NamesAreSourced
<1>5. PagesAreSourced'
  BY <1>1, PagesStaySourced DEF PortableInv
<1> QED
  BY <1>1, <1>4, <1>5, WriteFacts DEF PortableInv

-----------------------------------------------------------------------------
(* Exports and imports *)

\* An export writes an archive that is clean, if it is to be, and whole.
LEMMA ExportKeeps ==
  ASSUME PortableInv, PortableAssumption,
         NEW sensitive \in BOOLEAN, NEW withFiles \in BOOLEAN, Export(sensitive, withFiles)
  PROVE  PortableInv'
<1> DEFINE tables == Tables(exportPrivacy(sensitive))
<1>1. /\ archive = Nothing
      /\ archive' = [sensitive |-> sensitive, withFiles |-> withFiles, tables |-> tables]
      /\ UNCHANGED <<evidence, topicOf, written, called, aliases, mergedAway, ties, imported>>
  BY Zenon DEF Export, memoryRows, entityRows
<1>2. HasTheRest(tables) /\ (~sensitive => HasNoToolOutput(tables))
  <2>1. HasTheRest(tables)
    BY ExportIsWhole DEF PortableInv
  <2>2. ~sensitive => tables = Tables(exportPrivacy(FALSE))
    OBVIOUS
  <2> HIDE DEF tables
  <2> QED
    BY <2>1, <2>2, ExportIsClean DEF PortableInv
<1>3. PICK archived : archived = tables
  OBVIOUS
<1>4. /\ archive'.sensitive = sensitive /\ archive'.tables = archived
      /\ HasTheRest(archived) /\ (~sensitive => HasNoToolOutput(archived))
  BY <1>1, <1>2, <1>3
<1> HIDE DEF tables
<1>5. RowsAreTyped' /\ NamesAreSourced' /\ PagesAreSourced'
  BY <1>1, PagesStaySourced DEF PortableInv, RowsAreTyped, NamesAreSourced
<1>6. ToolOutputStaysHome'
  BY <1>1, <1>4 DEF ToolOutputStaysHome, HasNoToolOutput
<1>7. ArchiveIsWhole'
  BY <1>1, <1>4 DEF ArchiveIsWhole, HasTheRest, Known, Revisions, TouchedPages, IsTouched
<1>8. imported' = Nothing
  BY <1>1 DEF PortableInv, ImportsAreOfAnArchive
<1> QED
  BY <1>5, <1>6, <1>7, <1>8 DEF PortableInv, ImportsAreOfAnArchive, TheRestArrives

\* An import takes over its tables, or has every message compiled again.
LEMMA ImportKeeps ==
  ASSUME PortableInv, NEW mode \in {"replace", "fresh"}, Import(mode)
  PROVE  PortableInv'
<1> DEFINE tables == IF mode = "fresh" THEN Raw(archive.tables) ELSE archive.tables
           statuses == [f \in Files |-> FileStatus(f, archive.withFiles)]
           jobs == Rebuilds(mode, archive.withFiles)
<1>1. /\ archive # Nothing
      /\ imported' = [mode |-> mode, tables |-> tables, files |-> statuses, jobs |-> jobs]
      /\ UNCHANGED <<evidence, topicOf, written, called, aliases, mergedAway, ties, archive>>
  BY Zenon DEF Import, Verified, memoryRows, entityRows
<1>2. \A f \in Files :
        \/ statuses[f] = "ready" /\ f \in Chunked /\ <<"embed", f>> \in jobs
        \/ statuses[f] = "queued" /\ <<"extract", f>> \in jobs
        \/ statuses[f] = "failed" /\ ~archive.withFiles
  <2> SUFFICES ASSUME NEW f \in Files
               PROVE  \/ statuses[f] = "ready" /\ f \in Chunked /\ <<"embed", f>> \in jobs
                      \/ statuses[f] = "queued" /\ <<"extract", f>> \in jobs
                      \/ statuses[f] = "failed" /\ ~archive.withFiles
    OBVIOUS
  <2>1. CASE ~archive.withFiles
    BY <2>1 DEF FileStatus
  <2>2. CASE archive.withFiles /\ f \in Chunked
    BY <2>2 DEF FileStatus, Rebuilds
  <2>3. CASE archive.withFiles /\ f \notin Chunked
    BY <2>3 DEF FileStatus, Rebuilds
  <2> QED
    BY <2>1, <2>2, <2>3
<1>3. IF mode = "replace"
        THEN /\ tables = archive.tables
             /\ {"embed"} \X (archive.tables.claims \cup archive.tables.topics) \subseteq jobs
        ELSE {"compile"} \X (Heard \ FromTools) \subseteq jobs
  BY DEF Rebuilds
<1>4. PICK arrived, statusOf, started : arrived = tables /\ statusOf = statuses /\ started = jobs
  OBVIOUS
<1>5. /\ imported'.mode = mode /\ imported'.tables = arrived
      /\ imported'.files = statusOf /\ imported'.jobs = started
  BY <1>1, <1>4
<1>6. /\ \A f \in Files :
           \/ statusOf[f] = "ready" /\ f \in Chunked /\ <<"embed", f>> \in started
           \/ statusOf[f] = "queued" /\ <<"extract", f>> \in started
           \/ statusOf[f] = "failed" /\ ~archive.withFiles
      /\ IF mode = "replace"
           THEN /\ arrived = archive.tables
                /\ {"embed"} \X (archive.tables.claims \cup archive.tables.topics)
                     \subseteq started
           ELSE {"compile"} \X (Heard \ FromTools) \subseteq started
  BY <1>2, <1>3, <1>4
<1> HIDE DEF tables, statuses, jobs
<1>7. RowsAreTyped' /\ NamesAreSourced' /\ PagesAreSourced'
  BY <1>1, PagesStaySourced DEF PortableInv, RowsAreTyped, NamesAreSourced
<1>8. ToolOutputStaysHome'
  BY <1>1 DEF PortableInv, ToolOutputStaysHome
<1>9. HasTheRest(archive.tables)' /\ ArchiveIsWhole' /\ HasTheRest(archive.tables)
  BY <1>1 DEF PortableInv, ArchiveIsWhole, HasTheRest, Known, Revisions, TouchedPages, IsTouched
<1>10. TheRestArrives'
  <2>1. \A f \in Files :
          CASE imported'.files[f] = "ready" -> f \in Chunked /\ <<"embed", f>> \in imported'.jobs
            [] imported'.files[f] = "queued" -> <<"extract", f>> \in imported'.jobs
            [] OTHER -> ~archive'.withFiles
    BY <1>1, <1>5, <1>6
  <2>2. CASE mode = "replace"
    <3>1. /\ imported'.tables = archive.tables
          /\ {"embed"} \X (imported'.tables.claims \cup imported'.tables.topics)
               \subseteq imported'.jobs
      BY <1>5, <1>6, <2>2
    <3>2. HasTheRest(imported.tables)'
      BY <1>1, <1>9, <3>1 DEF HasTheRest
    <3> QED
      BY <1>5, <2>1, <2>2, <3>1, <3>2 DEF TheRestArrives, HasTheRest, TouchedPages, IsTouched
  <2>3. CASE mode = "fresh"
    BY <1>5, <1>6, <2>1, <2>3 DEF TheRestArrives
  <2> QED
    BY <2>2, <2>3
<1> QED
  BY <1>1, <1>7, <1>8, <1>9, <1>10 DEF PortableInv, ImportsAreOfAnArchive

\* An empty vault has no revisions and no archive.
LEMMA PortableInitInv == PortableInit => PortableInv
<1> SUFFICES ASSUME PortableInit PROVE PortableInv
  OBVIOUS
<1>1. RowsAreTyped
  BY DEF PortableInit, RowsAreTyped
<1>2. PagesAreSourced
  BY DEF PortableInit, PagesAreSourced
<1>3. NamesAreSourced /\ ArchiveIsWhole /\ ImportsAreOfAnArchive
  BY DEF PortableInit, NamesAreSourced, ArchiveIsWhole, ImportsAreOfAnArchive
<1> QED
  BY <1>1, <1>2, <1>3 DEF PortableInit, PortableInv, ToolOutputStaysHome, TheRestArrives

\* Every step keeps the invariant.
LEMMA PortableStepInv == PortableInv /\ [PortableNext]_portableVars => PortableInv'
<1> SUFFICES ASSUME PortableInv, [PortableNext]_portableVars PROVE PortableInv'
  OBVIOUS
<1>1. ASSUME NEW b \in Beliefs, NEW m \in Heard, LearnBelief(b, m) PROVE PortableInv'
  BY <1>1, LearnKeeps
<1>2. ASSUME NEW t \in Wiki, NEW fresh \in SUBSET Beliefs, CompilePage(t, fresh)
      PROVE  PortableInv'
  BY <1>2, CompileKeeps, PortableAssumption
<1>3. ASSUME NEW t \in Wiki, EditText(t) PROVE PortableInv'
  BY <1>3, EditKeeps, PortableAssumption
<1>4. ASSUME NEW n \in Names, NEW m \in Heard, MentionName(n, m) PROVE PortableInv'
  BY <1>4, MentionKeeps
<1>5. ASSUME NEW n \in Names, NEW o \in Names, NEW m \in Heard, RelateNames(n, o, m)
      PROVE  PortableInv'
  BY <1>5, RelateKeeps
<1>6. ASSUME NEW n \in Names, NEW o \in Names, MergeNames(n, o) PROVE PortableInv'
  BY <1>6, MergeKeeps
<1>7. ASSUME NEW sensitive \in BOOLEAN, NEW withFiles \in BOOLEAN, Export(sensitive, withFiles)
      PROVE  PortableInv'
  BY <1>7, ExportKeeps, PortableAssumption
<1>8. ASSUME NEW mode \in {"replace", "fresh"}, Import(mode) PROVE PortableInv'
  BY <1>8, ImportKeeps
<1>9. CASE UNCHANGED portableVars
  <2>1. UNCHANGED <<evidence, topicOf, written, called, aliases, mergedAway, ties, archive,
                    imported>>
    BY <1>9 DEF portableVars, memoryRows, entityRows
  <2>2. RowsAreTyped' /\ NamesAreSourced' /\ PagesAreSourced'
    BY <2>1, PagesStaySourced DEF PortableInv, RowsAreTyped, NamesAreSourced
  <2>3. ToolOutputStaysHome' /\ ImportsAreOfAnArchive'
    BY <2>1 DEF PortableInv, ToolOutputStaysHome, ImportsAreOfAnArchive
  <2>4. ArchiveIsWhole'
    BY <2>1 DEF PortableInv, ArchiveIsWhole, HasTheRest, Known, Revisions, TouchedPages,
                IsTouched
  <2>5. TheRestArrives'
    BY <2>1 DEF PortableInv, TheRestArrives, Known, Revisions
  <2> QED
    BY <2>2, <2>3, <2>4, <2>5 DEF PortableInv
<1> QED
  BY <1>1, <1>2, <1>3, <1>4, <1>5, <1>6, <1>7, <1>8, <1>9, Zenon DEF PortableNext

\* The invariant holds throughout.
LEMMA PortableInvariant == PortableSpec => []PortableInv
<1>1. PortableInit => PortableInv
  BY PortableInitInv
<1>2. PortableInv /\ [PortableNext]_portableVars => PortableInv'
  BY PortableStepInv
<1> QED
  BY <1>1, <1>2, PTL DEF PortableSpec

\* Nothing in an archive without tool output is made of the words of a tool, in
\* whatever order claims were learned, pages compiled and edited and entities
\* merged before the export (exportPrivacy, exportedRows).
THEOREM ToolOutputIsLeftBehind == PortableSpec => []ToolOutputStaysHome
<1>1. PortableInv => ToolOutputStaysHome
  BY DEF PortableInv
<1> QED
  BY <1>1, PortableInvariant, PTL

\* Whatever tool output has no part in is in the archive with all its evidence, and
\* in the vault it is imported into, where what has no rows in an archive is made
\* again by a job (exportPrivacy, importVault).
THEOREM TheRestIsNotLost == PortableSpec => []TheRestArrives
<1>1. PortableInv => TheRestArrives
  BY DEF PortableInv
<1> QED
  BY <1>1, PortableInvariant, PTL

=============================================================================
