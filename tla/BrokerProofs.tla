---------------------------- MODULE BrokerProofs ------------------------------
(***************************************************************************)
(* What the daemon lets out, and with which keys.  The promises of           *)
(* InferenceRoutes hold for every set of roots, names, keys and values and   *)
(* any number of failed writes and restarts.  GrantStore: revocations are    *)
(* final, a bearer has one grant, and only a grant in force admits a         *)
(* request, for any grants, requests, clock and failures.                    *)
(***************************************************************************)
EXTENDS InferenceRoutes, GrantStore, TLAPS

\* Everything a restart may load is among the contents at risk.
FilesAtRisk == bookFile \in bookRisk /\ vaultFile \in vaultRisk

\* b is recorded in B: its block and its route.
RecordIn(B, b) == b \in B.blocks /\ RouteOf(b) \in B.routes

\* The request under the gates found no conflict, and what it learned is true
\* until it writes.
JobClear ==
  job # None => /\ ~Conflict(job.binding)
                /\ job.at = "claimed" => job.owned = Owned(job.binding)

\* After the first of its two writes.
JobHalfway ==
  /\ job # None /\ job.at # "claimed" => (job.kind = "install") <=> (job.at = "recorded")
  /\ job # None /\ job.kind = "install" => job.value \in Value
  /\ At("install", "recorded") =>
       /\ \A B \in Books : RecordIn(B, job.binding)
       /\ promise[job.binding.key].by = "install" => promise[job.binding.key].value = job.value
  /\ At("remove", "deleted") => \A V \in Vaults : V[job.binding.key] = None

\* An operator's promise is given, and stays, only where no inference route
\* owns the key.
OperatorFree == \A k \in Key : promise[k].by = "operator" => ~Recorded(k)

Data == /\ KeyIsRecorded /\ ForeignKept /\ InstallKept /\ RemovalFinal /\ HostHasOneRoot
        /\ OperatorFree

IInv == TypeOK /\ FilesAtRisk /\ JobClear /\ JobHalfway /\ Data

-----------------------------------------------------------------------------
(* The two files. *)

\* Whatever becomes of a write, the contents at risk are the old ones and the
\* new one (atomic_json.rs).
LEMMA BookWrite ==
  ASSUME NEW B, FilesAtRisk, BookSaved(B) \/ BookFails(B)
  PROVE  Books' \subseteq Books \cup {B} /\ bookFile' \in bookRisk'
  BY DEF FilesAtRisk, BookSaved, BookFails, Books

\* The same of credentials.json (secrets/mod.rs save).
LEMMA VaultWrite ==
  ASSUME NEW V, FilesAtRisk, VaultSaved(V) \/ VaultFails(V)
  PROVE  Vaults' \subseteq Vaults \cup {V} /\ vaultFile' \in vaultRisk'
  BY DEF FilesAtRisk, VaultSaved, VaultFails, Vaults

\* A restart loads nothing that was not at risk.
LEMMA RestartLoads ==
  ASSUME FilesAtRisk, Restart
  PROVE  Books' \subseteq Books /\ Vaults' \subseteq Vaults /\ FilesAtRisk'
  BY DEF FilesAtRisk, Restart, Books, Vaults

-----------------------------------------------------------------------------
(* Types. *)

\* The declarations a request writes are well typed (sync_managed_routes_locked).
LEMMA BooksMade ==
  ASSUME NEW B \in Book, NEW b \in Binding, NEW r
  PROVE  With(B, b) \in Book /\ Without(B, r) \in Book
  BY DEF With, Without, RouteOf, Book, Block, Route, Binding

\* What a write and a change of the promises leave is well typed.
LEMMA BookTypes ==
  ASSUME TypeOK, NEW B \in Book, BookSaved(B) \/ BookFails(B)
  PROVE  book' \in Book /\ bookFile' \in Book /\ bookRisk' \subseteq Book /\ faults' \in Nat
  BY DEF TypeOK, BookSaved, BookFails, Fault

\* The same of a write of the vault.
LEMMA VaultTypes ==
  ASSUME TypeOK, NEW V \in Vault, VaultSaved(V) \/ VaultFails(V)
  PROVE  vault' \in Vault /\ vaultFile' \in Vault /\ vaultRisk' \subseteq Vault /\ faults' \in Nat
  BY DEF TypeOK, VaultSaved, VaultFails, Fault

\* A changed promise is still a promise.
LEMMA PromiseTypes ==
  ASSUME TypeOK, NEW k \in Key, NEW p \in Promise, NEW by,
         \/ promise' = [promise EXCEPT ![k] = p]
         \/ Breaks(k, by)
         \/ UNCHANGED promise
  PROVE  promise' \in [Key -> Promise]
<1>1. Nothing \in Promise
  BY DEF Nothing, Promise
<1> QED BY <1>1 DEF TypeOK, Breaks

\* A vault with one key set or removed is a vault (install_owned_local, unset_local).
LEMMA VaultMade ==
  ASSUME TypeOK, NEW k \in Key, NEW v \in Value, NEW by \in {"install", "operator"}
  PROVE  /\ [vault EXCEPT ![k] = [value |-> v, by |-> by]] \in Vault
         /\ [vault EXCEPT ![k] = None] \in Vault
  BY DEF TypeOK, Vault, Entry

\* A request that advances or ends is still a request.
LEMMA JobTypes ==
  ASSUME TypeOK, NEW at \in {"recorded", "deleted"}, job # None, Advance(at) \/ job' = None
  PROVE  job' \in Job \cup {None}
  BY DEF TypeOK, Job, Advance

\* Every step keeps the types, and keeps the files among the contents at risk.
LEMMA TypeStep ==
  ASSUME TypeOK, FilesAtRisk, JobHalfway, Next
  PROVE  TypeOK' /\ FilesAtRisk'
<1> USE DEF FilesAtRisk
<1> DEFINE b == job.binding
<1>0. job # None => b \in Binding /\ b.key \in Key /\ b.root \in Root
  BY DEF TypeOK, Job, Binding
<1>1. ASSUME NEW c \in Binding, NEW v \in Value \cup {None}, NEW kind \in {"install", "remove"},
             Claim(kind, c, v)
      PROVE  TypeOK' /\ FilesAtRisk'
  <2>1. Owned(c) \in BOOLEAN
    BY DEF Owned
  <2>2. job' \in Job
    BY <1>1, <2>1 DEF Claim, Job
  <2> QED BY <1>1, <2>2 DEF Claim, TypeOK, bookVars, vaultVars
<1>2. CASE RefuseKey
  BY <1>2 DEF RefuseKey, TypeOK, bookVars, vaultVars
<1>3. CASE Record
  <2>1. job # None /\ (BookSaved(With(book, b)) \/ BookFails(With(book, b)))
        /\ (Advance("recorded") \/ job' = None) /\ Breaks(b.key, "removal")
    BY <1>3 DEF Record, At
  <2>2. With(book, b) \in Book
    BY <1>0, <2>1, BooksMade DEF TypeOK
  <2>3. Nothing \in Promise
    BY DEF Nothing, Promise
  <2>4. job' \in Job \cup {None}
    BY <2>1, JobTypes
  <2>5. promise' \in [Key -> Promise]
    BY <1>0, <2>1, <2>3, PromiseTypes
  <2>6. book' \in Book /\ bookFile' \in Book /\ bookRisk' \subseteq Book /\ faults' \in Nat
        /\ bookFile' \in bookRisk'
    BY <2>1, <2>2, BookTypes, BookWrite
  <2> QED BY <1>3, <2>4, <2>5, <2>6 DEF Record, TypeOK, vaultVars
<1>4. CASE SaveKey
  <2> DEFINE V == [vault EXCEPT ![b.key] = [value |-> job.value, by |-> "install"]]
             q == [by |-> "install", value |-> job.value]
  <2>1. job # None /\ (VaultSaved(V) \/ VaultFails(V)) /\ job' = None
        /\ (promise' = [promise EXCEPT ![b.key] = q] \/ UNCHANGED promise)
    BY <1>4 DEF SaveKey, At
  <2>2. job.value \in Value
    BY <1>4 DEF JobHalfway, SaveKey, At
  <2>3. V \in Vault
    BY <1>0, <2>1, <2>2, VaultMade
  <2>4. q \in Promise
    BY <2>2 DEF Promise
  <2>5. promise' \in [Key -> Promise]
    BY <1>0, <2>1, <2>4, PromiseTypes
  <2>6. vault' \in Vault /\ vaultFile' \in Vault /\ vaultRisk' \subseteq Vault /\ faults' \in Nat
        /\ vaultFile' \in vaultRisk'
    BY <2>1, <2>3, VaultTypes, VaultWrite
  <2> QED BY <1>4, <2>1, <2>5, <2>6 DEF SaveKey, TypeOK, bookVars
<1>5. CASE DeleteKey
  <2> DEFINE V == [vault EXCEPT ![b.key] = None]
  <2>1. job # None /\ (VaultSaved(V) \/ VaultFails(V)) /\ (Advance("deleted") \/ job' = None)
        /\ Breaks(b.key, "install")
    BY <1>5 DEF DeleteKey, At
  <2>2. V \in Vault
    BY <1>0, <2>1 DEF TypeOK, Vault
  <2>3. Nothing \in Promise
    BY DEF Nothing, Promise
  <2>4. job' \in Job \cup {None}
    BY <2>1, JobTypes
  <2>5. promise' \in [Key -> Promise]
    BY <1>0, <2>1, <2>3, PromiseTypes
  <2>6. vault' \in Vault /\ vaultFile' \in Vault /\ vaultRisk' \subseteq Vault /\ faults' \in Nat
        /\ vaultFile' \in vaultRisk'
    BY <2>1, <2>2, VaultTypes, VaultWrite
  <2> QED BY <1>5, <2>4, <2>5, <2>6 DEF DeleteKey, TypeOK, bookVars
<1>6. CASE DropRecord
  <2>1. job # None /\ (BookSaved(Without(book, b.root)) \/ BookFails(Without(book, b.root)))
        /\ job' = None
        /\ (promise' = [promise EXCEPT ![b.key] = Removed] \/ UNCHANGED promise)
    BY <1>6 DEF DropRecord, At
  <2>2. Without(book, b.root) \in Book
    BY <1>0, <2>1, BooksMade DEF TypeOK
  <2>3. Removed \in Promise
    BY DEF Removed, Promise
  <2>5. promise' \in [Key -> Promise]
    BY <1>0, <2>1, <2>3, PromiseTypes
  <2>6. book' \in Book /\ bookFile' \in Book /\ bookRisk' \subseteq Book /\ faults' \in Nat
        /\ bookFile' \in bookRisk'
    BY <2>1, <2>2, BookTypes, BookWrite
  <2> QED BY <1>6, <2>1, <2>5, <2>6 DEF DropRecord, TypeOK, vaultVars
<1>7. ASSUME NEW k \in Key, NEW v \in Value, SetLocal(k, v)
      PROVE  TypeOK' /\ FilesAtRisk'
  <2> DEFINE V == [vault EXCEPT ![k] = [value |-> v, by |-> "operator"]]
  <2>1. VaultSaved(V) \/ VaultFails(V)
    BY <1>7 DEF SetLocal
  <2>2. V \in Vault
    BY VaultMade
  <2>3. Nothing \in Promise /\ [by |-> "operator", value |-> v] \in Promise
    BY DEF Nothing, Promise
  <2>4. \E p \in Promise : promise' = [promise EXCEPT ![k] = p]
    BY <1>7, <2>3 DEF SetLocal
  <2>5. promise' \in [Key -> Promise]
    BY <2>4, PromiseTypes
  <2>6. vault' \in Vault /\ vaultFile' \in Vault /\ vaultRisk' \subseteq Vault /\ faults' \in Nat
        /\ vaultFile' \in vaultRisk'
    BY <2>1, <2>2, VaultTypes, VaultWrite
  <2> QED BY <1>7, <2>5, <2>6 DEF SetLocal, TypeOK, bookVars
<1>8. ASSUME NEW k \in Key, UnsetLocal(k)
      PROVE  TypeOK' /\ FilesAtRisk'
  <2> DEFINE V == [vault EXCEPT ![k] = None]
  <2>1. VaultSaved(V) \/ VaultFails(V)
    BY <1>8 DEF UnsetLocal
  <2>2. V \in Vault
    BY DEF TypeOK, Vault
  <2>3. Nothing \in Promise
    BY DEF Nothing, Promise
  <2>5. promise' \in [Key -> Promise]
    BY <1>8, <2>3, PromiseTypes DEF UnsetLocal
  <2>6. vault' \in Vault /\ vaultFile' \in Vault /\ vaultRisk' \subseteq Vault /\ faults' \in Nat
        /\ vaultFile' \in vaultRisk'
    BY <2>1, <2>2, VaultTypes, VaultWrite
  <2> QED BY <1>8, <2>5, <2>6 DEF UnsetLocal, TypeOK, bookVars
<1>9. ASSUME NEW p \in Repo, NEW blocks \in SUBSET Block, NEW routes \in SUBSET Route,
             Sync(p, blocks, routes)
      PROVE  TypeOK' /\ FilesAtRisk'
  <2> DEFINE B == [blocks |-> Without(book, p).blocks \cup blocks,
                   routes |-> Without(book, p).routes \cup routes]
  <2>1. BookSaved(B) \/ BookFails(B)
    BY <1>9 DEF Sync
  <2>2. B \in Book
    BY DEF TypeOK, Without, Book
  <2>3. book' \in Book /\ bookFile' \in Book /\ bookRisk' \subseteq Book /\ faults' \in Nat
        /\ bookFile' \in bookRisk'
    BY <2>1, <2>2, BookTypes, BookWrite
  <2> QED BY <1>9, <2>3 DEF Sync, TypeOK, vaultVars
<1>10. ASSUME NEW n \in Name, NEW blocks \in SUBSET Block, EditGlobal(n, blocks)
       PROVE  TypeOK' /\ FilesAtRisk'
  <2> DEFINE B == [book EXCEPT !.blocks = {x \in @ : x.name # n} \cup blocks]
  <2>1. BookSaved(B) \/ BookFails(B)
    BY <1>10 DEF EditGlobal
  <2>2. B \in Book
    BY DEF TypeOK, Book
  <2>3. book' \in Book /\ bookFile' \in Book /\ bookRisk' \subseteq Book /\ faults' \in Nat
        /\ bookFile' \in bookRisk'
    BY <2>1, <2>2, BookTypes, BookWrite
  <2> QED BY <1>10, <2>3 DEF EditGlobal, TypeOK, vaultVars
<1>11. CASE Restart
  BY <1>11 DEF Restart, TypeOK
<1>12. \A p \in Repo : Declared(p, Block) \subseteq SUBSET Block /\ Declared(p, Route) \subseteq SUBSET Route
  BY DEF Declared
<1>13. \A n \in Name : {{}} \cup {{[root |-> Global, name |-> n, key |-> k]} : k \in Key} \subseteq SUBSET Block
  BY DEF Block
<1> QED BY <1>1, <1>2, <1>3, <1>4, <1>5, <1>6, <1>7, <1>8, <1>9, <1>10, <1>11, <1>12, <1>13 DEF Next

-----------------------------------------------------------------------------
(* What the request under the gates may rely on. *)

\* A record the request found is its own, and is all there is under its root
\* and its key (supervisor.rs inference_route_owned).
LEMMA OwnRecord ==
  ASSUME TypeOK, JobClear, job # None, job.at = "claimed", job.owned
  PROVE  RecordIn(book, job.binding) /\ Recorded(job.binding.key)
<1>1. job.binding \in Binding
  BY DEF TypeOK, Job
<1>2. PICK x \in book.blocks : x.name = job.binding.name
  BY DEF JobClear, Owned
<1>3. PICK y \in book.routes : y.name = job.binding.name
  BY DEF JobClear, Owned
<1>4. x = job.binding /\ y = RouteOf(job.binding)
  BY <1>2, <1>3 DEF JobClear, Conflict
<1> QED BY <1>1, <1>2, <1>3, <1>4 DEF RecordIn, Recorded, Binding

\* Replacing the declarations of its root leaves every other record alone.
LEMMA OtherRecord ==
  ASSUME TypeOK, JobClear, job # None, NEW c \in Binding, RecordIn(book, c), c # job.binding
  PROVE  /\ c.key # job.binding.key
         /\ RecordIn(With(book, job.binding), c)
         /\ RecordIn(Without(book, job.binding.root), c)
<1>1. c \in book.blocks /\ RouteOf(c) \in book.routes
  BY DEF RecordIn
<1>2. c.root # job.binding.root /\ c.key # job.binding.key
  BY <1>1 DEF JobClear, Conflict
<1>3. RouteOf(c).root = c.root
  BY DEF RouteOf
<1> QED BY <1>1, <1>2, <1>3 DEF RecordIn, With, Without

\* The record that was written is there (sync_managed_routes_locked).
LEMMA NewRecord ==
  ASSUME NEW B, NEW b
  PROVE  RecordIn(With(B, b), b)
  BY DEF RecordIn, With

\* What an operator was promised about the key, the request does not pass
\* (secrets/mod.rs "owned inference credential conflict").
LEMMA NotTheOperators ==
  ASSUME TypeOK, JobClear, OperatorFree, ForeignKept, job # None, job.at = "claimed", ~KeyTaken
  PROVE  promise[job.binding.key].by # "operator"
<1> DEFINE k == job.binding.key
<1>1. k \in Key
  BY DEF TypeOK, Job, Binding
<1> SUFFICES ASSUME promise[k].by = "operator" PROVE FALSE
  OBVIOUS
<1>2. promise[k] \in Promise
  BY <1>1 DEF TypeOK
<1>3. PICK v \in Value : promise[k] = [by |-> "operator", value |-> v]
  BY <1>2 DEF Promise, Nothing, Removed
<1>4. vault[k] # None
  BY <1>1, <1>3 DEF ForeignKept, Vaults
<1>5. job.owned
  BY <1>4 DEF KeyTaken
<1>6. Recorded(k)
  BY <1>5, OwnRecord
<1> QED BY <1>1, <1>6 DEF OperatorFree

-----------------------------------------------------------------------------
(* The steps. *)

\* A step that changes neither file nor promise keeps what is said of them.
LEMMA DataSame ==
  ASSUME Data, UNCHANGED <<bookVars, vaultVars, promise>>
  PROVE  Data'
  BY DEF Data, KeyIsRecorded, ForeignKept, InstallKept, RemovalFinal, HostHasOneRoot, OperatorFree,
         Recorded, Books, Vaults, bookVars, vaultVars

\* A claim learns the truth: no conflict, and whether the record exists
\* (inference_route_owned).
LEMMA ClaimStep ==
  ASSUME IInv, NEW b \in Binding, NEW v, NEW kind \in {"install", "remove"}, Claim(kind, b, v),
         kind = "install" => v \in Value
  PROVE  Data' /\ JobClear' /\ JobHalfway'
<1>1. Data'
  BY DataSame DEF IInv, Claim
<1>2. job' # None => job'.at = "claimed" /\ job'.binding = b /\ job'.owned = Owned(b)
  BY DEF Claim
<1>3. book' = book
  BY DEF Claim, bookVars
<1>4. ~Conflict(b)' /\ (Owned(b)' <=> Owned(b))
  BY <1>3 DEF Claim, Conflict, Owned
<1>5. JobClear'
  BY <1>2, <1>3, <1>4 DEF JobClear, Claim, Conflict, Owned
<1>6. JobHalfway'
  BY <1>2 DEF JobHalfway, At, Claim
<1> QED BY <1>1, <1>5, <1>6

\* Nothing is asked of a request that is over.
LEMMA NoJob ==
  ASSUME job' = None
  PROVE  JobClear' /\ JobHalfway'
  BY DEF JobClear, JobHalfway, At

\* A refusal for the key changes nothing (secrets/mod.rs, credential conflict).
LEMMA RefuseStep ==
  ASSUME IInv, RefuseKey
  PROVE  Data' /\ JobClear' /\ JobHalfway'
  BY DataSame, NoJob DEF IInv, RefuseKey

\* The first write of an install (sync_managed_routes_locked in prepare).
LEMMA RecordStep ==
  ASSUME IInv, TypeOK', Record
  PROVE  Data' /\ JobClear' /\ JobHalfway'
<1> DEFINE b == job.binding
           N == With(book, b)
<1> USE DEF IInv, Data
<1>1. /\ job # None /\ job.at = "claimed" /\ job.kind = "install" /\ ~KeyTaken
      /\ BookSaved(N) \/ BookFails(N)
      /\ Breaks(b.key, "removal") /\ UNCHANGED <<vault, vaultFile, vaultRisk>>
  BY DEF Record, At, vaultVars
<1>2. b \in Binding /\ b.key \in Key /\ b.root \in Root
  BY <1>1 DEF TypeOK, Job, Binding
<1>3. Books' \subseteq Books \cup {N} /\ Vaults' = Vaults
  BY <1>1, BookWrite DEF Vaults
<1>4. book \in Books
  BY DEF Books
<1>5. ASSUME NEW c \in Binding, RecordIn(book, c) PROVE RecordIn(N, c)
  BY <1>1, <1>5, OtherRecord, NewRecord
<1>6. KeyIsRecorded'
  BY <1>3, <1>4, <1>5 DEF KeyIsRecorded, RecordIn
<1>7. \A k \in Key : promise'[k] = promise[k] \/ (k = b.key /\ promise'[k] = Nothing /\ promise[k].by = "removal")
  BY <1>1, <1>2 DEF Breaks, TypeOK
<1>8. promise'[b.key] # Removed
  BY <1>1, <1>2 DEF Breaks, TypeOK, Removed, Nothing
<1>9. ForeignKept'
  BY <1>3, <1>7 DEF ForeignKept, Nothing
<1>10. InstallKept'
  BY <1>3, <1>4, <1>5, <1>7 DEF InstallKept, RecordIn, Nothing
<1>11. ASSUME NEW k \in Key, k # b.key, Recorded(k)' PROVE Recorded(k)
  <2>1. PICK B \in Books' : \E x \in B.blocks : x.root \in Root /\ x.key = k
    BY <1>11 DEF Recorded, Books
  <2>2. B = N => \E x \in book.blocks : x.root \in Root /\ x.key = k
    BY <1>11, <2>1 DEF With, Without
  <2> QED BY <1>3, <2>1, <2>2 DEF Recorded, Books, FilesAtRisk
<1>12. RemovalFinal'
  BY <1>3, <1>7, <1>8, <1>11 DEF RemovalFinal, Nothing, Removed
<1>13. promise[b.key].by # "operator"
  BY <1>1, NotTheOperators
<1>14. OperatorFree'
  BY <1>7, <1>11, <1>13 DEF OperatorFree, Nothing
<1>15. \A x, y \in N.routes : x.host = y.host => x.root = y.root
  <2>1. \A x \in Without(book, b.root).routes : x \in book.routes /\ x.host # b.name
    BY <1>1 DEF Without, JobClear, Conflict, RouteOf
  <2>2. RouteOf(b).host = b.name
    BY DEF RouteOf
  <2> QED BY <1>4, <2>1, <2>2 DEF With, HostHasOneRoot
<1>16. HostHasOneRoot'
  BY <1>3, <1>15 DEF HostHasOneRoot
<1>17. JobClear' /\ JobHalfway'
  <2>1. CASE job' = None
    BY <2>1, NoJob
  <2>2. CASE BookSaved(N) /\ Advance("recorded")
    <3>1. job' = [job EXCEPT !.at = "recorded"] /\ job \in Job
      BY <1>1, <2>2 DEF Advance, TypeOK
    <3>2. /\ job'.at = "recorded" /\ job'.binding = b /\ job'.kind = "install" /\ job'.value = job.value
          /\ job' # None
      BY <3>1, <1>1, NoneAssumption DEF Job, TypeOK
    <3>3. Books' = {N} /\ book' = N
      BY <2>2 DEF BookSaved, Books
    <3>4. ~Conflict(b)'
      BY <1>1, <3>2, <3>3 DEF Conflict, With, Without, JobClear, RouteOf
    <3>5. job.value \in Value
      BY <1>1 DEF JobHalfway
    <3>6. promise'[b.key].by = "install" => promise'[b.key].value = job.value
      <4> SUFFICES ASSUME promise[b.key].by = "install" PROVE promise[b.key].value = job.value
        BY <1>2, <1>7 DEF Nothing
      <4>1. PICK v \in Value : promise[b.key] = [by |-> "install", value |-> v]
        BY <1>2 DEF TypeOK, Promise, Nothing, Removed
      <4>2. vault[b.key] # None /\ vault[b.key].value = v
        BY <1>2, <4>1 DEF InstallKept, Vaults
      <4> QED BY <1>1, <4>1, <4>2 DEF KeyTaken
    <3> QED BY <3>2, <3>3, <3>4, <3>5, <3>6, NewRecord DEF JobClear, JobHalfway, At
  <2> QED BY <2>1, <2>2 DEF Record
<1> QED BY <1>6, <1>9, <1>10, <1>12, <1>14, <1>16, <1>17

\* The second write of an install: the key, under its durable record.
LEMMA SaveKeyStep ==
  ASSUME IInv, TypeOK', SaveKey
  PROVE  Data' /\ JobClear' /\ JobHalfway'
<1> DEFINE b == job.binding
           k == b.key
           V == [vault EXCEPT ![k] = [value |-> job.value, by |-> "install"]]
           q == [by |-> "install", value |-> job.value]
<1> USE DEF IInv, Data
<1>1. /\ job # None /\ job.at = "recorded" /\ job.kind = "install" /\ job' = None
      /\ \/ VaultSaved(V) /\ promise' = [promise EXCEPT ![k] = q]
         \/ VaultFails(V) /\ UNCHANGED promise
      /\ UNCHANGED <<book, bookFile, bookRisk>>
  BY DEF SaveKey, At, bookVars
<1>2. b \in Binding /\ k \in Key /\ b.root \in Root /\ job.value \in Value
  BY <1>1 DEF TypeOK, Job, Binding, JobHalfway
<1>3. Vaults' \subseteq Vaults \cup {V} /\ Books' = Books
  BY <1>1, VaultWrite DEF Books
<1>4. /\ V[k] = [value |-> job.value, by |-> "install"] /\ V[k] # None
      /\ \A j \in Key : j # k => V[j] = vault[j]
  BY <1>2, NoneAssumption DEF TypeOK, Vault, Entry
<1>5. \A B \in Books : RecordIn(B, b)
  BY <1>1 DEF JobHalfway, At
<1>6. vault \in Vaults /\ book \in Books
  BY DEF Vaults, Books
<1>values. \A W \in Vaults', j \in Key :
        (\E U \in Vaults : W[j] = U[j]) \/ (j = k /\ W[j] = [value |-> job.value, by |-> "install"])
  BY <1>3, <1>4, <1>6
<1>entry. [value |-> job.value, by |-> "install"] # None
  BY <1>4
<1>7. Recorded(k)
  BY <1>2, <1>5, <1>6 DEF Recorded, RecordIn
<1>8. promise[k].by # "operator" /\ promise[k] # Removed
  BY <1>2, <1>7 DEF OperatorFree, RemovalFinal
<1>9. \A j \in Key : promise'[j] = promise[j] \/ (j = k /\ promise'[j] = q /\ Vaults' = {V})
  BY <1>1 DEF TypeOK, VaultSaved, Vaults
<1>10. KeyIsRecorded'
  <2> SUFFICES ASSUME NEW j \in Key, NEW W \in Vaults', W[j] # None, W[j].by = "install", NEW B \in Books
               PROVE  \E c \in Binding : c.key = j /\ c \in B.blocks /\ RouteOf(c) \in B.routes
    BY <1>3 DEF KeyIsRecorded
  <2>1. CASE \E U \in Vaults : W[j] = U[j]
    BY <2>1 DEF KeyIsRecorded
  <2>2. CASE j = k
    BY <1>2, <1>5, <2>2 DEF RecordIn
  <2> QED BY <1>values, <2>1, <2>2
<1>11. ForeignKept'
  <2> SUFFICES ASSUME NEW j \in Key, NEW v \in Value, promise'[j] = [by |-> "operator", value |-> v],
                      NEW W \in Vaults'
               PROVE  W[j] # None /\ W[j].value = v
    BY DEF ForeignKept
  <2>1. j # k /\ promise[j] = [by |-> "operator", value |-> v]
    BY <1>8, <1>9
  <2> QED BY <1>values, <2>1 DEF ForeignKept
<1>12. ASSUME NEW j \in Key, NEW v \in Value, promise'[j] = [by |-> "install", value |-> v]
       PROVE  /\ \A W \in Vaults' : W[j] # None /\ W[j].value = v
              /\ \A B \in Books' : \E c \in Binding : c.key = j /\ c \in B.blocks /\ RouteOf(c) \in B.routes
  <2>1. CASE j = k /\ promise'[j] = q /\ Vaults' = {V}
    BY <1>2, <1>3, <1>4, <1>5, <1>12, <2>1 DEF RecordIn
  <2>2. CASE promise'[j] = promise[j]
    <3>1. j = k => v = job.value
      BY <1>1, <1>12, <2>2 DEF JobHalfway, At
    <3>2. \A W \in Vaults' : W[j] # None /\ W[j].value = v
      BY <1>values, <1>entry, <1>12, <2>2, <3>1 DEF InstallKept
    <3> QED BY <1>3, <1>12, <2>2, <3>2 DEF InstallKept
  <2> QED BY <1>9, <2>1, <2>2
<1>13. InstallKept'
  BY <1>12 DEF InstallKept
<1>14. \A j \in Key : Recorded(j)' <=> Recorded(j)
  BY <1>1 DEF Recorded
<1>15. RemovalFinal'
  <2> SUFFICES ASSUME NEW j \in Key, promise'[j] = Removed
               PROVE  (\A W \in Vaults' : W[j] = None) /\ ~Recorded(j)
    BY <1>14 DEF RemovalFinal
  <2>1. j # k /\ promise[j] = Removed
    BY <1>8, <1>9 DEF Removed
  <2> QED BY <1>values, <2>1 DEF RemovalFinal
<1>16. OperatorFree'
  BY <1>9, <1>14 DEF OperatorFree
<1>17. HostHasOneRoot'
  BY <1>3 DEF HostHasOneRoot
<1> QED BY <1>1, <1>10, <1>11, <1>13, <1>15, <1>16, <1>17, NoJob

\* The first write of a removal: the key, while its record stays.
LEMMA DeleteKeyStep ==
  ASSUME IInv, TypeOK', DeleteKey
  PROVE  Data' /\ JobClear' /\ JobHalfway'
<1> DEFINE b == job.binding
           k == b.key
           V == [vault EXCEPT ![k] = None]
<1> USE DEF IInv, Data
<1>1. /\ job # None /\ job.at = "claimed" /\ job.kind = "remove" /\ ~KeyTaken
      /\ \/ VaultSaved(V) /\ Advance("deleted")
         \/ VaultFails(V) /\ job' = None
      /\ Breaks(k, "install")
      /\ UNCHANGED <<book, bookFile, bookRisk>>
  BY DEF DeleteKey, At, bookVars
<1>2. b \in Binding /\ k \in Key /\ b.root \in Root
  BY <1>1 DEF TypeOK, Job, Binding
<1>3. Vaults' \subseteq Vaults \cup {V} /\ Books' = Books
  BY <1>1, VaultWrite DEF Books
<1>4. V[k] = None /\ \A j \in Key : j # k => V[j] = vault[j]
  BY <1>2 DEF TypeOK, Vault
<1>5. vault \in Vaults
  BY DEF Vaults
<1>values. \A W \in Vaults', j \in Key : (\E U \in Vaults : W[j] = U[j]) \/ (j = k /\ W[j] = None)
  BY <1>3, <1>4, <1>5
<1>6. promise[k].by # "operator"
  BY <1>1, NotTheOperators
<1>7. /\ \A j \in Key : promise'[j] = promise[j] \/ (j = k /\ promise'[j] = Nothing)
      /\ promise'[k].by # "install"
  BY <1>1, <1>2 DEF Breaks, TypeOK, Nothing
<1>8. KeyIsRecorded'
  <2> SUFFICES ASSUME NEW j \in Key, NEW W \in Vaults', W[j] # None, W[j].by = "install", NEW B \in Books
               PROVE  \E c \in Binding : c.key = j /\ c \in B.blocks /\ RouteOf(c) \in B.routes
    BY <1>3 DEF KeyIsRecorded
  <2> QED BY <1>values DEF KeyIsRecorded
<1>9. ForeignKept'
  <2> SUFFICES ASSUME NEW j \in Key, NEW v \in Value, promise'[j] = [by |-> "operator", value |-> v],
                      NEW W \in Vaults'
               PROVE  W[j] # None /\ W[j].value = v
    BY DEF ForeignKept
  <2>1. j # k /\ promise[j] = [by |-> "operator", value |-> v]
    BY <1>6, <1>7 DEF Nothing
  <2> QED BY <1>values, <2>1 DEF ForeignKept
<1>10. InstallKept'
  <2> SUFFICES ASSUME NEW j \in Key, NEW v \in Value, promise'[j] = [by |-> "install", value |-> v]
               PROVE  /\ \A W \in Vaults' : W[j] # None /\ W[j].value = v
                      /\ \A B \in Books : \E c \in Binding : c.key = j /\ c \in B.blocks /\ RouteOf(c) \in B.routes
    BY <1>3 DEF InstallKept
  <2>1. j # k /\ promise[j] = [by |-> "install", value |-> v]
    BY <1>7 DEF Nothing
  <2> QED BY <1>values, <2>1 DEF InstallKept
<1>11. \A j \in Key : Recorded(j)' <=> Recorded(j)
  BY <1>1 DEF Recorded
<1>12. RemovalFinal'
  <2> SUFFICES ASSUME NEW j \in Key, promise'[j] = Removed
               PROVE  (\A W \in Vaults' : W[j] = None) /\ ~Recorded(j)
    BY <1>11 DEF RemovalFinal
  <2>1. promise[j] = Removed
    BY <1>7 DEF Removed, Nothing
  <2> QED BY <1>values, <2>1 DEF RemovalFinal
<1>13. OperatorFree'
  BY <1>7, <1>11 DEF OperatorFree, Nothing
<1>14. HostHasOneRoot'
  BY <1>3 DEF HostHasOneRoot
<1>15. JobClear' /\ JobHalfway'
  <2>1. CASE job' = None
    BY <2>1, NoJob
  <2>2. CASE VaultSaved(V) /\ Advance("deleted")
    <3>1. job' = [job EXCEPT !.at = "deleted"] /\ job \in Job
      BY <1>1, <2>2 DEF Advance, TypeOK
    <3>2. job'.at = "deleted" /\ job'.binding = b /\ job'.kind = "remove" /\ job' # None
      BY <3>1, <1>1, NoneAssumption DEF Job, TypeOK
    <3>3. Vaults' = {V}
      BY <2>2 DEF VaultSaved, Vaults
    <3>4. ~Conflict(b)'
      BY <1>1, <3>2 DEF Conflict, JobClear
    <3> QED BY <1>4, <3>2, <3>3, <3>4 DEF JobClear, JobHalfway, At
  <2> QED BY <1>1, <2>1, <2>2
<1> QED BY <1>8, <1>9, <1>10, <1>12, <1>13, <1>14, <1>15

\* The second write of a removal: no key is left that the record covered.
LEMMA DropRecordStep ==
  ASSUME IInv, TypeOK', DropRecord
  PROVE  Data' /\ JobClear' /\ JobHalfway'
<1> DEFINE b == job.binding
           N == Without(book, b.root)
<1> USE DEF IInv, Data
<1>1. /\ job # None /\ job.at = "deleted" /\ job.kind = "remove" /\ job' = None
      /\ \/ BookSaved(N) /\ promise' = [promise EXCEPT ![b.key] = Removed]
         \/ BookFails(N) /\ UNCHANGED promise
      /\ UNCHANGED <<vault, vaultFile, vaultRisk>>
  BY DEF DropRecord, At, vaultVars
<1>2. b \in Binding /\ b.key \in Key /\ b.root \in Root
  BY <1>1 DEF TypeOK, Job, Binding
<1>3. Books' \subseteq Books \cup {N} /\ Vaults' = Vaults
  BY <1>1, BookWrite DEF Vaults
<1>4. \A V \in Vaults : V[b.key] = None
  BY <1>1 DEF JobHalfway, At
<1>5. vault \in Vaults /\ book \in Books
  BY DEF Vaults, Books
<1>6. promise[b.key].by # "install" /\ promise[b.key].by # "operator"
  <2>1. promise[b.key] \in Promise
    BY <1>2 DEF TypeOK
  <2> QED BY <1>2, <1>4, <1>5, <2>1 DEF Promise, Nothing, Removed, InstallKept, ForeignKept
<1>7. ASSUME NEW c \in Binding, RecordIn(book, c), c.key # b.key PROVE RecordIn(N, c)
  BY <1>1, <1>7, OtherRecord
<1>8. \A j \in Key : promise'[j] = promise[j] \/ (j = b.key /\ promise'[j] = Removed /\ Books' = {N})
  BY <1>1 DEF TypeOK, BookSaved, Books
<1>9. KeyIsRecorded'
  BY <1>3, <1>4, <1>5, <1>7 DEF KeyIsRecorded, RecordIn
<1>10. ForeignKept'
  BY <1>3, <1>8 DEF ForeignKept, Removed
<1>11. InstallKept'
  BY <1>3, <1>5, <1>6, <1>7, <1>8 DEF InstallKept, RecordIn, Removed
<1>12. \A x \in N.blocks : x \in book.blocks /\ x.key # b.key
  BY <1>1 DEF Without, JobClear, Conflict
<1>13. ASSUME NEW j \in Key, Recorded(j)' PROVE Recorded(j)
  <2>1. PICK B \in Books' : \E x \in B.blocks : x.root \in Root /\ x.key = j
    BY <1>13 DEF Recorded, Books
  <2> QED BY <1>3, <1>12, <2>1 DEF Recorded, Books, FilesAtRisk
<1>14. ASSUME Books' = {N}, NEW j \in Key, j = b.key PROVE ~Recorded(j)'
  <2>1. \A B \in bookRisk' \cup {book'} : B = N
    BY <1>14 DEF Books
  <2> QED BY <1>12, <1>14, <2>1 DEF Recorded
<1>15. RemovalFinal'
  <2> SUFFICES ASSUME NEW j \in Key, promise'[j] = Removed
               PROVE  (\A W \in Vaults : W[j] = None) /\ ~Recorded(j)'
    BY <1>3 DEF RemovalFinal
  <2>1. CASE promise[j] = Removed
    BY <1>13, <2>1 DEF RemovalFinal
  <2>2. CASE j = b.key /\ Books' = {N}
    BY <1>4, <1>14, <2>2
  <2> QED BY <1>8, <2>1, <2>2
<1>16. OperatorFree'
  BY <1>8, <1>13 DEF OperatorFree, Removed
<1>17. \A x, y \in N.routes : x.host = y.host => x.root = y.root
  BY <1>5 DEF Without, HostHasOneRoot
<1>18. HostHasOneRoot'
  BY <1>3, <1>17 DEF HostHasOneRoot
<1> QED BY <1>1, <1>9, <1>10, <1>11, <1>15, <1>16, <1>18, NoJob

\* A write of the operator: one key of the vault and its promise.
LEMMA OperatorStep ==
  ASSUME IInv, TypeOK', NEW k \in Key, NEW e \in Entry \cup {None},
         VaultUnlocked, e # None => e.by = "operator",
         VaultSaved([vault EXCEPT ![k] = e]) \/ VaultFails([vault EXCEPT ![k] = e]),
         UNCHANGED <<book, bookFile, bookRisk, job>>,
         \/ promise' = [promise EXCEPT ![k] = Nothing]
         \/ /\ e # None /\ ~Recorded(k) /\ Vaults' = {[vault EXCEPT ![k] = e]}
            /\ promise' = [promise EXCEPT ![k] = [by |-> "operator", value |-> e.value]]
  PROVE  Data' /\ JobClear' /\ JobHalfway'
<1> DEFINE V == [vault EXCEPT ![k] = e]
           q == [by |-> "operator", value |-> e.value]
<1> USE DEF IInv, Data
<1>1. Vaults' \subseteq Vaults \cup {V} /\ Books' = Books
  BY VaultWrite DEF Books
<1>2. V[k] = e /\ \A j \in Key : j # k => V[j] = vault[j]
  BY DEF TypeOK, Vault
<1>3. vault \in Vaults
  BY DEF Vaults
<1>4. \A W \in Vaults', j \in Key : (\E U \in Vaults : W[j] = U[j]) \/ (j = k /\ W[j] = e)
  BY <1>1, <1>2, <1>3
<1>5. /\ \A j \in Key : j # k => promise'[j] = promise[j]
      /\ \/ promise'[k] = Nothing
         \/ promise'[k] = q /\ e # None /\ ~Recorded(k) /\ \A W \in Vaults' : W[k] = e
  BY <1>2 DEF TypeOK
<1>6. \A j \in Key : Recorded(j)' <=> Recorded(j)
  BY DEF Recorded
<1>7. KeyIsRecorded'
  <2> SUFFICES ASSUME NEW j \in Key, NEW W \in Vaults', W[j] # None, W[j].by = "install", NEW B \in Books
               PROVE  \E c \in Binding : c.key = j /\ c \in B.blocks /\ RouteOf(c) \in B.routes
    BY <1>1 DEF KeyIsRecorded
  <2> QED BY <1>4 DEF KeyIsRecorded
<1>8. ForeignKept'
  <2> SUFFICES ASSUME NEW j \in Key, NEW v \in Value, promise'[j] = [by |-> "operator", value |-> v],
                      NEW W \in Vaults'
               PROVE  W[j] # None /\ W[j].value = v
    BY DEF ForeignKept
  <2>1. CASE j = k
    BY <1>5, <2>1 DEF Nothing
  <2>2. CASE j # k
    BY <1>4, <1>5, <2>2 DEF ForeignKept
  <2> QED BY <2>1, <2>2
<1>9. InstallKept'
  <2> SUFFICES ASSUME NEW j \in Key, NEW v \in Value, promise'[j] = [by |-> "install", value |-> v]
               PROVE  /\ \A W \in Vaults' : W[j] # None /\ W[j].value = v
                      /\ \A B \in Books : \E c \in Binding : c.key = j /\ c \in B.blocks /\ RouteOf(c) \in B.routes
    BY <1>1 DEF InstallKept
  <2>1. j # k /\ promise[j] = [by |-> "install", value |-> v]
    BY <1>5 DEF Nothing
  <2> QED BY <1>4, <2>1 DEF InstallKept
<1>10. RemovalFinal'
  <2> SUFFICES ASSUME NEW j \in Key, promise'[j] = Removed
               PROVE  (\A W \in Vaults' : W[j] = None) /\ ~Recorded(j)
    BY <1>6 DEF RemovalFinal
  <2>1. j # k /\ promise[j] = Removed
    BY <1>5 DEF Removed, Nothing
  <2> QED BY <1>4, <2>1 DEF RemovalFinal
<1>11. OperatorFree'
  BY <1>5, <1>6 DEF OperatorFree, Nothing
<1>12. HostHasOneRoot'
  BY <1>1 DEF HostHasOneRoot
<1>13. JobClear'
  BY DEF JobClear, Conflict, Owned
<1>14. JobHalfway'
  BY DEF JobHalfway, At, VaultUnlocked
<1> QED BY <1>7, <1>8, <1>9, <1>10, <1>11, <1>12, <1>13, <1>14

\* secrets set (CredentialsStore::set_local).
LEMMA SetStep ==
  ASSUME IInv, TypeOK', NEW k \in Key, NEW v \in Value, SetLocal(k, v)
  PROVE  Data' /\ JobClear' /\ JobHalfway'
<1> DEFINE e == [value |-> v, by |-> "operator"]
           V == [vault EXCEPT ![k] = e]
<1>1. e \in Entry /\ e # None /\ e.by = "operator" /\ e.value = v
  BY NoneAssumption DEF Entry
<1>2. VaultSaved(V) => Vaults' = {V}
  BY DEF VaultSaved, Vaults
<1>3. \/ promise' = [promise EXCEPT ![k] = Nothing]
      \/ ~Recorded(k) /\ Vaults' = {V} /\ promise' = [promise EXCEPT ![k] = [by |-> "operator", value |-> v]]
  BY <1>2 DEF SetLocal
<1> HIDE DEF e
<1>4. VaultSaved([vault EXCEPT ![k] = e]) \/ VaultFails([vault EXCEPT ![k] = e])
  BY DEF SetLocal, e
<1>5. VaultUnlocked /\ UNCHANGED <<book, bookFile, bookRisk, job>>
  BY DEF SetLocal, bookVars
<1> QED BY <1>1, <1>3, <1>4, <1>5, OperatorStep

\* secrets unset (CredentialsStore::unset_local).
LEMMA UnsetStep ==
  ASSUME IInv, TypeOK', NEW k \in Key, UnsetLocal(k)
  PROVE  Data' /\ JobClear' /\ JobHalfway'
<1>1. /\ VaultSaved([vault EXCEPT ![k] = None]) \/ VaultFails([vault EXCEPT ![k] = None])
      /\ VaultUnlocked /\ UNCHANGED <<book, bookFile, bookRisk, job>>
      /\ promise' = [promise EXCEPT ![k] = Nothing]
  BY DEF UnsetLocal, bookVars
<1> QED BY <1>1, OperatorStep

\* A write of the declarations that keeps those of the inference roots.
LEMMA OthersStep ==
  ASSUME IInv, TypeOK', NEW B, job = None,
         BookSaved(B) \/ BookFails(B),
         \A x \in B.blocks : x.root \in Root => x \in book.blocks,
         \A x \in book.blocks : x.root \in Root => x \in B.blocks,
         \A x \in book.routes : x.root \in Root => x \in B.routes,
         \A x, y \in B.routes : x.host = y.host => x.root = y.root,
         UNCHANGED <<vault, vaultFile, vaultRisk, job, promise>>
  PROVE  Data' /\ JobClear' /\ JobHalfway'
<1> USE DEF IInv, Data
<1>1. Books' \subseteq Books \cup {B} /\ Vaults' = Vaults
  BY BookWrite DEF Vaults
<1>2. book \in Books
  BY DEF Books
<1>3. ASSUME NEW c \in Binding, RecordIn(book, c) PROVE RecordIn(B, c)
  BY <1>3 DEF RecordIn, RouteOf, Binding
<1>4. ASSUME NEW j \in Key, Recorded(j)' PROVE Recorded(j)
  <2>1. PICK N \in Books' : \E x \in N.blocks : x.root \in Root /\ x.key = j
    BY <1>4 DEF Recorded, Books
  <2> QED BY <1>1, <2>1 DEF Recorded, Books, FilesAtRisk
<1>5. KeyIsRecorded'
  BY <1>1, <1>2, <1>3 DEF KeyIsRecorded, RecordIn
<1>6. ForeignKept'
  BY <1>1 DEF ForeignKept
<1>7. InstallKept'
  BY <1>1, <1>2, <1>3 DEF InstallKept, RecordIn
<1>8. RemovalFinal'
  BY <1>1, <1>4 DEF RemovalFinal
<1>9. OperatorFree'
  BY <1>4 DEF OperatorFree
<1>10. HostHasOneRoot'
  BY <1>1 DEF HostHasOneRoot
<1> QED BY <1>5, <1>6, <1>7, <1>8, <1>9, <1>10, NoJob

\* The sync of a repository (sync_managed_routes).
LEMMA SyncStep ==
  ASSUME IInv, TypeOK', NEW p \in Repo, NEW blocks \in Declared(p, Block),
         NEW routes \in Declared(p, Route), Sync(p, blocks, routes)
  PROVE  Data' /\ JobClear' /\ JobHalfway'
<1> DEFINE B == [blocks |-> Without(book, p).blocks \cup blocks,
                 routes |-> Without(book, p).routes \cup routes]
<1>1. /\ BookSaved(B) \/ BookFails(B)
      /\ job = None /\ ~Refused(book, p, blocks, routes)
      /\ UNCHANGED <<vault, vaultFile, vaultRisk, job, promise>>
  BY DEF Sync, vaultVars
<1>2. p \notin Root
  BY OwnerAssumption
<1>3. (\A x \in blocks : x.root = p) /\ (\A x \in routes : x.root = p)
  BY DEF Declared
<1>4. /\ \A x \in B.blocks : x.root \in Root => x \in book.blocks
      /\ \A x \in book.blocks : x.root \in Root => x \in B.blocks
      /\ \A x \in book.routes : x.root \in Root => x \in B.routes
  BY <1>2, <1>3 DEF Without
<1>5. \A x, y \in book.routes : x.host = y.host => x.root = y.root
  BY DEF IInv, Data, HostHasOneRoot, Books
<1>6. \A x \in routes, y \in book.routes : y.host = x.host => y.root = p
  BY <1>1 DEF Refused
<1>7. \A x, y \in B.routes : x.host = y.host => x.root = y.root
  BY <1>3, <1>5, <1>6 DEF Without
<1> HIDE DEF B
<1> QED BY <1>1, <1>4, <1>7, OthersStep

\* An edit of a global block (set_global_block, remove_global_block).
LEMMA EditGlobalStep ==
  ASSUME IInv, TypeOK', NEW n \in Name,
         NEW blocks \in {{}} \cup {{[root |-> Global, name |-> n, key |-> k]} : k \in Key},
         EditGlobal(n, blocks)
  PROVE  Data' /\ JobClear' /\ JobHalfway'
<1> DEFINE B == [book EXCEPT !.blocks = {x \in @ : x.name # n} \cup blocks]
<1>1. /\ BookSaved(B) \/ BookFails(B)
      /\ job = None /\ \A x \in book.blocks : x.name = n => x.root = Global
      /\ UNCHANGED <<vault, vaultFile, vaultRisk, job, promise>>
  BY DEF EditGlobal, vaultVars
<1>2. Global \notin Root
  BY OwnerAssumption
<1>3. book \in Book
  BY DEF IInv, TypeOK
<1>4. B.blocks = {x \in book.blocks : x.name # n} \cup blocks /\ B.routes = book.routes
  BY <1>3 DEF Book
<1>5. \A x \in blocks : x.root = Global
  OBVIOUS
<1> HIDE DEF B
<1>6. /\ \A x \in B.blocks : x.root \in Root => x \in book.blocks
      /\ \A x \in book.blocks : x.root \in Root => x \in B.blocks
      /\ \A x \in book.routes : x.root \in Root => x \in B.routes
  BY <1>1, <1>2, <1>4, <1>5
<1>7. \A x, y \in B.routes : x.host = y.host => x.root = y.root
  BY <1>4 DEF IInv, Data, HostHasOneRoot, Books
<1> QED BY <1>1, <1>6, <1>7, OthersStep

\* A restart, with or without a power failure, breaks no promise.
LEMMA RestartStep ==
  ASSUME IInv, TypeOK', Restart
  PROVE  Data' /\ JobClear' /\ JobHalfway'
<1> USE DEF IInv, Data
<1>1. Books' \subseteq Books /\ Vaults' \subseteq Vaults /\ FilesAtRisk'
  BY RestartLoads
<1>2. promise' = promise /\ job' = None
  BY DEF Restart
<1>3. ASSUME NEW j \in Key, Recorded(j)' PROVE Recorded(j)
  <2>1. PICK N \in Books' : \E x \in N.blocks : x.root \in Root /\ x.key = j
    BY <1>3 DEF Recorded, Books
  <2> QED BY <1>1, <2>1 DEF Recorded, Books, FilesAtRisk
<1>4. KeyIsRecorded'
  BY <1>1 DEF KeyIsRecorded
<1>5. ForeignKept'
  BY <1>1, <1>2 DEF ForeignKept
<1>6. InstallKept'
  BY <1>1, <1>2 DEF InstallKept
<1>7. RemovalFinal'
  BY <1>1, <1>2, <1>3 DEF RemovalFinal
<1>8. OperatorFree'
  BY <1>2, <1>3 DEF OperatorFree
<1>9. HostHasOneRoot'
  BY <1>1 DEF HostHasOneRoot
<1> QED BY <1>2, <1>4, <1>5, <1>6, <1>7, <1>8, <1>9, NoJob

-----------------------------------------------------------------------------
(* The theorems. *)

\* The inductive invariant holds of every reachable state.
THEOREM Safe == Spec => []IInv
<1>1. Init => IInv
  <2> SUFFICES ASSUME Init PROVE IInv
    OBVIOUS
  <2>1. TypeOK
    BY DEF Init, TypeOK, Empty, NoVault, Book, Vault, Promise, Nothing
  <2>2. FilesAtRisk /\ JobClear /\ JobHalfway
    BY DEF Init, FilesAtRisk, JobClear, JobHalfway, At
  <2>3. Data
    BY DEF Init, Data, KeyIsRecorded, ForeignKept, InstallKept, RemovalFinal, HostHasOneRoot, OperatorFree,
           Books, Vaults, NoVault, Nothing, Removed, Empty
  <2> QED BY <2>1, <2>2, <2>3 DEF IInv
<1>2. IInv /\ [Next]_vars => IInv'
  <2> SUFFICES ASSUME IInv, Next PROVE IInv'
    <3>1. ASSUME IInv, UNCHANGED vars PROVE IInv'
      <4>1. Data'
        BY <3>1, DataSame DEF IInv, vars
      <4>2. TypeOK' /\ FilesAtRisk'
        BY <3>1 DEF IInv, TypeOK, FilesAtRisk, vars, bookVars, vaultVars
      <4>3. JobClear'
        BY <3>1 DEF IInv, JobClear, Conflict, Owned, vars, bookVars
      <4>4. JobHalfway'
        BY <3>1 DEF IInv, JobHalfway, At, Books, Vaults, vars, bookVars, vaultVars
      <4> QED BY <4>1, <4>2, <4>3, <4>4 DEF IInv
    <3> QED BY <3>1
  <2>1. TypeOK' /\ FilesAtRisk'
    BY TypeStep DEF IInv
  <2>2. Data' /\ JobClear' /\ JobHalfway'
    BY <2>1, ClaimStep, RefuseStep, RecordStep, SaveKeyStep, DeleteKeyStep, DropRecordStep, SetStep,
       UnsetStep, SyncStep, EditGlobalStep, RestartStep DEF Next
  <2> QED BY <2>1, <2>2 DEF IInv
<1> QED BY <1>1, <1>2, PTL DEF Spec

\* A key written by an install never exists without its record, on disk or in
\* memory, across crashes and power failures (secrets/mod.rs:141-181).
THEOREM KeysAreRecorded == Spec => []KeyIsRecorded
<1>1. IInv => KeyIsRecorded
  BY DEF IInv, Data
<1> QED BY <1>1, Safe, PTL

\* No install and no removal touches a value an operator set for a key that no
\* inference route owned (handlers.rs:1720-1763).
THEOREM ForeignKeysAreKept == Spec => []ForeignKept
<1>1. IInv => ForeignKept
  BY DEF IInv, Data
<1> QED BY <1>1, Safe, PTL

\* An answered install outlives crashes and power failures (atomic_json.rs:33-36).
THEOREM InstallsAreDurable == Spec => []InstallKept
<1>1. IInv => InstallKept
  BY DEF IInv, Data
<1> QED BY <1>1, Safe, PTL

\* So does an answered removal: neither the key nor its record comes back
\* (supervisor.rs:1079-1098).
THEOREM RemovalsAreFinal == Spec => []RemovalFinal
<1>1. IInv => RemovalFinal
  BY DEF IInv, Data
<1> QED BY <1>1, Safe, PTL

\* No host is routed for two roots, in memory or on disk (supervisor.rs:1079-1085).
THEOREM OneRootPerHost == Spec => []HostHasOneRoot
<1>1. IInv => HostHasOneRoot
  BY DEF IInv, Data
<1> QED BY <1>1, Safe, PTL

\* The two files and the job keep their shape.
THEOREM BooksTyped == Spec => []TypeOK
<1>1. IInv => TypeOK
  BY DEF IInv
<1> QED BY <1>1, Safe, PTL


-----------------------------------------------------------------------------
(* GrantStore.                                                               *)

\* Two grants in a store never have one digest.
Distinct(S) == \A i, k \in Id : /\ IsGrant(S.grants[i]) /\ IsGrant(S.grants[k])
                                /\ S.grants[i].digest = S.grants[k].digest
                                => i = k

\* What holds of every store that may be on the disk.
Sound(S) == /\ S \in Records
            /\ S.observed >= seen
            /\ \A id \in revoked : S.grants[id] # Unused /\ ~Live(S.grants[id])
            /\ Distinct(S)

\* The inductive invariant.
SafeInv == GrantTypes /\ file \in risk /\ \A S \in risk : Sound(S)

-----------------------------------------------------------------------------
\* It holds initially.
LEMMA InitSafe == GrantsInit => SafeInv
<1> SUFFICES ASSUME GrantsInit PROVE SafeInv
  OBVIOUS
<1>1. NoRecords \in Records
  BY GrantBound DEF NoRecords, Records, Time
<1>2. GrantTypes
  BY <1>1, GrantBound DEF GrantsInit, GrantTypes, Time
<1>3. Sound(NoRecords)
  BY <1>1 DEF GrantsInit, Sound, Distinct, NoRecords, IsGrant
<1> QED  BY <1>2, <1>3 DEF GrantsInit, SafeInv

\* Saving the time keeps a store sound.
LEMMA ObservedSound ==
  ASSUME SafeInv, NEW now \in Time
  PROVE  /\ Observed(now) \in Records
         /\ Observed(now).grants = file.grants
         /\ Observed(now).observed = Later(file.observed, now)
         /\ Sound(Observed(now))
<1>1. file \in Records /\ Sound(file)
  BY DEF SafeInv, GrantTypes
<1>2. Later(file.observed, now) \in Time /\ Later(file.observed, now) >= file.observed
  BY <1>1, GrantBound DEF Later, Records, Time
<1>3. /\ Observed(now) \in Records
      /\ Observed(now).grants = file.grants
      /\ Observed(now).observed = Later(file.observed, now)
  BY <1>1, <1>2 DEF Observed, Records
<1>4. Observed(now).observed >= seen
  BY <1>1, <1>2, <1>3, GrantBound DEF Sound, SafeInv, GrantTypes, Records, Time
<1> QED  BY <1>1, <1>3, <1>4 DEF Sound, Distinct

\* The time a save adds is never later than the one the store then holds.
LEMMA SeenSound ==
  ASSUME SafeInv, NEW now \in Time
  PROVE  /\ SeenAfter(now) \in Time
         /\ SafeAfter(now) \subseteq Records
         /\ Observed(now) \in SafeAfter(now)
         /\ \A S \in SafeAfter(now) : Sound(S) /\ S.observed >= SeenAfter(now)
<1>1. CASE now > file.observed
  BY <1>1, ObservedSound, GrantBound
  DEF SeenAfter, SafeAfter, Later, SafeInv, GrantTypes, Sound, Records, Time
<1>2. CASE ~(now > file.observed)
  <2>1. Observed(now) = file
    BY <1>2, GrantBound DEF Observed, Later, SafeInv, GrantTypes, Records, Time
  <2> QED  BY <1>2, <2>1 DEF SeenAfter, SafeAfter, SafeInv, GrantTypes, Sound
<1> QED  BY <1>1, <1>2

\* Stores that are sound now are sound in a step that revokes nothing more.
LEMMA SoundCarries ==
  ASSUME NEW S, Sound(S), revoked' = revoked, S.observed >= seen'
  PROVE  Sound(S)'
BY DEF Sound, Distinct

\* A failed write leaves a file at risk, and nothing at risk but the new store.
LEMMA FailsSound ==
  ASSUME NEW old, NEW safe, NEW new, Fails(old, safe, new), old \in safe
  PROVE  file' \in risk' /\ risk' \subseteq safe \cup {new} /\ file' \in {old, new}
BY DEF Fails

\* The store an issue writes is sound: its id was unused and its digest free.
LEMMA IssueSound ==
  ASSUME SafeInv, NEW id \in Id, NEW g \in Grant, Issuable(id, g), ~g.revoked
  PROVE  LET new == [Observed(wall) EXCEPT !.grants[id] = g]
         IN  Sound(new) /\ new.observed = Observed(wall).observed
<1> DEFINE new == [Observed(wall) EXCEPT !.grants[id] = g]
<1>1. wall \in Time
  BY DEF SafeInv, GrantTypes
<1>2. /\ Observed(wall) \in Records /\ Sound(Observed(wall))
      /\ Observed(wall).grants = file.grants
  BY <1>1, ObservedSound
<1>3. /\ new \in Records
      /\ new.observed = Observed(wall).observed
      /\ new.grants = [file.grants EXCEPT ![id] = g]
  BY <1>2 DEF Records
<1>4. file.grants \in [Id -> Grant \cup {Unused, Tombstone}]
  BY DEF SafeInv, GrantTypes, Records
<1>5. id \notin revoked
  BY DEF SafeInv, Sound, Issuable
<1>6. \A i \in revoked : new.grants[i] # Unused /\ ~Live(new.grants[i])
  BY <1>2, <1>3, <1>4, <1>5 DEF Sound, SafeInv, GrantTypes
<1>7. \A i \in Id : IsGrant(file.grants[i]) => file.grants[i].digest # g.digest
  BY DEF Issuable, Digests
<1>8. Distinct(file)
  BY DEF SafeInv, Sound
<1>9. Distinct(new)
  BY <1>3, <1>4, <1>7, <1>8 DEF Distinct
<1> QED  BY <1>2, <1>3, <1>6, <1>9 DEF Sound

\* The invariant is kept by an issue.
LEMMA IssueSafe ==
  ASSUME SafeInv, NEW id \in Id, NEW g \in Grant, Issue(id, g)
  PROVE  SafeInv'
<1> DEFINE new == [Observed(wall) EXCEPT !.grants[id] = g]
<1>1. wall \in Time /\ file \in Records /\ risk \subseteq Records /\ seen \in Time
  BY DEF SafeInv, GrantTypes
<1>2. /\ UNCHANGED <<up, wall, floor, req, deaths, revoked>>
      /\ ~g.revoked
  BY DEF Issue
<1>3. CASE ObserveFails(wall)
  <2>1. /\ file' \in risk' /\ risk' \subseteq risk \cup {Observed(wall)} /\ seen' = seen
    BY <1>3, FailsSound DEF ObserveFails, SafeInv
  <2>2. \A S \in risk' : Sound(S)'
    BY <1>1, <1>2, <2>1, ObservedSound, SoundCarries DEF SafeInv, Sound
  <2> QED  BY <1>1, <1>2, <2>1, <2>2, ObservedSound DEF SafeInv, GrantTypes, Sound
<1>4. ASSUME seen' = SeenAfter(wall), file' \in risk', risk' \subseteq SafeAfter(wall) \cup {new},
             new \in risk' => Issuable(id, g)
      PROVE  SafeInv'
  <2>1. \A S \in risk' : Sound(S) /\ S.observed >= seen'
    <3>1. \A S \in SafeAfter(wall) : Sound(S) /\ S.observed >= seen'
      BY <1>1, <1>4, SeenSound
    <3>2. new \in risk' => Sound(new) /\ new.observed >= seen'
      BY <1>1, <1>2, <1>4, <3>1, IssueSound, SeenSound
    <3> QED  BY <1>4, <3>1, <3>2
  <2>2. \A S \in risk' : Sound(S)'
    BY <1>2, <2>1, SoundCarries
  <2>3. seen' \in Time
    BY <1>1, <1>4, SeenSound
  <2> QED  BY <1>2, <1>4, <2>1, <2>2, <2>3 DEF SafeInv, GrantTypes, Sound
<1>5. CASE ~ObserveFails(wall)
  <2>1. seen' = SeenAfter(wall)
    BY <1>5 DEF Issue
  <2>2. CASE Issuable(id, g) /\ file' = new /\ risk' = {new}
    BY <2>1, <2>2, <1>4
  <2>3. CASE Issuable(id, g) /\ Fails(Observed(wall), SafeAfter(wall), new)
    <3>1. file' \in risk' /\ risk' \subseteq SafeAfter(wall) \cup {new}
      BY <1>1, <2>3, FailsSound, SeenSound
    <3> QED  BY <2>1, <2>3, <3>1, <1>4
  <2>4. CASE ~Issuable(id, g) /\ file' = Observed(wall) /\ risk' = SafeAfter(wall)
    <3>1. SafeInv'
      <4>1. \A S \in risk' : Sound(S) /\ S.observed >= seen'
        BY <1>1, <2>1, <2>4, SeenSound
      <4>2. \A S \in risk' : Sound(S)'
        BY <1>2, <4>1, SoundCarries
      <4>3. seen' \in Time /\ file' \in risk'
        BY <1>1, <2>1, <2>4, SeenSound
      <4> QED  BY <1>2, <4>1, <4>2, <4>3 DEF SafeInv, GrantTypes, Sound
    <3> QED  BY <3>1
  <2> QED  BY <1>5, <2>2, <2>3, <2>4 DEF Issue
<1> QED  BY <1>3, <1>5

\* The store a revocation writes is sound, and its id is dead in it.
LEMMA RevokeSound ==
  ASSUME SafeInv, NEW id \in Id
  PROVE  LET new == [file EXCEPT !.grants[id] = Revoked(@)]
         IN  /\ Sound(new)
             /\ new.grants[id] # Unused /\ ~Live(new.grants[id])
<1> DEFINE new == [file EXCEPT !.grants[id] = Revoked(@)]
<1>1. file \in Records /\ Sound(file) /\ file.grants \in [Id -> Grant \cup {Unused, Tombstone}]
  BY DEF SafeInv, GrantTypes, Records
<1>2. ASSUME NEW g \in Grant \cup {Unused, Tombstone}
      PROVE  /\ Revoked(g) \in Grant \cup {Tombstone}
             /\ Revoked(g) # Unused /\ ~Live(Revoked(g))
             /\ IsGrant(Revoked(g)) => IsGrant(g) /\ Revoked(g).digest = g.digest
  BY MarkAssumption DEF Revoked, IsGrant, Live, Grant
<1>3. /\ new \in Records
      /\ new.observed = file.observed
      /\ new.grants = [file.grants EXCEPT ![id] = Revoked(file.grants[id])]
  BY <1>1, <1>2 DEF Records
<1>4. new.grants[id] # Unused /\ ~Live(new.grants[id])
  BY <1>1, <1>2, <1>3
<1>5. \A i \in revoked : new.grants[i] # Unused /\ ~Live(new.grants[i])
  BY <1>1, <1>3, <1>4 DEF Sound, SafeInv, GrantTypes
<1>6. \A i \in Id : IsGrant(new.grants[i])
                    => IsGrant(file.grants[i]) /\ new.grants[i].digest = file.grants[i].digest
  BY <1>1, <1>2, <1>3
<1>7. Distinct(new)
  BY <1>1, <1>6 DEF Sound, Distinct
<1> QED  BY <1>1, <1>3, <1>4, <1>5, <1>7 DEF Sound

\* The invariant is kept by a revocation.
LEMMA RevokeSafe ==
  ASSUME SafeInv, NEW id \in Id, Revoke(id)
  PROVE  SafeInv'
<1> DEFINE new == [file EXCEPT !.grants[id] = Revoked(@)]
<1>1. Sound(new) /\ new.grants[id] # Unused /\ ~Live(new.grants[id])
  BY RevokeSound
<1>2. UNCHANGED <<up, wall, floor, req, deaths, seen>>
  BY DEF Revoke
<1>3. CASE file' = new /\ risk' = {new} /\ revoked' = revoked \cup {id}
  <2>1. ASSUME NEW S, Sound(S), S.grants[id] # Unused, ~Live(S.grants[id])
        PROVE  Sound(S)'
    BY <1>2, <1>3, <2>1 DEF Sound, Distinct
  <2>2. \A S \in risk' : Sound(S)'
    BY <1>1, <1>3, <2>1
  <2> QED  BY <1>1, <1>2, <1>3, <2>2 DEF SafeInv, GrantTypes, Sound
<1>4. CASE Fails(file, risk, new) /\ UNCHANGED revoked
  <2>1. file' \in risk' /\ risk' \subseteq risk \cup {new}
    BY <1>4, FailsSound DEF SafeInv
  <2>2. \A S \in risk' : Sound(S)'
    BY <1>1, <1>2, <1>4, <2>1, SoundCarries DEF SafeInv, Sound
  <2> QED  BY <1>1, <1>2, <1>4, <2>1, <2>2 DEF SafeInv, GrantTypes, Sound
<1> QED  BY <1>3, <1>4 DEF Revoke

\* The invariant is kept by an answer to a request.
LEMMA PermitsSafe ==
  ASSUME SafeInv, NEW r \in Request, Permits(r)
  PROVE  SafeInv'
<1> DEFINE now == req[r].now
<1>1. /\ req[r] \in Call
      /\ UNCHANGED <<up, wall, floor, deaths, revoked>>
  BY DEF Permits, SafeInv, GrantTypes, Call, Idle
<1>2. now \in Time /\ file \in Records /\ risk \subseteq Records /\ seen \in Time
  BY <1>1 DEF SafeInv, GrantTypes, Call
<1>3. req' \in [Request -> Call \cup {Idle}]
  <2>1. \E a \in {"admitted", "denied"} : Answer(r, a)
    BY DEF Permits
  <2> QED  BY <1>1, <2>1 DEF Answer, SafeInv, GrantTypes, Call
<1>4. CASE UNCHANGED <<file, risk, seen>>
  <2>1. \A S \in risk' : Sound(S)'
    BY <1>1, <1>4, SoundCarries DEF SafeInv, Sound
  <2> QED  BY <1>1, <1>3, <1>4, <2>1 DEF SafeInv, GrantTypes
<1>5. CASE ObserveFails(now)
  <2>1. file' \in risk' /\ risk' \subseteq risk \cup {Observed(now)} /\ seen' = seen
    BY <1>5, FailsSound DEF ObserveFails, SafeInv
  <2>2. \A S \in risk' : Sound(S)'
    BY <1>1, <1>2, <2>1, ObservedSound, SoundCarries DEF SafeInv, Sound
  <2> QED  BY <1>1, <1>2, <1>3, <2>1, <2>2, ObservedSound DEF SafeInv, GrantTypes, Sound
<1>6. CASE file' = Observed(now) /\ risk' = SafeAfter(now) /\ seen' = SeenAfter(now)
  <2>1. \A S \in risk' : Sound(S) /\ S.observed >= seen'
    BY <1>2, <1>6, SeenSound
  <2>2. \A S \in risk' : Sound(S)'
    BY <1>1, <2>1, SoundCarries
  <2>3. seen' \in Time /\ file' \in risk'
    BY <1>2, <1>6, SeenSound
  <2> QED  BY <1>1, <1>3, <2>1, <2>2, <2>3 DEF SafeInv, GrantTypes, Sound
<1> QED  BY <1>4, <1>5, <1>6 DEF Permits

\* The invariant is kept by every step that writes nothing.
LEMMA OtherSafe ==
  ASSUME SafeInv,
         \/ \E r \in Request, d \in Digest, s \in Scope : Send(r, d, s)
         \/ Tick \/ SetClock \/ Die \/ Start \/ UNCHANGED grantVars
  PROVE  SafeInv'
<1>1. seen' = seen /\ revoked' = revoked
  BY DEF Send, Tick, SetClock, Die, Start, grantVars
<1>2. file' \in risk' /\ risk' \subseteq risk
  BY DEF Send, Tick, SetClock, Die, Start, grantVars, SafeInv
<1>3. \A S \in risk' : Sound(S)'
  BY <1>1, <1>2, SoundCarries DEF SafeInv, Sound
<1>4. /\ up' \in BOOLEAN /\ wall' \in Time /\ floor' \in Time /\ deaths' \in Nat
  <2>1. CASE Tick
    BY <2>1, GrantBound DEF Tick, SafeInv, GrantTypes, Time
  <2>2. CASE SetClock \/ Start
    BY <2>2 DEF SetClock, Start, SafeInv, GrantTypes
  <2>3. CASE Die
    <3>1. 0 \in Time
      BY GrantBound DEF Time
    <3>2. up' = FALSE /\ deaths' = deaths + 1 /\ floor' = 0 /\ wall' = wall
      BY <2>3 DEF Die
    <3>3. up' \in BOOLEAN
      BY <3>2, Zenon
    <3>4. deaths' \in Nat /\ floor' \in Time /\ wall' \in Time
      BY <3>1, <3>2 DEF SafeInv, GrantTypes
    <3> QED  BY <3>3, <3>4
  <2>4. CASE UNCHANGED <<up, wall, floor, deaths>>
    BY <2>4 DEF SafeInv, GrantTypes
  <2> QED  BY <2>1, <2>2, <2>3, <2>4 DEF Send, grantVars
<1>5. req' \in [Request -> Call \cup {Idle}]
  BY DEF Send, Tick, SetClock, Die, Start, grantVars, SafeInv, GrantTypes, Call
<1> QED  BY <1>1, <1>2, <1>3, <1>4, <1>5 DEF SafeInv, GrantTypes

\* The inductive invariant holds of the grant store.
THEOREM GrantsSafe == GrantsSpec => []SafeInv
<1>1. SafeInv /\ [GrantsNext]_grantVars => SafeInv'
  BY IssueSafe, RevokeSafe, PermitsSafe, OtherSafe DEF GrantsNext
<1> QED  BY InitSafe, <1>1, PTL DEF GrantsSpec

-----------------------------------------------------------------------------
\* A revocation that was answered is final (egress_grants.rs revoke): it is in
\* every store the disk may come back with, for ever; and no two grants ever
\* share a bearer (egress_grants.rs issue).
THEOREM GrantsAlwaysHold == GrantsSpec => []GrantsHold
<1>1. SafeInv => RevocationFinal
  BY DEF SafeInv, Sound, RevocationFinal
<1>2. SafeInv => OneGrantPerDigest
  BY DEF SafeInv, Sound, Distinct, OneGrantPerDigest
<1> QED  BY <1>1, <1>2, GrantsSafe, PTL DEF GrantsHold

\* A request is admitted only by a grant that is not revoked and had not expired
\* at any time ever saved (egress_grants.rs permits, observe).
THEOREM OnlyJustified == GrantsSpec => AdmissionsJustified
<1>1. ASSUME SafeInv, NEW r \in Request, Permits(r), Admission(r)
      PROVE  Justified(r)
  <2>1. req[r] \in Call /\ file \in Records /\ Sound(file) /\ seen \in Time
    BY <1>1 DEF Permits, SafeInv, GrantTypes, Call, Idle
  <2>2. NoRollback(req[r].now) /\ \E id \in Id : Admits(file.grants[id], req[r])
    <3>1. ASSUME NEW a, Answer(r, a) PROVE req'[r].at = a
      <4>1. req'[r] = [req[r] EXCEPT !.at = a]
        BY <1>1, <3>1 DEF Answer, SafeInv, GrantTypes
      <4> QED  BY <2>1, <4>1 DEF Call
    <3> QED  BY <1>1, <3>1 DEF Permits, Admission
  <2>3. PICK id \in Id : Admits(file.grants[id], req[r])
    BY <2>2
  <2>4. id \notin revoked
    BY <2>1, <2>3 DEF Sound, Admits
  <2>5. file.grants[id].expires \in Time
    BY <2>1, <2>3 DEF Admits, Live, IsGrant, Records, Grant
  <2>6. file.grants[id].expires > seen
    BY <2>1, <2>2, <2>3, <2>5, GrantBound DEF NoRollback, Admits, Sound, Records, Call, Time
  <2> QED  BY <2>3, <2>4, <2>6 DEF Justified
<1>2. ASSUME SafeInv, [GrantsNext]_grantVars, NEW r \in Request, Admission(r)
      PROVE  Permits(r)
  <2>1. ASSUME NEW q \in Request, Permits(q), q # r PROVE FALSE
    BY <1>2, <2>1 DEF Admission, Permits, Answer, SafeInv, GrantTypes
  <2>2. ASSUME NEW q \in Request, NEW d \in Digest, NEW s \in Scope, Send(q, d, s) PROVE FALSE
    BY <1>2, <2>2 DEF Admission, Send, SafeInv, GrantTypes
  <2>3. CASE Die
    BY <1>2, <2>3 DEF Admission, Die, Idle
  <2>4. CASE req' = req
    BY <1>2, <2>4 DEF Admission
  <2> QED  BY <1>2, <2>1, <2>2, <2>3, <2>4 DEF GrantsNext, Issue, Revoke, Tick, SetClock, Start, grantVars
<1>3. SafeInv /\ [GrantsNext]_grantVars => [\A r \in Request : Admission(r) => Justified(r)]_grantVars
  BY <1>1, <1>2
<1> QED  BY <1>3, GrantsSafe, PTL DEF GrantsSpec, AdmissionsJustified
===============================================================================
