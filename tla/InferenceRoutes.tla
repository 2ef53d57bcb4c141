--------------------------- MODULE InferenceRoutes ---------------------------
(***************************************************************************)
(* How the managed broker provisions inference routes (supervisor.rs       *)
(* install_inference_route, remove_inference_route, sync_managed_routes;   *)
(* secrets/mod.rs CredentialsStore).  A route lives in two durable files:  *)
(* services.json holds its block and its route, the record that says who   *)
(* owns the key, and credentials.json holds the key.  Either write may     *)
(* fail and the daemon may stop between the two, while operators set and   *)
(* unset the same keys and repositories declare blocks and routes of their *)
(* own.                                                                    *)
(*                                                                         *)
(* A write of a file is one step: its lock is held until it is over, and a *)
(* stop in the middle of it leaves what a write that fails leaves.  A host *)
(* is named by the inference route that would own it ("{name}.localhost"); *)
(* a block lists one key.  The roots of inference routes are the           *)
(* provisioner's own: no repository is synced from them.                   *)
(***************************************************************************)
EXTENDS Naturals

CONSTANTS
  Root,      \* roots inference routes are installed for
  Repo,      \* roots of repositories that sync blocks and egress routes
  Name,      \* names of blocks and routes, and of the hosts they own
  Key,       \* keys of the local vault
  Value,     \* values of those keys
  MaxStops,  \* bound on how often the daemon stops
  MaxFaults, \* bound on the writes that fail after their rename
  Global,    \* owner of the daemon-global blocks
  None       \* no request, no value

ASSUME OwnerAssumption == Root \cap Repo = {} /\ Global \notin Root \cup Repo
ASSUME BoundAssumption == MaxStops \in Nat /\ MaxFaults \in Nat

VARIABLES
  book,       \* blocks and routes in the daemon's maps
  bookFile,   \* blocks and routes in services.json
  bookRisk,   \* the contents a power failure may leave in services.json
  vault,      \* the vault in memory
  vaultFile,  \* the vault in credentials.json
  vaultRisk,  \* the contents a power failure may leave in credentials.json
  job,        \* the request that holds sync_gate and persist_gate
  promise,    \* promise[k]: what the last answer about key k promised
  stops,      \* daemon stops so far
  faults      \* writes that failed after their rename so far

bookVars  == <<book, bookFile, bookRisk>>
vaultVars == <<vault, vaultFile, vaultRisk>>
vars      == <<bookVars, vaultVars, job, promise, stops, faults>>

Binding == [root : Root, name : Name, key : Key]
Block   == [root : Root \cup Repo \cup {Global}, name : Name, key : Key]
Route   == [root : Root \cup Repo, name : Name, host : Name, key : Key]
Book    == [blocks : SUBSET Block, routes : SUBSET Route]
Entry   == [value : Value, by : {"install", "operator"}]
Vault   == [Key -> Entry \cup {None}]
Job     == [kind : {"install", "remove"}, binding : Binding, value : Value \cup {None},
            owned : BOOLEAN, at : {"claimed", "recorded", "deleted"}]

Empty   == [blocks |-> {}, routes |-> {}]
NoVault == [k \in Key |-> None]
Nothing == [by |-> "nobody", value |-> None]
Removed == [by |-> "removal", value |-> None]
Promise == [by : {"install", "operator"}, value : Value] \cup {Nothing, Removed}

ASSUME NoneAssumption == None \notin Entry \cup Job

Init ==
  /\ book = Empty /\ bookFile = Empty /\ bookRisk = {Empty}
  /\ vault = NoVault /\ vaultFile = NoVault /\ vaultRisk = {NoVault}
  /\ job = None
  /\ promise = [k \in Key |-> Nothing]
  /\ stops = 0 /\ faults = 0

-----------------------------------------------------------------------------
(* The two files: a write that succeeds is synced, one that fails may have  *)
(* been renamed into place.                                                 *)

BookSaved(B) == /\ book' = B /\ bookFile' = B /\ bookRisk' = {B}
                /\ UNCHANGED faults

VaultSaved(V) == /\ vault' = V /\ vaultFile' = V /\ vaultRisk' = {V}
                 /\ UNCHANGED faults

Fault == faults < MaxFaults /\ faults' = faults + 1

BookFails(B) == /\ UNCHANGED book
                /\ \/ UNCHANGED <<bookFile, bookRisk, faults>>
                   \/ Fault /\ bookFile' = B /\ bookRisk' = bookRisk \cup {B}

VaultFails(V) == /\ UNCHANGED vault
                 /\ \/ UNCHANGED <<vaultFile, vaultRisk, faults>>
                    \/ Fault /\ vaultFile' = V /\ vaultRisk' = vaultRisk \cup {V}

-----------------------------------------------------------------------------
(* Requests of the provisioner. *)

RouteOf(b) == [root |-> b.root, name |-> b.name, host |-> b.name, key |-> b.key]

\* inference_route_owned refuses: another block or route holds the name, the
\* root, the host or the key.
Conflict(b) ==
  \/ \E x \in book.blocks : x # b /\ (x.name = b.name \/ x.root = b.root \/ x.key = b.key)
  \/ \E x \in book.routes : /\ x # RouteOf(b)
                            /\ x.name = b.name \/ x.root = b.root \/ x.host = b.name \/ x.key = b.key

\* inference_route_owned answers: the record exists.
Owned(b) == /\ \E x \in book.blocks : x.name = b.name
            /\ \E x \in book.routes : x.name = b.name

Without(B, r) == [blocks |-> {x \in B.blocks : x.root # r}, routes |-> {x \in B.routes : x.root # r}]

With(B, b) == [blocks |-> Without(B, b.root).blocks \cup {b},
               routes |-> Without(B, b.root).routes \cup {RouteOf(b)}]

Advance(at) == job' = [job EXCEPT !.at = at]

At(kind, at) == job # None /\ job.kind = kind /\ job.at = at

\* The gates are taken and the record is looked up, before the vault is locked.
Claim(kind, b, v) ==
  /\ job = None /\ ~Conflict(b)
  /\ job' = [kind |-> kind, binding |-> b, value |-> v, owned |-> Owned(b), at |-> "claimed"]
  /\ UNCHANGED <<bookVars, vaultVars, promise, stops, faults>>

\* Mutant: the vault is not asked.
KeyNeverTaken == FALSE

\* install_owned_local, remove_owned_local: the key is not ours.
KeyTaken ==
  LET held == vault[job.binding.key]
  IN  held # None /\ ~(job.owned /\ (job.kind = "install" => held.value = job.value))

RefuseKey ==
  /\ job # None /\ job.at = "claimed" /\ KeyTaken
  /\ job' = None
  /\ UNCHANGED <<bookVars, vaultVars, promise, stops, faults>>

\* The request may break what the other kind of request promised about k.
Breaks(k, by) == promise' = [promise EXCEPT ![k] = IF @.by = by THEN Nothing ELSE @]

\* Mutant: the key is written first.
RecordLater ==
  /\ At("install", "claimed") /\ ~KeyTaken
  /\ Advance("recorded")
  /\ Breaks(job.binding.key, "removal")
  /\ UNCHANGED <<bookVars, vaultVars, stops, faults>>

\* prepare: the record is durable before the key is written.
Record ==
  /\ At("install", "claimed") /\ ~KeyTaken
  /\ LET b == job.binding
     IN  /\ \/ BookSaved(With(book, b)) /\ Advance("recorded")
            \/ BookFails(With(book, b)) /\ job' = None
         /\ Breaks(b.key, "removal")
  /\ UNCHANGED <<vaultVars, stops>>

\* Mutant: the directory sync is best effort.
SaveKeyMaybe ==
  /\ At("install", "recorded")
  /\ LET k == job.binding.key
         V == [vault EXCEPT ![k] = [value |-> job.value, by |-> "install"]]
     IN  /\ vault' = V /\ vaultFile' = V /\ vaultRisk' = vaultRisk \cup {V}
         /\ promise' = [promise EXCEPT ![k] = [by |-> "install", value |-> job.value]]
  /\ job' = None
  /\ UNCHANGED <<bookVars, stops, faults>>

SaveKey ==
  /\ At("install", "recorded")
  /\ LET k == job.binding.key
         V == [vault EXCEPT ![k] = [value |-> job.value, by |-> "install"]]
     IN  \/ /\ VaultSaved(V)
            /\ promise' = [promise EXCEPT ![k] = [by |-> "install", value |-> job.value]]
         \/ VaultFails(V) /\ UNCHANGED promise
  /\ job' = None
  /\ UNCHANGED <<bookVars, stops>>

\* Mutant: the key goes from memory, its deletion is not written.
ForgetKey ==
  /\ At("remove", "claimed") /\ ~KeyTaken
  /\ LET k == job.binding.key
     IN  /\ vault' = [vault EXCEPT ![k] = None]
         /\ Breaks(k, "install")
  /\ Advance("deleted")
  /\ UNCHANGED <<bookVars, vaultFile, vaultRisk, stops, faults>>

\* The key is gone for good before its record goes.
DeleteKey ==
  /\ At("remove", "claimed") /\ ~KeyTaken
  /\ LET k == job.binding.key
         V == [vault EXCEPT ![k] = None]
     IN  /\ \/ VaultSaved(V) /\ Advance("deleted")
            \/ VaultFails(V) /\ job' = None
         /\ Breaks(k, "install")
  /\ UNCHANGED <<bookVars, stops>>

DropRecord ==
  /\ At("remove", "deleted")
  /\ LET b == job.binding
     IN  \/ BookSaved(Without(book, b.root)) /\ promise' = [promise EXCEPT ![b.key] = Removed]
         \/ BookFails(Without(book, b.root)) /\ UNCHANGED promise
  /\ job' = None
  /\ UNCHANGED <<vaultVars, stops>>

-----------------------------------------------------------------------------
(* Everyone else. *)

\* The record of an inference route for k is in the maps or may be in the file.
Recorded(k) == \E B \in bookRisk \cup {book} : \E x \in B.blocks : x.root \in Root /\ x.key = k

VaultUnlocked == job # None => job.at = "claimed"

\* secrets set.  The value is promised when no inference route may own the key.
SetLocal(k, v) ==
  /\ VaultUnlocked
  /\ LET V == [vault EXCEPT ![k] = [value |-> v, by |-> "operator"]]
     IN  \/ /\ VaultSaved(V)
            /\ promise' = [promise EXCEPT ![k] = IF Recorded(k) THEN Nothing
                                                 ELSE [by |-> "operator", value |-> v]]
         \/ VaultFails(V) /\ promise' = [promise EXCEPT ![k] = Nothing]
  /\ UNCHANGED <<bookVars, job, stops>>

\* secrets unset.
UnsetLocal(k) ==
  /\ VaultUnlocked /\ vault[k] # None
  /\ LET V == [vault EXCEPT ![k] = None]
     IN  VaultSaved(V) \/ VaultFails(V)
  /\ promise' = [promise EXCEPT ![k] = Nothing]
  /\ UNCHANGED <<bookVars, job, stops>>

\* sync of a repository: its blocks and routes replace those it had, unless a
\* name or a host belongs to another root or a route uses a key no block lists.
Refused(B, p, blocks, routes) ==
  \/ \E x \in blocks, y \in B.blocks : y.name = x.name /\ y.root # p
  \/ \E x \in routes, y \in B.routes : (y.name = x.name \/ y.host = x.host) /\ y.root # p
  \/ \E x \in routes : \A y \in {z \in B.blocks : z.root # p} \cup blocks : y.key # x.key

Sync(p, blocks, routes) ==
  /\ job = None /\ ~Refused(book, p, blocks, routes)
  /\ LET B == [blocks |-> Without(book, p).blocks \cup blocks,
               routes |-> Without(book, p).routes \cup routes]
     IN  BookSaved(B) \/ BookFails(B)
  /\ UNCHANGED <<vaultVars, job, promise, stops>>

\* What a repository declares: at most one block and one route.
Declared(p, S) == {{}} \cup {{x} : x \in {y \in S : y.root = p}}

\* set_global_block and remove_global_block.
EditGlobal(n, blocks) ==
  /\ job = None
  /\ \A x \in book.blocks : x.name = n => x.root = Global
  /\ blocks = {} => \E x \in book.blocks : x.name = n
  /\ LET B == [book EXCEPT !.blocks = {x \in @ : x.name # n} \cup blocks]
     IN  BookSaved(B) \/ BookFails(B)
  /\ UNCHANGED <<vaultVars, job, promise, stops>>

\* The daemon ends, alone or with the machine, and starts again from the files.
Restart ==
  /\ stops < MaxStops
  /\ stops' = stops + 1
  /\ job' = None
  /\ \/ UNCHANGED <<bookFile, bookRisk, vaultFile, vaultRisk>>
     \/ /\ bookFile' \in bookRisk /\ bookRisk' = {bookFile'}
        /\ vaultFile' \in vaultRisk /\ vaultRisk' = {vaultFile'}
  /\ book' = bookFile'
  /\ vault' = vaultFile'
  /\ UNCHANGED <<promise, faults>>

Next ==
  \/ \E b \in Binding : (\E v \in Value : Claim("install", b, v)) \/ Claim("remove", b, None)
  \/ RefuseKey \/ Record \/ SaveKey \/ DeleteKey \/ DropRecord
  \/ \E k \in Key, v \in Value : SetLocal(k, v)
  \/ \E k \in Key : UnsetLocal(k)
  \/ \E p \in Repo : \E blocks \in Declared(p, Block), routes \in Declared(p, Route) :
        Sync(p, blocks, routes)
  \/ \E n \in Name : \E blocks \in {{}} \cup {{[root |-> Global, name |-> n, key |-> k]} : k \in Key} :
        EditGlobal(n, blocks)
  \/ Restart

Spec == Init /\ [][Next]_vars

-----------------------------------------------------------------------------
(* Properties. *)

\* Type invariant: every variable keeps its shape.
TypeOK ==
  /\ book \in Book /\ bookFile \in Book /\ bookRisk \subseteq Book
  /\ vault \in Vault /\ vaultFile \in Vault /\ vaultRisk \subseteq Vault
  /\ job \in Job \cup {None}
  /\ promise \in [Key -> Promise]
  /\ stops \in Nat /\ faults \in Nat

Books  == bookRisk \cup {book, bookFile}
Vaults == vaultRisk \cup {vault, vaultFile}

\* A key that an install wrote is on no disk and in no memory without its
\* record, so that a retry, also after a crash, finds it owned (secrets/mod.rs:
\* "persist ownership before the key", "leave the ownership record until key
\* deletion is durable").
KeyIsRecorded ==
  \A k \in Key, V \in Vaults : V[k] # None /\ V[k].by = "install" =>
    \A B \in Books : \E b \in Binding : b.key = k /\ b \in B.blocks /\ RouteOf(b) \in B.routes

\* A value an operator set, for a key no inference route owned, stays until an
\* operator changes it: no install overwrites it and no removal deletes it,
\* whatever fails or stops in between (handlers.rs:1720, "preserve foreign keys").
ForeignKept ==
  \A k \in Key : \A v \in Value : promise[k] = [by |-> "operator", value |-> v] =>
    \A V \in Vaults : V[k] # None /\ V[k].value = v

\* An install that was answered Ok survives a power failure, its key and its
\* record, until a removal of it or an operator touches the key.
InstallKept ==
  \A k \in Key : \A v \in Value : promise[k] = [by |-> "install", value |-> v] =>
    /\ \A V \in Vaults : V[k] # None /\ V[k].value = v
    /\ \A B \in Books : \E b \in Binding : b.key = k /\ b \in B.blocks /\ RouteOf(b) \in B.routes

\* A removal that was answered Ok is final: neither the key nor the record
\* comes back with a power failure.
RemovalFinal ==
  \A k \in Key : promise[k] = Removed =>
    /\ \A V \in Vaults : V[k] = None
    /\ ~Recorded(k)

\* No host is routed for two roots, so that removing a route never takes down
\* another root's (supervisor.rs:1079-1085).
HostHasOneRoot ==
  \A B \in Books : \A x, y \in B.routes : x.host = y.host => x.root = y.root

=============================================================================
