---------------------------- MODULE SecretsCache ----------------------------
(***************************************************************************)
(* Resolving [secrets.*] blocks (secrets/mod.rs, infisical.rs,              *)
(* onepassword.rs) for spawn attempts and egress requests, against the      *)
(* edits of blocks that invalidate the cache (supervisor.rs: sync,          *)
(* set_global_block, remove_global_block).  A value is the version of the   *)
(* provider's store it was read from; a configuration is a version too.     *)
(***************************************************************************)
EXTENDS Naturals

CONSTANTS
    SecretBlocks, Fetchers, \* block names; attempts and requests that resolve
    Providers,              \* a subset of {"local", "infisical", "onepassword"}
    NotCached, NotFetching,
    MaxEdits, MaxRotations, \* bounds: edits of blocks, changes of values
    Straddle                \* may an edit commit while a fetch is under way?

ASSUME SecretsAssumption ==
    /\ Providers \subseteq {"local", "infisical", "onepassword"}
    /\ {MaxEdits, MaxRotations} \subseteq Nat /\ Straddle \in BOOLEAN

VARIABLES
    config,   \* Inner.secrets: each block's provider and coordinates
    remote,   \* the providers' stores: version of their values
    vault,    \* credentials.json: version of the local values
    cache,    \* ProviderSecretsSource.cache
    token,    \* InfisicalClient.tokens: none, valid or revoked by the server
    fetching, \* what each resolver is doing
    edit,     \* has an edit committed whose invalidate() has not run?
    since     \* the version of the providers when the last edit committed

secretVars == <<config, remote, vault, cache, token, fetching, edit, since>>

SecretsInit ==
    /\ config \in [SecretBlocks -> [provider : Providers, version : {0}]]
    /\ remote = 0 /\ vault = 0 /\ since = 0
    /\ cache = [b \in SecretBlocks |-> NotCached]
    /\ token = "none" /\ edit = FALSE
    /\ fetching = [f \in Fetchers |-> NotFetching]

Goes(f, pc) == fetching' = [fetching EXCEPT ![f].pc = pc]
Gets(f, pc, value) == fetching' = [fetching EXCEPT ![f].pc = pc, ![f].value = value]
Here(f, pc) == fetching[f] # NotFetching /\ fetching[f].pc = pc
Coordinates(f) == fetching[f].config

\* resolve, resolve_egress_value: the block is read under its lock first.
Resolve(f, b) ==
    /\ fetching[f] = NotFetching
    /\ fetching' = [fetching EXCEPT ![f] =
          [pc |-> "lookup", block |-> b, config |-> config[b], value |-> NotCached]]
    /\ UNCHANGED <<config, remote, vault, cache, token, edit, since>>

\* resolve_block: a cached block is answered from the cache, a local one from
\* the vault, which is never cached.
Lookup(f) ==
    /\ Here(f, "lookup")
    /\ LET hit == cache[fetching[f].block]
       IN  CASE hit # NotCached -> Gets(f, "resolved", hit)
             [] hit = NotCached /\ Coordinates(f).provider = "local" ->
                  Gets(f, "resolved", [from |-> Coordinates(f), version |-> vault])
             [] hit = NotCached /\ Coordinates(f).provider = "infisical" -> Goes(f, "login")
             [] hit = NotCached /\ Coordinates(f).provider = "onepassword" -> Goes(f, "fetch")
    /\ UNCHANGED <<config, remote, vault, cache, token, edit, since>>

\* bearer_token: the cached token, or a login, which may be refused or time out.
Login(f) ==
    /\ Here(f, "login")
    /\ \/ token # "none" /\ UNCHANGED token /\ Goes(f, "fetch")
       \/ token = "none" /\ token' = "valid" /\ Goes(f, "fetch")
       \/ token = "none" /\ UNCHANGED token /\ Goes(f, "failed")
    /\ UNCHANGED <<config, remote, vault, cache, edit, since>>

Accepted(f) == Coordinates(f).provider # "infisical" \/ token # "revoked"
\* list_path, cli_export, op: the provider answers with what it holds now, or
\* the call fails, transiently or for good; an error is never cached.
Fetch(f) ==
    /\ Here(f, "fetch")
    /\ \/ /\ Accepted(f)
          /\ Gets(f, "insert", [from |-> Coordinates(f), version |-> remote])
       \/ Goes(f, "failed")
    /\ UNCHANGED <<config, remote, vault, cache, token, edit, since>>

Insert(f) ==
    /\ Here(f, "insert")
    /\ cache' = [cache EXCEPT ![fetching[f].block] = fetching[f].value]
    /\ Goes(f, "resolved")
    /\ UNCHANGED <<config, remote, vault, token, edit, since>>

\* The attempt or the request goes on, with the values or with the error.
Leave(f) ==
    /\ Here(f, "resolved") \/ Here(f, "failed")
    /\ fetching' = [fetching EXCEPT ![f] = NotFetching]
    /\ UNCHANGED <<config, remote, vault, cache, token, edit, since>>

-----------------------------------------------------------------------------
\* sync, set_global_block and remove_global_block commit under the block lock,
\* a sync perhaps the same coordinates; invalidate() runs after it is released.
EditBlock(b, provider) ==
    /\ ~edit
    /\ Straddle \/ \A f \in Fetchers : fetching[f] = NotFetching
    /\ \/ config' = config
       \/ /\ config[b].version < MaxEdits
          /\ config' = [config EXCEPT ![b] = [provider |-> provider, version |-> @.version + 1]]
    /\ edit' = TRUE /\ since' = remote
    /\ UNCHANGED <<remote, vault, cache, token, fetching>>

\* Mutant: an edit drops nothing.
InvalidateNothing ==
    /\ edit /\ edit' = FALSE
    /\ UNCHANGED <<config, remote, vault, cache, token, fetching, since>>
Invalidate ==
    /\ edit
    /\ cache' = [b \in SecretBlocks |-> NotCached]
    /\ edit' = FALSE
    /\ UNCHANGED <<config, remote, vault, token, fetching, since>>

\* `portman secrets set`, a rotation at the provider, a token that expires or
\* that the server revokes (it stays cached until it expires).
SetLocal == vault < MaxRotations /\ vault' = vault + 1
            /\ UNCHANGED <<config, remote, cache, token, fetching, edit, since>>
Rotate == remote < MaxRotations /\ remote' = remote + 1
          /\ UNCHANGED <<config, vault, cache, token, fetching, edit, since>>
TokenExpires == token # "none" /\ token' = "none"
                /\ UNCHANGED <<config, remote, vault, cache, fetching, edit, since>>
TokenRevoked == token = "valid" /\ token' = "revoked"
                /\ UNCHANGED <<config, remote, vault, cache, fetching, edit, since>>

ResolveStep(f) == Lookup(f) \/ Login(f) \/ Fetch(f) \/ Insert(f) \/ Leave(f)
SecretsNext ==
    \/ \E f \in Fetchers : ResolveStep(f) \/ \E b \in SecretBlocks : Resolve(f, b)
    \/ \E b \in SecretBlocks, p \in Providers : EditBlock(b, p)
    \/ Invalidate \/ SetLocal \/ Rotate \/ TokenExpires \/ TokenRevoked

SecretsSpec == SecretsInit /\ [][SecretsNext]_secretVars

-----------------------------------------------------------------------------
\* Once an edit has been answered, no block is served from the coordinates it
\* had before, nor a block that is local now from a provider's answer
\* ("Replaced coordinates must not keep serving the old block's values"); and
\* what is cached was read from the provider after the edit had committed
\* (`portman up` is the refresh point).
CacheCurrent ==
    ~edit => \A b \in SecretBlocks : cache[b] # NotCached =>
                /\ cache[b].from = config[b] /\ config[b].provider # "local"
                /\ cache[b].version >= since
=============================================================================
