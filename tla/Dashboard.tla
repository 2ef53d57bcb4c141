----------------------------- MODULE Dashboard ------------------------------
(***************************************************************************)
(* The dashboard's API over the two config files of a repo (dashboard.rs)   *)
(* and the token it asks for (dashboard_auth.rs), beside the commands that   *)
(* load the same files (cmd/services.rs), across deaths of the daemon.       *)
(* Files are inodes under names, so that a reader sees what a writer has     *)
(* truncated, and a crash leaves a temporary file for the next writer.       *)
(***************************************************************************)
EXTENDS DashboardApi

CONSTANTS
    Editors, Loaders,   \* POST /api/config requests, and `portman up` commands
    Contents, Fits,     \* a file's contents, and the pairs that resolve together
    Inodes, NoInode, NoSuchFile, Truncated, \* no such file; and what is read of it
    NoToken,            \* no token read or generated
    Contests            \* may edits overlap, or two of them one load?
ASSUME DashboardAssumption ==
    /\ NoInode \notin Inodes /\ NoSuchFile \notin Contents /\ Truncated \notin Contents
    /\ Fits \subseteq (Contents \cup {NoSuchFile}) \X (Contents \cup {NoSuchFile})
    /\ Contests \in BOOLEAN
    /\ Inodes # {} /\ \A i, j, k \in Inodes : Inodes \ {i, j, k} # {}

VARIABLES
    names,     \* the inode of portman.toml, portman.local.toml and their .tmp
    data,      \* the content of each inode
    edits,     \* of each editor: where it is, what it writes, what it read
    loads,     \* of each `up`: where it is, what it read, what it could have
    held,      \* the pair the supervisor was last given, or Unheld
    tokenFile, tokenTemp, \* the token file and its temporary file
    apiToken,  \* the token the running daemon asks for
    handed,    \* the token that was last read by the CLI
    serving    \* the daemon: down, with its token file being written, up
dashboardVars == <<names, data, edits, loads, held, tokenFile, tokenTemp, apiToken, handed, serving>>
fileVars == <<names, data>>
tokenVars == <<tokenFile, tokenTemp, apiToken, handed, serving>>

ConfigNames == {"committed", "local"}
TempOf == [committed |-> "committed.tmp", local |-> "local.tmp"]
ContentOf(n, d, f) == IF n[f] = NoInode THEN NoSuchFile ELSE d[n[f]]
PairOf(n, d) == <<ContentOf(n, d, "committed"), ContentOf(n, d, "local")>>
Disk == PairOf(names, data)
\* load_from_strings, load: does a pair parse and resolve?  (Module ServiceConfig.)
Resolves(pair) == pair \in Fits
Unheld == <<NoSuchFile, NoSuchFile>>
Unsent == [pc |-> "idle", file |-> "committed", content |-> NoSuchFile, inode |-> NoInode,
           read |-> Unheld, seen |-> {}]

DashboardInit ==
    /\ \E pair \in Fits :
         LET i == CHOOSE k \in Inodes : TRUE
             j == CHOOSE k \in Inodes : k # i
         IN
         /\ held = pair
         /\ names = [f \in ConfigNames \cup {TempOf[g] : g \in ConfigNames} |->
                        IF f = "committed" /\ pair[1] # NoSuchFile THEN i
                        ELSE IF f = "local" /\ pair[2] # NoSuchFile THEN j ELSE NoInode]
         /\ data = [k \in Inodes |-> IF k = i THEN pair[1] ELSE IF k = j THEN pair[2] ELSE Truncated]
    /\ edits = [e \in Editors |-> Unsent]
    /\ loads = [c \in Loaders |-> Unsent]
    /\ tokenFile = 0 /\ tokenTemp = 0 /\ apiToken = NoToken /\ handed = NoToken /\ serving = "down"

-----------------------------------------------------------------------------
(* dashboard_auth::load_or_create; tokens are numbered, 0 is no content. *)
LoadToken ==
    /\ serving = "down"
    /\ IF tokenFile # 0 THEN apiToken' = tokenFile /\ serving' = "up" /\ UNCHANGED tokenTemp
       ELSE /\ serving' = "token" /\ UNCHANGED apiToken
            /\ tokenTemp' \in {1, 2} \ {tokenTemp}
    /\ UNCHANGED <<fileVars, edits, loads, held, tokenFile, handed>>
CreateToken ==
    /\ serving = "token"
    /\ tokenFile' = tokenTemp /\ tokenTemp' = 0 /\ apiToken' = tokenTemp /\ serving' = "up"
    /\ UNCHANGED <<fileVars, edits, loads, held, handed>>
\* dashboard_token of the CLI: what the file holds goes into the opened URL.
ReadToken ==
    /\ tokenFile # 0 /\ handed' = tokenFile
    /\ UNCHANGED <<fileVars, edits, loads, held, tokenFile, tokenTemp, apiToken, serving>>
\* The API asks for the token of this daemon, after handle_connection found
\* that Host and Origin are its own.
TokenMatches == handed = apiToken
Authorized == serving = "up" /\ TokenMatches
\* The daemon dies: requests end where they are, temporary files stay.
DaemonDies ==
    /\ serving # "down" /\ serving' = "down" /\ apiToken' = NoToken
    /\ edits' = [e \in Editors |-> Unsent]
    /\ UNCHANGED <<fileVars, loads, held, tokenFile, tokenTemp, handed>>

-----------------------------------------------------------------------------
(* handle_config_post *)
\* The request is authorized, its root is supervised, and its file one of two.
PostConfig(e, f, content) ==
    /\ Authorized /\ edits[e].pc = "idle" /\ held # Unheld
    /\ Contests \/ \A o \in Editors : edits[o].pc = "idle"
    /\ edits' = [edits EXCEPT ![e] = [Unsent EXCEPT !.pc = "validate", !.file = f, !.content = content]]
    /\ UNCHANGED <<fileVars, loads, held, tokenVars>>
\* load_from_strings of the edited content with what is on disk beside it.
Merged(e) == IF edits[e].file = "committed" THEN <<edits[e].content, Disk[2]>> ELSE <<Disk[1], edits[e].content>>
Validate(e) ==
    /\ edits[e].pc = "validate"
    /\ edits' = [edits EXCEPT ![e].pc = IF Resolves(Merged(e)) THEN "open" ELSE "idle"]
    /\ UNCHANGED <<fileVars, loads, held, tokenVars>>
\* write_config_preserving_owner: create or truncate the temporary file, ...
FreeInode == CHOOSE i \in Inodes : i \notin {names[f] : f \in DOMAIN names} \cup {edits[e].inode : e \in Editors}
\* Mutant: the file itself is truncated and written.
OpenInPlace(e) ==
    LET f == edits[e].file
        inode == IF names[f] = NoInode THEN FreeInode ELSE names[f]
    IN /\ edits[e].pc = "open"
       /\ names' = [names EXCEPT ![f] = inode]
       /\ data' = [data EXCEPT ![inode] = Truncated]
       /\ edits' = [edits EXCEPT ![e].pc = "fill", ![e].inode = inode]
       /\ UNCHANGED <<loads, held, tokenVars>>
OpenTemp(e) ==
    LET tmp == TempOf[edits[e].file]
        inode == IF names[tmp] = NoInode THEN FreeInode ELSE names[tmp]
    IN /\ edits[e].pc = "open"
       /\ names' = [names EXCEPT ![tmp] = inode]
       /\ data' = [data EXCEPT ![inode] = Truncated]
       /\ edits' = [edits EXCEPT ![e].pc = "fill", ![e].inode = inode]
       /\ UNCHANGED <<loads, held, tokenVars>>
FillTemp(e) ==
    /\ edits[e].pc = "fill"
    /\ data' = [data EXCEPT ![edits[e].inode] = edits[e].content]
    /\ edits' = [edits EXCEPT ![e].pc = "rename", ![e].inode = NoInode]
    /\ UNCHANGED <<names, loads, held, tokenVars>>
\* ... give it the file's owner, and rename it; the readers may see both pairs.
Readers(n) == [c \in Loaders |-> IF loads[c].pc \in {"load", "load2"}
                                  THEN [loads[c] EXCEPT !.seen = @ \cup {PairOf(n, data)}] ELSE loads[c]]
RenameTemp(e) ==
    LET f == edits[e].file
        n == [names EXCEPT ![f] = names[TempOf[f]], ![TempOf[f]] = NoInode]
    IN /\ edits[e].pc = "rename"
       /\ Contests \/ \A c \in Loaders : Cardinality(Readers(n)[c].seen) <= 2
       /\ IF names[TempOf[f]] = NoInode
          THEN edits' = [edits EXCEPT ![e] = Unsent] /\ UNCHANGED <<names, loads>>
          ELSE /\ names' = n /\ loads' = Readers(n)
               /\ edits' = [edits EXCEPT ![e] = [Unsent EXCEPT !.pc = "load", !.seen = {PairOf(n, data)}]]
       /\ data' = [i \in Inodes |-> IF \E g \in DOMAIN names : names'[g] = i THEN data[i] ELSE Truncated]
       /\ UNCHANGED <<held, tokenVars>>

-----------------------------------------------------------------------------
(* service_config::load reads one file, then the other; then they are synced. *)
ReadNext(r) ==
    IF r.pc = "load" THEN [r EXCEPT !.pc = "load2", !.read = <<Disk[1], NoSuchFile>>]
    ELSE LET pair == <<r.read[1], Disk[2]>>
         IN [r EXCEPT !.pc = IF Resolves(pair) THEN "sync" ELSE "idle", !.read = pair]
PostLoads(e) ==
    /\ edits[e].pc \in {"load", "load2"}
    /\ edits' = [edits EXCEPT ![e] = ReadNext(edits[e])]
    /\ UNCHANGED <<fileVars, loads, held, tokenVars>>
PostSyncs(e) ==
    /\ edits[e].pc = "sync" /\ held' = edits[e].read
    /\ edits' = [edits EXCEPT ![e] = Unsent]
    /\ UNCHANGED <<fileVars, loads, tokenVars>>
\* cmd_up: load_repo_services, and SyncServices if the daemon answers.
UpLoads(c) ==
    /\ loads[c].pc \in {"idle", "load", "load2"}
    /\ loads' = [loads EXCEPT ![c] = IF @.pc = "idle" THEN [Unsent EXCEPT !.pc = "load", !.seen = {Disk}]
                                     ELSE ReadNext(@)]
    /\ UNCHANGED <<fileVars, edits, held, tokenVars>>
UpSyncs(c) ==
    /\ loads[c].pc = "sync"
    /\ loads' = [loads EXCEPT ![c] = Unsent]
    /\ held' = IF serving = "up" THEN loads[c].read ELSE held
    /\ UNCHANGED <<fileVars, edits, tokenVars>>
\* cmd_down with --forget: the root is no longer one the editor may touch.
ForgetsRoot ==
    /\ serving = "up" /\ held' = Unheld
    /\ UNCHANGED <<fileVars, edits, loads, tokenVars>>

DashboardNext ==
    \/ \E e \in Editors :
         \/ \E f \in ConfigNames, x \in Contents : PostConfig(e, f, x)
         \/ Validate(e) \/ OpenTemp(e) \/ FillTemp(e) \/ RenameTemp(e) \/ PostLoads(e) \/ PostSyncs(e)
    \/ \E c \in Loaders : UpLoads(c) \/ UpSyncs(c)
    \/ ForgetsRoot \/ LoadToken \/ CreateToken \/ ReadToken \/ DaemonDies
DashboardSpec == DashboardInit /\ [][DashboardNext]_dashboardVars

-----------------------------------------------------------------------------
\* The files on disk resolve together at every moment, a death of the daemon
\* inside an edit included; what `up` or the editor brings to the supervisor
\* was on disk as a whole, although a load reads the two files one after the
\* other beside an edit; and a token once handed out is the one asked for
\* after every restart (write_config_preserving_owner, load, load_or_create).
EditsTrue ==
    /\ Resolves(Disk)
    /\ \A r \in {edits[e] : e \in Editors} \cup {loads[c] : c \in Loaders} :
         r.pc = "sync" => r.read \in r.seen
    /\ serving = "up" /\ handed # NoToken => handed = apiToken
\* Both halves of the dashboard: the files its editor leaves and what is
\* synced from them, and the calls its API acts on (dashboard.rs).
DashboardTrue == EditsTrue /\ CallsJustified
=============================================================================
