------------------------------ MODULE Install -------------------------------
(***************************************************************************)
(* What the commands run with sudo do to the machine: `portman install` and *)
(* `uninstall` (cmd/install.rs) over the binaries, the unit and the service  *)
(* manager, and `portman tld add` and `remove` (cmd/tld.rs, core tld.rs)      *)
(* over the resolver files, beside the daemon that reads them when it starts. *)
(* Every step of a command may fail, and ends it there.                       *)
(***************************************************************************)
EXTENDS Naturals, FiniteSets

CONSTANTS
    Domains,   \* TLDs
    Releases,  \* versions of the binaries
    Units      \* contents of the plist or unit file
ASSUME InstallAssumption == 0 \notin Releases /\ 0 \notin Units

VARIABLES
    os,        \* the platform
    machine,   \* installed binary and unit, and the unit the manager runs; 0: none
    proc,      \* the manager's daemon: state, binary and unit it was started with
    dev,       \* is there a daemon started by hand?
    setup,     \* the install or uninstall command
    resolvers, \* the file of each TLD: absent, with our marker, another's, or torn
    others,    \* history: the TLDs whose file is another program's
    known,     \* the daemon's known_tlds
    chore,     \* the tld command
    stale      \* did a command end after its file and before the daemon was told?
installVars == <<os, machine, proc, dev, setup, resolvers, others, known, chore, stale>>
machineVars == <<os, machine, proc, dev, setup>>
domainVars == <<resolvers, others, known, chore, stale>>

NotRunning == [st |-> "none", bin |-> 0, unit |-> 0]
NoSetup == [pc |-> "idle", bin |-> 0, unit |-> 0, refused |-> FALSE]
NoChore == [pc |-> "idle", kind |-> "add", tld |-> CHOOSE d \in Domains : TRUE]
Ours == {d \in Domains : resolvers[d] = "ours"}

InstallInit ==
    /\ os \in {"macos", "linux"} /\ machine = [bin |-> 0, unit |-> 0, loaded |-> 0]
    /\ proc = NotRunning /\ dev \in BOOLEAN /\ setup = NoSetup
    /\ others \in SUBSET Domains
    /\ resolvers = [d \in Domains |-> IF d \in others THEN "other" ELSE "absent"]
    /\ known = {} /\ chore = NoChore /\ stale = FALSE

-----------------------------------------------------------------------------
(* The service manager.                                                    *)
\* A daemon starts: scan_managed_tlds, or an empty set when the scan fails.
Starts(unit) ==
    /\ proc' = [st |-> "running", bin |-> machine'.bin, unit |-> unit]
    /\ \/ known' = Ours /\ stale' = FALSE
       \/ known' = {} /\ stale' = TRUE
    /\ UNCHANGED <<resolvers, others, chore>>
\* KeepAlive and Restart=on-failure: what is loaded is started again.
Relaunch ==
    /\ proc.st = "none" /\ machine.loaded # 0 /\ machine.bin # 0
    /\ UNCHANGED <<os, machine, dev, setup>> /\ Starts(machine.loaded)
DaemonGone ==
    /\ proc.st # "none" /\ proc' = NotRunning /\ known' = {}
    /\ UNCHANGED <<os, machine, dev, setup, resolvers, others, chore, stale>>
\* launchd tells the service to stop and answers while it drains.
Bootout == IF proc.st = "running" THEN [proc EXCEPT !.st = "draining"] ELSE proc

-----------------------------------------------------------------------------
(* cmd_install and cmd_uninstall.                                          *)
Doing(pc) == setup.pc = pc
To(pc) == setup' = [setup EXCEPT !.pc = pc]
\* resolve_install_sources, and on macOS the setup image.
Prepare ==
    /\ setup.pc \in {"idle", "done", "removed", "failed"}
    /\ \E r \in Releases, u \in Units : setup' = [pc |-> "binaries", bin |-> r, unit |-> u, refused |-> FALSE]
    /\ UNCHANGED <<os, machine, proc, dev, domainVars>>
InstallBinaries ==
    /\ Doing("binaries") /\ To("unit") /\ machine' = [machine EXCEPT !.bin = setup.bin]
    /\ UNCHANGED <<os, proc, dev, domainVars>>
\* The plist is only written when it differs.
WriteUnit ==
    /\ Doing("unit") /\ To(IF os = "macos" THEN "bootout" ELSE "reload")
    /\ machine' = [machine EXCEPT !.unit = setup.unit]
    /\ UNCHANGED <<os, proc, dev, domainVars>>
\* `sudo launchctl bootout`, whose failure is not looked at.
BootOut(pc, next) ==
    /\ os = "macos" /\ Doing(pc) /\ setup' = [setup EXCEPT !.pc = next, !.refused = FALSE]
    /\ machine' = [machine EXCEPT !.loaded = 0] /\ proc' = Bootout
    /\ UNCHANGED <<os, dev, domainVars>>
BootoutRefused(pc, next) ==
    /\ Doing(pc) /\ setup' = [setup EXCEPT !.pc = next, !.refused = TRUE]
    /\ UNCHANGED <<os, machine, proc, dev, domainVars>>
\* sweep_stragglers: TERM, a second, KILL; `sudo -n kill` may be refused, and
\* what the manager still has loaded comes back.
Sweep(pc, next) ==
    /\ Doing(pc) /\ To(next)
    /\ \/ dev' = FALSE /\ proc' = NotRunning /\ known' = {}
       \/ UNCHANGED <<dev, proc, known>>
    /\ UNCHANGED <<os, machine, resolvers, others, chore, stale>>
\* wait_for_old_daemon_exit ends with the old daemon or after 30 s.
AwaitExit == Doing("await") /\ To("bootstrap") /\ UNCHANGED <<os, machine, proc, dev, domainVars>>
Bootstrap ==
    /\ Doing("bootstrap")
    /\ IF proc.st = "none" /\ machine.loaded = 0
       THEN To("done") /\ machine' = [machine EXCEPT !.loaded = machine.unit] /\ Starts(machine.unit)
       ELSE To("failed") /\ UNCHANGED <<machine, proc, domainVars>>
    /\ UNCHANGED <<os, dev>>
\* systemctl daemon-reload, enable --now, restart.
Reload == Doing("reload") /\ To("enable") /\ UNCHANGED <<os, machine, proc, dev, domainVars>>
Enable ==
    /\ Doing("enable") /\ To("restart") /\ machine' = [machine EXCEPT !.loaded = machine.unit]
    /\ IF proc.st = "none" THEN Starts(machine.unit) ELSE UNCHANGED <<proc, domainVars>>
    /\ UNCHANGED <<os, dev>>
NoRestart == Doing("restart") /\ To("done") /\ UNCHANGED <<os, machine, proc, dev, domainVars>>
RestartUnit ==
    /\ Doing("restart") /\ To("done") /\ UNCHANGED <<os, machine, dev>> /\ Starts(machine.loaded)

Uninstall ==
    /\ setup.pc \in {"idle", "done", "failed"} /\ setup' = [NoSetup EXCEPT !.pc = "teardown"]
    /\ UNCHANGED <<os, machine, proc, dev, domainVars>>
\* systemctl disable --now stops it before it answers.
Disable ==
    /\ os = "linux" /\ Doing("teardown") /\ setup' = [setup EXCEPT !.pc = "unlink", !.refused = FALSE]
    /\ machine' = [machine EXCEPT !.loaded = 0] /\ proc' = NotRunning /\ known' = {}
    /\ UNCHANGED <<os, dev, resolvers, others, chore, stale>>
\* `uninstall` looks at none of its answers: a refused step leaves its file.
Removes(pc, next, what) ==
    /\ Doing(pc)
    /\ \/ To(next) /\ machine' = [machine EXCEPT ![what] = 0]
       \/ setup' = [setup EXCEPT !.pc = next, !.refused = TRUE] /\ UNCHANGED machine
    /\ UNCHANGED <<os, proc, dev, domainVars>>
\* The unit goes after the sweep on macOS and before it on Linux.
RemoveUnit == Removes("unlink", IF os = "macos" THEN "remove" ELSE "sweepout", "unit")
remove_installed_binaries == Removes("remove", "removed", "bin")
\* Every run_sudo, sudo_write and build that fails ends `install` there.
SetupFails ==
    /\ setup.pc \in {"binaries", "unit", "bootstrap", "reload", "enable", "restart"} /\ To("failed")
    /\ UNCHANGED <<os, machine, proc, dev, domainVars>>

SetupNext ==
    \/ Prepare \/ InstallBinaries \/ WriteUnit \/ BootOut("bootout", "sweep") \/ BootoutRefused("bootout", "sweep")
    \/ Sweep("sweep", "await") \/ AwaitExit \/ Bootstrap \/ Reload \/ Enable \/ RestartUnit \/ Uninstall
    \/ BootOut("teardown", "sweepout") \/ Disable
    \/ BootoutRefused("teardown", IF os = "macos" THEN "sweepout" ELSE "unlink")
    \/ Sweep("sweepout", IF os = "macos" THEN "unlink" ELSE "remove")
    \/ RemoveUnit \/ remove_installed_binaries \/ SetupFails

-----------------------------------------------------------------------------
(* cmd_tld_add and cmd_tld_remove.                                         *)
ChoreAt(pc) == chore.pc = pc
ChoreTo(pc) == chore' = [chore EXCEPT !.pc = pc]
\* peek_resolver: a file without the marker, be it empty, is another's.
PeekResolver ==
    /\ ChoreAt("idle")
    /\ \E k \in {"add", "remove"}, d \in Domains :
         /\ resolvers[d] \in (IF k = "add" THEN {"absent", "ours"} ELSE {"ours"})
         /\ chore' = [pc |-> IF k = "add" THEN "port" ELSE "file", kind |-> k, tld |-> d]
    /\ UNCHANGED <<machineVars, resolvers, others, known, stale>>
DaemonDnsPort ==
    /\ ChoreAt("port") /\ ChoreTo(IF proc.st = "none" THEN "idle" ELSE "file")
    /\ UNCHANGED <<machineVars, resolvers, others, known, stale>>
\* sudo tee truncates, then writes; sudo rm.
FileStep ==
    /\ ChoreAt("file")
    /\ IF chore.kind = "add"
       THEN ChoreTo("write") /\ resolvers' = [resolvers EXCEPT ![chore.tld] = "torn"]
       ELSE ChoreTo("tell") /\ resolvers' = [resolvers EXCEPT ![chore.tld] = "absent"]
    /\ UNCHANGED <<machineVars, others, known, stale>>
TeeWrites ==
    /\ ChoreAt("write") /\ ChoreTo("tell") /\ resolvers' = [resolvers EXCEPT ![chore.tld] = "ours"]
    /\ UNCHANGED <<machineVars, others, known, stale>>
\* TldAdd and TldRemove: module Routes has their other half.
TellDaemon ==
    /\ ChoreAt("tell") /\ proc.st # "none" /\ ChoreTo("idle")
    /\ known' = IF chore.kind = "add" THEN known \cup {chore.tld} ELSE known \ {chore.tld}
    /\ UNCHANGED <<machineVars, resolvers, others, stale>>
\* sudo refused, the daemon not there, the command killed.
ChoreFails ==
    /\ chore.pc # "idle" /\ ChoreTo("idle")
    /\ stale' = (stale \/ chore.pc \in {"write", "tell"})
    /\ UNCHANGED <<machineVars, resolvers, others, known>>
\* Another program's file comes or goes, or a torn one is taken away by hand;
\* not while a command is between its look and its write of that file.
OtherProgram ==
    /\ \E d \in Domains :
         /\ ChoreAt("idle") \/ chore.tld # d
         /\ \/ resolvers[d] = "absent" /\ resolvers' = [resolvers EXCEPT ![d] = "other"] /\ others' = others \cup {d}
            \/ resolvers[d] \in {"other", "torn"} /\ resolvers' = [resolvers EXCEPT ![d] = "absent"] /\ others' = others \ {d}
    /\ UNCHANGED <<machineVars, known, chore, stale>>
DomainNext == PeekResolver \/ DaemonDnsPort \/ FileStep \/ TeeWrites \/ TellDaemon \/ ChoreFails \/ OtherProgram

InstallNext == Relaunch \/ DaemonGone \/ SetupNext \/ DomainNext
InstallSpec == InstallInit /\ [][InstallNext]_installVars

-----------------------------------------------------------------------------
\* A file another program wrote is never overwritten or removed (cmd/tld.rs:60,
\* 138).  Unless a command was cut short or a scan failed since it started, the
\* running daemon knows exactly the TLDs whose file is ours, so that no name is
\* sent to it that it then rejects (cmd/tld.rs:76-88, tld.rs:158).  An install
\* that reports success has the manager run the new binary under the new unit,
\* whatever crashed or drained meanwhile (install.rs:107-118, 142-146), and an
\* uninstall that was refused nothing leaves neither a file nor a daemon that
\* would come back (install.rs:193-205).
MachineTrue ==
    /\ \A d \in Domains : d \in others <=> resolvers[d] = "other"
    /\ proc.st # "none" /\ ChoreAt("idle") /\ ~stale => known = Ours
    /\ Doing("done") =>
           /\ machine = [bin |-> setup.bin, unit |-> setup.unit, loaded |-> setup.unit]
           /\ proc.st # "none" => proc = [st |-> "running", bin |-> setup.bin, unit |-> setup.unit]
    /\ Doing("removed") /\ ~setup.refused =>
           machine = [bin |-> 0, unit |-> 0, loaded |-> 0] /\ proc.st # "running"
=============================================================================
