----------------------------- MODULE Installer ------------------------------
(***************************************************************************)
(* internal/install and internal/service/cli/update.go: svpnd install,     *)
(* update and uninstall against the files of a machine, its socket group,  *)
(* systemd, and a daemon that may be carrying a tunnel.                    *)
(*                                                                         *)
(* Plan is one step, because it only reads; Apply and ApplyUninstall are   *)
(* one step per command, rename or write, and may stop between any two of  *)
(* them.  Every path has its default, so all jobs mean the same files.     *)
(***************************************************************************)
EXTENDS Naturals, Sequences

CONSTANTS Installers, \* processes that install, update or uninstall
          Users,      \* unprivileged accounts
          Root,       \* uid 0, which every installer runs as
          Nobody,     \* no account could be resolved
          Releases,   \* the published versions
          InTime,     \* whether a status request is answered within its timeout
          MaxJobs,    \* bound on the number of jobs
          Unverified, \* a binary out of an archive that is not the published one
          None, Retrying

ASSUME ReleasesAreNumbered == Releases \subseteq Nat \ {0}
ASSUME InTimeIsBoolean == InTime \subseteq BOOLEAN
ASSUME MaxJobsIsNat == MaxJobs \in Nat

Development == 0                     \* a build that is no release
Versions    == Releases \union {Development}
ASSUME MarksAreNoVersions == {None, Retrying, Unverified} \intersect Versions = {}
Accounts    == Users \union {Root}
Binaries    == {"svpn", "svpnd", "svpn-gui"}

VARIABLES
    \* the files: the binaries, the unit, the environment file, the launcher
    \* entry with its icon
    bin, unit, conf, launcher,
    \* the socket group and who is in it
    group, members,
    \* systemd: whether the unit is enabled; the process it runs, its allowlist,
    \* and whether its state is another than disconnected
    enabled, running, allow, tunnel,
    \* the installers: where each is, and its plan
    pc, job,
    \* what the environment file has to keep: history, not state of the code;
    \* the jobs so far
    kept, jobs

files   == <<bin, unit, conf, launcher>>
grp     == <<group, members>>
service == <<enabled, running, allow, tunnel>>
vars    == <<files, grp, service, pc, job, kept, jobs>>

Confs  == [present : BOOLEAN, uids : SUBSET Accounts, flags : BOOLEAN]
NoConf == [present |-> FALSE, uids |-> {}, flags |-> FALSE]
Emptied == [NoConf EXCEPT !.present = TRUE]

\* What a download may turn out to be: the archive whose sum the release lists, a part
\* of it, or the one of a release that was published anew meanwhile.
Archives == {"published", "cut", "other"}

Kinds == {"none", "install", "update", "uninstall"}
PCs   == {"idle", "download", "fetched", "group", "member", "copy", "unit", "conf", "confOpen",
          "launcher", "reload", "enable", "active", "start", "ask", "restart",
          "disable", "remove", "unload", "groupdel", "done"}

\* Steps and UninstallSteps.
Jobs == [kind : Kinds, version : Versions \union {Unverified},
         archive : Archives \union {"none"}, todo : Seq(Binaries \union {"unit", "conf", "launcher"}),
         gui : BOOLEAN, user : Accounts \union {Nobody}, conf : Confs,
         service : BOOLEAN, restart : BOOLEAN, purge : BOOLEAN]
NoJob == [kind |-> "none", version |-> Development, archive |-> "none", todo |-> <<>>, gui |-> FALSE,
          user |-> Nobody, conf |-> NoConf, service |-> FALSE, restart |-> FALSE,
          purge |-> FALSE]

TypeOK ==
    /\ bin \in [Binaries -> Versions \union {None, Unverified}]
    /\ unit \in BOOLEAN /\ launcher \in BOOLEAN
    /\ conf \in Confs
    /\ group \in BOOLEAN /\ members \subseteq Accounts
    /\ enabled \in BOOLEAN /\ tunnel \in BOOLEAN
    /\ running \in Versions \union {None, Retrying, Unverified}
    /\ allow \subseteq Accounts
    /\ pc \in [Installers -> PCs]
    /\ job \in [Installers -> Jobs]
    /\ kept \in [uids : SUBSET Accounts, flags : BOOLEAN]
    /\ jobs \in 0..MaxJobs

Keeps(c) == [uids |-> c.uids, flags |-> c.flags]

\* A machine without svpn, on which an administrator may have written the
\* environment file by hand.
Init ==
    /\ bin = [b \in Binaries |-> None] /\ unit = FALSE /\ launcher = FALSE
    /\ conf \in {c \in Confs : ~c.present => c = NoConf}
    /\ group = FALSE /\ members = {}
    /\ enabled = FALSE /\ running = None /\ allow = {} /\ tunnel = FALSE
    /\ pc = [i \in Installers |-> "idle"]
    /\ job = [i \in Installers |-> NoJob]
    /\ kept = Keeps(conf)
    /\ jobs = 0

-----------------------------------------------------------------------------
(* Plan *)

\* Newer: a development build is older than every release.
Newer(candidate, current) ==
    current = Development \/ (candidate # Development /\ candidate > current)

IsRelease(version) == version # Development

\* Mutant of MergeConf: the account replaces the allowlist.
MergeConf_Replaces(existing, user) ==
    [present |-> TRUE, uids |-> {user} \ {Nobody}, flags |-> existing.flags]

\* mergeConf: the account is added, everything else is kept.
MergeConf(existing, user) ==
    [present |-> TRUE, uids |-> existing.uids \union ({user} \ {Nobody}),
     flags |-> existing.flags]

At(i, from) == pc[i] = from
To(i, to)   == pc' = [pc EXCEPT ![i] = to]

\* Another command is given.
Begins(i)   == At(i, "idle") /\ jobs < MaxJobs /\ jobs' = jobs + 1

\* Plan reads the environment file and decides everything.  Only --user can name
\* root: resolveTargetUser passes it over.
Plan(i, todo, steps) ==
    /\ job' = [job EXCEPT ![i] =
                  [steps EXCEPT !.todo = todo, !.conf = MergeConf(conf, steps.user)]]
    /\ To(i, "group")
    /\ UNCHANGED <<files, grp, service, kept>>

Payload(gui) == <<"svpn", "svpnd">> \o (IF gui THEN <<"svpn-gui">> ELSE <<>>)

\* "svpnd install" out of an archive or a build directory, ...
Install(i) ==
    /\ Begins(i)
    /\ \E v \in Versions, gui, restart, systemd \in BOOLEAN, u \in Accounts \union {Nobody} :
          Plan(i, Payload(gui),
               [NoJob EXCEPT !.kind = "install", !.version = v, !.gui = gui, !.user = u,
                             !.service = systemd, !.restart = restart])

\* ... or by the svpnd that is installed: every binary is the Same and left alone.
InstallAgain(i) ==
    /\ Begins(i)
    /\ bin["svpn"] # None /\ bin["svpnd"] # None
    /\ \E noGUI, restart, systemd \in BOOLEAN, u \in Accounts \union {Nobody} :
          Plan(i, <<>>,
               [NoJob EXCEPT !.kind = "install", !.version = bin["svpnd"], !.user = u,
                             !.gui = bin["svpn-gui"] # None /\ ~noGUI,
                             !.service = systemd, !.restart = restart])

\* runUpdate of the installed svpnd: a release with an archive for this platform and
\* with checksums is newer, or is asked for.
Update(i) ==
    /\ Begins(i)
    /\ bin["svpnd"] # None
    /\ \E latest \in Releases, force, restart \in BOOLEAN :
          /\ force \/ (Newer(latest, bin["svpnd"]) /\ IsRelease(bin["svpnd"]))
          /\ job' = [job EXCEPT ![i] = [NoJob EXCEPT !.kind = "update", !.version = latest,
                                                     !.restart = restart]]
    /\ To(i, "download")
    /\ UNCHANGED <<files, grp, service, kept>>

\* Download: the sums first, the archive after them, 256 MB at most.
Fetches(i) ==
    /\ At(i, "download") /\ To(i, "fetched")
    /\ \E got \in Archives : job' = [job EXCEPT ![i].archive = got]
    /\ UNCHANGED <<files, grp, service, kept, jobs>>

\* Mutant of Verified: only looks whether the sums list an archive of that name.
Verified_Listed(archive) == TRUE

\* The sum that was listed is the one of the archive that came.
Verified(archive) == archive = "published"

\* Extract: gzip and tar notice when an archive is not all there.
Unpacks(archive) == archive # "cut"

\* handOver runs the install of the new version, without the desktop client if this
\* machine has none.
HandOver(i) ==
    /\ At(i, "fetched")
    /\ Verified(job[i].archive) /\ Unpacks(job[i].archive)
    /\ \E carried \in BOOLEAN, u \in Users \union {Nobody} :
          LET gui == carried /\ bin["svpn-gui"] # None
          IN  Plan(i, Payload(gui),
                   [job[i] EXCEPT !.gui = gui, !.user = u, !.service = TRUE, !.archive = "none",
                                  !.version = IF job[i].archive = "other" THEN Unverified ELSE @])
    /\ UNCHANGED jobs

-----------------------------------------------------------------------------
(* Apply *)

AfterFiles(i) == IF job[i].service THEN "reload" ELSE "done"

EnsureGroup(i) ==
    /\ At(i, "group") /\ To(i, "member")
    /\ group' = TRUE
    /\ UNCHANGED <<files, members, service, job, kept, jobs>>

AddUserToGroup(i) ==
    /\ At(i, "member")
    /\ To(i, IF job[i].todo = <<>> THEN "unit" ELSE "copy")
    /\ IF job[i].user = Nobody THEN UNCHANGED members
                               ELSE group /\ members' = members \union {job[i].user}
    /\ UNCHANGED <<files, group, service, job, kept, jobs>>

\* installBinary: the rename makes it one step.
InstallBinary(i) ==
    /\ At(i, "copy")
    /\ bin' = [bin EXCEPT ![Head(job[i].todo)] = job[i].version]
    /\ job' = [job EXCEPT ![i].todo = Tail(@)]
    /\ To(i, IF Len(job[i].todo) = 1 THEN "unit" ELSE "copy")
    /\ UNCHANGED <<unit, conf, launcher, grp, service, kept, jobs>>

WriteUnit(i) ==
    /\ At(i, "unit") /\ To(i, "conf")
    /\ unit' = TRUE
    /\ UNCHANGED <<bin, conf, launcher, grp, service, job, kept, jobs>>

\* writeFile empties the file before it writes the content that Plan merged.
OpenConf(i) ==
    /\ At(i, "conf") /\ To(i, "confOpen")
    /\ conf' = Emptied
    /\ UNCHANGED <<bin, unit, launcher, grp, service, job, kept, jobs>>

WriteConf(i) ==
    /\ At(i, "confOpen")
    /\ To(i, IF job[i].gui THEN "launcher" ELSE AfterFiles(i))
    /\ conf' = job[i].conf
    /\ kept' = [kept EXCEPT !.uids = @ \union ({job[i].user} \ {Nobody})]
    /\ UNCHANGED <<bin, unit, launcher, grp, service, job, jobs>>

WriteLauncher(i) ==
    /\ At(i, "launcher") /\ To(i, AfterFiles(i))
    /\ launcher' = TRUE
    /\ UNCHANGED <<bin, unit, conf, grp, service, job, kept, jobs>>

\* startService
Reload(i) ==
    /\ At(i, "reload") /\ To(i, "enable")
    /\ UNCHANGED <<files, grp, service, job, kept, jobs>>

Enable(i) ==
    /\ At(i, "enable") /\ To(i, "active")
    /\ unit
    /\ enabled' = TRUE
    /\ UNCHANGED <<files, grp, running, allow, tunnel, job, kept, jobs>>

Active == running \in Versions

IsActive(i) ==
    /\ At(i, "active") /\ To(i, IF Active THEN "ask" ELSE "start")
    /\ UNCHANGED <<files, grp, service, job, kept, jobs>>

Runs == /\ running' = bin["svpnd"] /\ allow' = conf.uids /\ tunnel' = FALSE

\* systemctl start does nothing to a unit that is active by now.
Start(i) ==
    /\ At(i, "start") /\ To(i, "done")
    /\ IF Active THEN UNCHANGED <<running, allow, tunnel>>
                 ELSE unit /\ bin["svpnd"] # None /\ Runs
    /\ UNCHANGED <<files, grp, enabled, job, kept, jobs>>

\* authorizeUIDs: with an allowlist, only who is on it is answered.
Answered(inTime) == Active /\ inTime /\ (allow = {} \/ Root \in allow)

\* Mutant of LeavesAlone: leaves whatever runs alone.
LeavesAlone_Any(i, inTime) == ~job[i].restart

\* tunnelIsUp, and what startService makes of it.
LeavesAlone(i, inTime) == Answered(inTime) /\ tunnel /\ ~job[i].restart

TunnelIsUp(i) ==
    /\ At(i, "ask")
    /\ \E inTime \in InTime : To(i, IF LeavesAlone(i, inTime) THEN "done" ELSE "restart")
    /\ UNCHANGED <<files, grp, service, job, kept, jobs>>

Restart(i) ==
    /\ At(i, "restart") /\ To(i, "done")
    /\ unit /\ bin["svpnd"] # None
    /\ Runs
    /\ UNCHANGED <<files, grp, enabled, job, kept, jobs>>

-----------------------------------------------------------------------------
(* PlanUninstall and ApplyUninstall *)

\* Mutant of Removals: the binaries go first.
Removals_UnitLast(purge) ==
    <<"svpn", "svpnd", "svpn-gui", "launcher">>
        \o (IF purge THEN <<"conf">> ELSE <<>>) \o <<"unit">>

\* PlanUninstall
Removals(purge) ==
    <<"unit">> \o (IF purge THEN <<"conf">> ELSE <<>>)
        \o <<"svpn", "svpnd", "svpn-gui", "launcher">>

Uninstall(i) ==
    /\ Begins(i)
    /\ \E purge, systemd \in BOOLEAN :
          /\ job' = [job EXCEPT ![i] = [NoJob EXCEPT !.kind = "uninstall", !.purge = purge,
                                           !.service = systemd, !.todo = Removals(purge)]]
          /\ To(i, IF systemd THEN "disable" ELSE "remove")
    /\ UNCHANGED <<files, grp, service, kept>>

\* systemctl disable --now, whose failure is only logged.
Disable(i) ==
    /\ At(i, "disable") /\ To(i, "remove")
    /\ \/ enabled' = FALSE /\ running' = None /\ allow' = {} /\ tunnel' = FALSE
       \/ UNCHANGED service
    /\ UNCHANGED <<files, grp, job, kept, jobs>>

AfterRemovals(i) == IF job[i].service THEN "unload"
                    ELSE IF job[i].purge THEN "groupdel" ELSE "done"

\* A file that is not there is passed over.
Remove(i) ==
    /\ At(i, "remove")
    /\ LET file == Head(job[i].todo)
       IN  /\ bin' = [b \in Binaries |-> IF b = file THEN None ELSE bin[b]]
           /\ unit' = (unit /\ file # "unit")
           /\ launcher' = (launcher /\ file # "launcher")
           /\ IF file = "conf" THEN conf' = NoConf /\ kept' = Keeps(NoConf)
                               ELSE UNCHANGED <<conf, kept>>
    /\ job' = [job EXCEPT ![i].todo = Tail(@)]
    /\ To(i, IF Len(job[i].todo) = 1 THEN AfterRemovals(i) ELSE "remove")
    /\ UNCHANGED <<grp, service, jobs>>

\* systemctl daemon-reload: a unit that is gone is not started again.
Unload(i) ==
    /\ At(i, "unload") /\ To(i, IF job[i].purge THEN "groupdel" ELSE "done")
    /\ running' = IF running = Retrying THEN None ELSE running
    /\ UNCHANGED <<files, grp, enabled, allow, tunnel, job, kept, jobs>>

\* groupdel, whose failure is only logged.
DeleteGroup(i) ==
    /\ At(i, "groupdel") /\ To(i, "done")
    /\ \/ group' = FALSE /\ members' = {}
       \/ UNCHANGED grp
    /\ UNCHANGED <<files, service, job, kept, jobs>>

-----------------------------------------------------------------------------
(* What can happen to an installer, and to the daemon meanwhile *)

\* The plan is forgotten when the command ends.
Return(i) ==
    /\ At(i, "done") /\ To(i, "idle")
    /\ job' = [job EXCEPT ![i] = NoJob]
    /\ UNCHANGED <<files, grp, service, kept, jobs>>

\* A command or a write fails, or the installer is killed: what is done stays
\* done.  An environment file that was only emptied has lost what it held.
Stop(i) ==
    /\ pc[i] \notin {"idle", "done"} /\ To(i, "idle")
    /\ job' = [job EXCEPT ![i] = NoJob]
    /\ kept' = IF pc[i] = "confOpen" THEN Keeps(NoConf) ELSE kept
    /\ UNCHANGED <<files, grp, service, jobs>>

\* A client brings the tunnel up or down.
Clients == Active /\ tunnel' = ~tunnel /\ UNCHANGED <<files, grp, enabled, running, allow,
                                                      pc, job, kept, jobs>>

\* Restart=on-failure: systemd starts it again, with what is installed by then.
Crash  == /\ Active
          /\ running' = Retrying /\ allow' = {} /\ tunnel' = FALSE
          /\ UNCHANGED <<files, grp, enabled, pc, job, kept, jobs>>
Revive == /\ running = Retrying /\ bin["svpnd"] # None
          /\ Runs
          /\ UNCHANGED <<files, grp, enabled, pc, job, kept, jobs>>

-----------------------------------------------------------------------------

Applies(i) ==
    \/ EnsureGroup(i) \/ AddUserToGroup(i) \/ InstallBinary(i)
    \/ WriteUnit(i) \/ OpenConf(i) \/ WriteConf(i) \/ WriteLauncher(i)
    \/ Reload(i) \/ Enable(i) \/ IsActive(i) \/ Start(i) \/ TunnelIsUp(i) \/ Restart(i)

Next ==
    \/ \E i \in Installers :
          \/ Install(i) \/ InstallAgain(i) \/ Update(i) \/ Fetches(i) \/ HandOver(i) \/ Applies(i)
          \/ Uninstall(i) \/ Disable(i) \/ Remove(i) \/ Unload(i) \/ DeleteGroup(i)
          \/ Return(i) \/ Stop(i)
    \/ Clients \/ Crash \/ Revive

Spec == Init /\ [][Next]_vars

-----------------------------------------------------------------------------
(* What has to hold *)

\* Wherever an installer or a download stops, systemd is not left "pointing at a
\* binary that is no longer there" (install.go:302-304), nor at one that is not there
\* yet, nor at one that is not the release's ("not optional": release.go:170-172).
UnitHasItsBinary == unit => bin["svpnd"] \in Versions

\* Nobody who was on the allowlist, by an installation or by hand, is locked out by
\* a later job, and no flag is lost, short of --purge (install.go:243-245,
\* 540-542).  While the file is being written it is empty.
AllowlistAccumulates ==
    (\A i \in Installers : pc[i] # "confOpen") =>
        kept.uids \subseteq conf.uids /\ (kept.flags => conf.flags)

\* An installation with systemd that ends well is in effect, whatever the daemon
\* did meanwhile: what runs is the binary and the allowlist that are installed,
\* or it carries a tunnel that was to be spared (linux.go:302-337).
InstallTakesEffect ==
    [][\A i \in Installers :
          pc[i] \in {"start", "ask", "restart"} /\ pc'[i] = "done" =>
              /\ enabled
              /\ \/ running' = bin["svpnd"] /\ allow' = conf.uids
                 \/ tunnel /\ running' \in Versions /\ ~job[i].restart]_vars

\* "A running daemon carrying a live tunnel is left alone rather than restarted"
\* (README.md:140), unless --restart was given.
LiveTunnelLeftAlone ==
    [][\A i \in Installers :
          pc[i] = "ask" /\ tunnel /\ ~job[i].restart => pc'[i] # "restart"]_vars
=============================================================================
