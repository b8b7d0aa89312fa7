---------------------------- MODULE InstallerProofs -----------------------------
(* What installations, updates and removals guarantee, for any accounts, releases *)
(* and number of jobs: the types with any installers at once, the rest with one.  *)
EXTENDS Installer, TLAPS, SequenceTheorems

USE DEF vars, files, grp, service
USE MarksAreNoVersions

Files == Binaries \union {"unit", "conf", "launcher"}

-----------------------------------------------------------------------------
(* Types *)

LEMMA NoConfTyped ==
    NoConf \in Confs /\ Keeps(NoConf) \in [uids : SUBSET Accounts, flags : BOOLEAN]
BY DEF NoConf, Confs, Keeps

LEMMA NoJobTyped == NoJob \in Jobs
<1>1. NoConf \in Confs
  BY NoConfTyped
<1>2. <<>> \in Seq(Binaries \union {"unit", "conf", "launcher"})
  OBVIOUS
<1>3. QED
  BY <1>1, <1>2 DEF NoJob, Jobs, Kinds, Versions, Archives

LEMMA MergeTyped ==
    ASSUME NEW c \in Confs, NEW user \in Accounts \union {Nobody}
    PROVE  MergeConf(c, user) \in Confs
BY DEF MergeConf, Confs

LEMMA PayloadTyped == ASSUME NEW gui \in BOOLEAN PROVE Payload(gui) \in Seq(Files)
<1>1. <<"svpn", "svpnd">> \in Seq(Files) /\ <<"svpn-gui">> \in Seq(Files) /\ <<>> \in Seq(Files)
  BY DEF Files, Binaries
<1>2. QED
  BY <1>1 DEF Payload

LEMMA RemovalsTyped == ASSUME NEW purge \in BOOLEAN PROVE Removals(purge) \in Seq(Files)
<1>1. /\ <<"unit">> \in Seq(Files) /\ <<"conf">> \in Seq(Files) /\ <<>> \in Seq(Files)
      /\ <<"svpn", "svpnd", "svpn-gui", "launcher">> \in Seq(Files)
  BY DEF Files, Binaries
<1>2. QED
  BY <1>1 DEF Removals

\* The plan of a job is one, and so is what is left of it.
LEMMA PlanTyped ==
    ASSUME TypeOK, NEW i \in Installers, NEW todo \in Seq(Files), NEW steps \in Jobs,
           Plan(i, todo, steps)
    PROVE  job' \in [Installers -> Jobs] /\ pc' \in [Installers -> PCs]
<1>1. steps.user \in Accounts \union {Nobody} /\ conf \in Confs
  BY DEF Jobs, TypeOK
<1>2. [steps EXCEPT !.todo = todo, !.conf = MergeConf(conf, steps.user)] \in Jobs
  BY <1>1, MergeTyped DEF Jobs, Files
<1>3. QED
  BY <1>2 DEF Plan, TypeOK, To, PCs

LEMMA TodoTyped ==
    ASSUME TypeOK, NEW i \in Installers, job[i].todo # <<>>
    PROVE  /\ Head(job[i].todo) \in Files
           /\ [job EXCEPT ![i].todo = Tail(@)] \in [Installers -> Jobs]
<1>1. job[i] \in Jobs /\ job[i].todo \in Seq(Files)
  BY DEF TypeOK, Jobs, Files
<1>2. Tail(job[i].todo) \in Seq(Files) /\ Head(job[i].todo) \in Files
  BY <1>1
<1>3. [job[i] EXCEPT !.todo = Tail(@)] \in Jobs
  BY <1>1, <1>2 DEF Jobs, Files
<1>4. QED
  BY <1>2, <1>3 DEF TypeOK

\* A job that copies or removes has something left to copy or to remove.
TodoLeft == \A i \in Installers : pc[i] \in {"copy", "disable", "remove"} => job[i].todo # <<>>

\* The parts of TypeOK, by what changes together.
FilesTyped   == bin \in [Binaries -> Versions \union {None, Unverified}] /\ unit \in BOOLEAN
                /\ launcher \in BOOLEAN /\ conf \in Confs
GroupTyped   == group \in BOOLEAN /\ members \subseteq Accounts
ServiceTyped == enabled \in BOOLEAN /\ tunnel \in BOOLEAN
                /\ running \in Versions \union {None, Retrying, Unverified} /\ allow \subseteq Accounts
JobsTyped    == pc \in [Installers -> PCs] /\ job \in [Installers -> Jobs]
HistoryTyped == kept \in [uids : SUBSET Accounts, flags : BOOLEAN] /\ jobs \in 0..MaxJobs

LEMMA TypeParts == TypeOK <=> /\ FilesTyped /\ GroupTyped /\ ServiceTyped
                              /\ JobsTyped /\ HistoryTyped
BY Zenon DEF TypeOK, FilesTyped, GroupTyped, ServiceTyped, JobsTyped, HistoryTyped

LEMMA TypePartsNext == FilesTyped' /\ GroupTyped' /\ ServiceTyped' /\ JobsTyped' /\ HistoryTyped'
                           => TypeOK'
BY Zenon DEF TypeOK, FilesTyped, GroupTyped, ServiceTyped, JobsTyped, HistoryTyped

LEMMA InitTyped == Init => TypeOK /\ TodoLeft
<1> SUFFICES ASSUME Init PROVE TypeOK /\ TodoLeft
  OBVIOUS
<1>1. FilesTyped
  BY Zenon DEF Init, FilesTyped
<1>2. GroupTyped
  BY Zenon DEF Init, GroupTyped
<1>3. ServiceTyped
  <2>1. running \in Versions \union {None, Retrying, Unverified} /\ allow \subseteq Accounts
    BY DEF Init
  <2>2. QED
    BY <2>1, Zenon DEF Init, ServiceTyped
<1>4. JobsTyped
  BY NoJobTyped DEF Init, JobsTyped, PCs
<1>5. HistoryTyped
  BY MaxJobsIsNat DEF Init, HistoryTyped, Keeps, Confs
<1>6. TodoLeft
  BY DEF Init, TodoLeft
<1>7. QED
  BY <1>1, <1>2, <1>3, <1>4, <1>5, <1>6, TypeParts

\* Beginning a job.
LEMMA BeginsTyped ==
    ASSUME TypeOK, NEW i \in Installers,
           Install(i) \/ InstallAgain(i) \/ Update(i) \/ Uninstall(i)
    PROVE  JobsTyped' /\ jobs' \in 0..MaxJobs
<1>a. NoJob \in Jobs /\ job \in [Installers -> Jobs] /\ pc \in [Installers -> PCs]
  BY NoJobTyped DEF TypeOK
<1>b. ASSUME Begins(i) PROVE jobs' \in 0..MaxJobs
  BY <1>b, MaxJobsIsNat DEF Begins, TypeOK
<1>1. CASE Install(i)
  <2>1. PICK v \in Versions, gui \in BOOLEAN, restart \in BOOLEAN, systemd \in BOOLEAN,
             u \in Accounts \union {Nobody} :
          Plan(i, Payload(gui),
               [NoJob EXCEPT !.kind = "install", !.version = v, !.gui = gui, !.user = u,
                             !.service = systemd, !.restart = restart])
    BY <1>1, Zenon DEF Install
  <2>2. [NoJob EXCEPT !.kind = "install", !.version = v, !.gui = gui, !.user = u,
                      !.service = systemd, !.restart = restart] \in Jobs
    BY <1>a DEF Jobs, Kinds
  <2>3. QED
    BY <1>1, <1>b, <2>1, <2>2, PayloadTyped, PlanTyped DEF Install, JobsTyped
<1>2. CASE InstallAgain(i)
  <2>1. PICK noGUI \in BOOLEAN, restart \in BOOLEAN, systemd \in BOOLEAN,
             u \in Accounts \union {Nobody} :
          Plan(i, <<>>,
               [NoJob EXCEPT !.kind = "install", !.version = bin["svpnd"], !.user = u,
                             !.gui = bin["svpn-gui"] # None /\ ~noGUI,
                             !.service = systemd, !.restart = restart])
    BY <1>2, Zenon DEF InstallAgain
  <2>2. bin["svpnd"] \in Versions \union {Unverified}
    BY <1>2 DEF InstallAgain, TypeOK, Binaries
  <2>3. ASSUME NEW gui \in BOOLEAN, NEW version \in Versions \union {Unverified}
        PROVE  [NoJob EXCEPT !.kind = "install", !.version = version, !.user = u, !.gui = gui,
                             !.service = systemd, !.restart = restart] \in Jobs
    BY <1>a DEF Jobs, Kinds
  <2>4. [NoJob EXCEPT !.kind = "install", !.version = bin["svpnd"], !.user = u,
                      !.gui = bin["svpn-gui"] # None /\ ~noGUI,
                      !.service = systemd, !.restart = restart] \in Jobs
    <3>1. (bin["svpn-gui"] # None /\ ~noGUI) \in BOOLEAN
      BY Zenon
    <3>2. QED
      BY <2>2, <2>3, <3>1, Zenon
  <2>5. <<>> \in Seq(Files)
    OBVIOUS
  <2>6. QED
    BY <1>2, <1>b, <2>1, <2>4, <2>5, PlanTyped DEF InstallAgain, JobsTyped
<1>3. CASE Update(i)
  <2>1. PICK latest \in Releases, restart \in BOOLEAN :
          job' = [job EXCEPT ![i] = [NoJob EXCEPT !.kind = "update", !.version = latest,
                                                  !.restart = restart]]
    BY <1>3 DEF Update
  <2>2. [NoJob EXCEPT !.kind = "update", !.version = latest, !.restart = restart] \in Jobs
    BY <1>a DEF Jobs, Kinds, Versions
  <2>3. QED
    BY <1>3, <1>a, <1>b, <2>1, <2>2 DEF Update, JobsTyped, To, PCs
<1>4. CASE Uninstall(i)
  <2>1. PICK purge \in BOOLEAN, systemd \in BOOLEAN :
          /\ job' = [job EXCEPT ![i] = [NoJob EXCEPT !.kind = "uninstall", !.purge = purge,
                                           !.service = systemd, !.todo = Removals(purge)]]
          /\ To(i, IF systemd THEN "disable" ELSE "remove")
    BY <1>4 DEF Uninstall
  <2>2. [NoJob EXCEPT !.kind = "uninstall", !.purge = purge, !.service = systemd,
                      !.todo = Removals(purge)] \in Jobs
    BY <1>a, RemovalsTyped DEF Jobs, Kinds, Files
  <2>3. QED
    BY <1>4, <1>a, <1>b, <2>1, <2>2 DEF Uninstall, JobsTyped, To, PCs
<1>5. QED
  BY <1>1, <1>2, <1>3, <1>4

\* A step of a job: the installer goes on, with the same job or another.
LEMMA GoesOn ==
    ASSUME TypeOK, NEW i \in Installers, NEW to \in PCs, To(i, to),
           job' = job \/ \E j \in Jobs : job' = [job EXCEPT ![i] = j]
    PROVE  JobsTyped'
BY DEF TypeOK, JobsTyped, To

\* What a step leaves alone keeps its types.
LEMMA Kept ==
    ASSUME TypeOK
    PROVE  /\ UNCHANGED files => FilesTyped'
           /\ UNCHANGED grp => GroupTyped'
           /\ UNCHANGED service => ServiceTyped'
           /\ UNCHANGED <<kept, jobs>> => HistoryTyped'
<1>1. FilesTyped /\ GroupTyped /\ ServiceTyped /\ HistoryTyped
  BY TypeParts
<1>2. UNCHANGED files => FilesTyped'
  BY <1>1, Zenon DEF FilesTyped
<1>3. UNCHANGED grp => GroupTyped'
  BY <1>1, Zenon DEF GroupTyped
<1>4. UNCHANGED service => ServiceTyped'
  BY <1>1, Zenon DEF ServiceTyped
<1>5. UNCHANGED <<kept, jobs>> => HistoryTyped'
  BY <1>1, Zenon DEF HistoryTyped
<1>6. QED
  BY <1>2, <1>3, <1>4, <1>5

LEMMA AppliesTyped ==
    ASSUME TypeOK, TodoLeft, NEW i \in Installers, Applies(i)
    PROVE  TypeOK'
<1>a. /\ FilesTyped /\ GroupTyped /\ ServiceTyped /\ JobsTyped /\ HistoryTyped
  BY TypeParts
<1>b. job[i] \in Jobs /\ pc[i] \in PCs
  BY DEF TypeOK
<1>c. job[i].version \in Versions \union {Unverified} /\ job[i].conf \in Confs
      /\ job[i].user \in Accounts \union {Nobody}
  BY <1>b DEF Jobs
<1>h. ASSUME NEW to \in PCs, To(i, to), UNCHANGED job PROVE JobsTyped'
  BY <1>h, GoesOn
<1> USE DEF At
<1>1. CASE EnsureGroup(i)
  <2>1. GroupTyped'
    BY <1>1, <1>a, Zenon DEF EnsureGroup, GroupTyped
  <2>2. QED
    BY <1>1, Kept, <1>h, <2>1, TypePartsNext DEF EnsureGroup, PCs
<1>2. CASE AddUserToGroup(i)
  <2>1. GroupTyped'
    <3>1. members' \subseteq Accounts /\ group' = group
      BY <1>2, <1>a, <1>c DEF AddUserToGroup, GroupTyped
    <3>2. QED
      BY <1>a, <3>1, Zenon DEF GroupTyped
  <2>2. QED
    BY <1>2, Kept, <1>h, <2>1, TypePartsNext DEF AddUserToGroup, PCs
<1>3. CASE InstallBinary(i)
  <2>1. FilesTyped'
    <3>1. bin' \in [Binaries -> Versions \union {None, Unverified}]
      BY <1>3, <1>a, <1>c DEF InstallBinary, FilesTyped
    <3>2. QED
      BY <1>3, <1>a, <3>1, Zenon DEF InstallBinary, FilesTyped
  <2>2. JobsTyped'
    BY <1>3, <1>a, TodoTyped DEF InstallBinary, TodoLeft, JobsTyped, To, PCs
  <2>3. QED
    BY <1>3, Kept, <2>1, <2>2, TypePartsNext DEF InstallBinary
<1>4. CASE WriteUnit(i) \/ WriteLauncher(i)
  <2>1. FilesTyped'
    BY <1>4, <1>a, Zenon DEF WriteUnit, WriteLauncher, FilesTyped
  <2>2. QED
    BY <1>4, Kept, <1>h, <2>1, TypePartsNext DEF WriteUnit, WriteLauncher, AfterFiles, PCs
<1>5. CASE OpenConf(i)
  <2>1. conf' \in Confs
    BY <1>5 DEF OpenConf, Emptied, NoConf, Confs
  <2>2. FilesTyped'
    BY <1>5, <1>a, <2>1, Zenon DEF OpenConf, FilesTyped
  <2>3. QED
    BY <1>5, Kept, <1>h, <2>2, TypePartsNext DEF OpenConf, PCs
<1>6. CASE WriteConf(i)
  <2>1. FilesTyped'
    BY <1>6, <1>a, <1>c, Zenon DEF WriteConf, FilesTyped
  <2>2. HistoryTyped'
    BY <1>6, <1>a, <1>c DEF WriteConf, HistoryTyped
  <2>3. QED
    BY <1>6, Kept, <1>h, <2>1, <2>2, TypePartsNext DEF WriteConf, AfterFiles, PCs
<1>7. CASE Reload(i) \/ IsActive(i) \/ TunnelIsUp(i)
  BY <1>7, Kept, <1>h, TypePartsNext DEF Reload, IsActive, TunnelIsUp, PCs
<1>8. ASSUME Runs, bin["svpnd"] # None, UNCHANGED enabled PROVE ServiceTyped'
  <2>1. running' \in Versions \union {None, Retrying, Unverified} /\ allow' \subseteq Accounts
    BY <1>8, <1>a DEF Runs, FilesTyped, Confs, Binaries
  <2>2. QED
    BY <1>8, <1>a, <2>1, Zenon DEF Runs, ServiceTyped
<1>9. CASE Enable(i)
  <2>1. ServiceTyped'
    BY <1>9, <1>a, Zenon DEF Enable, ServiceTyped
  <2>2. QED
    BY <1>9, Kept, <1>h, <2>1, TypePartsNext DEF Enable, PCs
<1>10. CASE Start(i) \/ Restart(i)
  <2>1. ServiceTyped'
    BY <1>10, Kept, <1>8 DEF Start, Restart
  <2>2. QED
    BY <1>10, Kept, <1>h, <2>1, TypePartsNext DEF Start, Restart, PCs
<1>11. QED
  BY <1>1, <1>2, <1>3, <1>4, <1>5, <1>6, <1>7, <1>9, <1>10 DEF Applies

LEMMA OthersTyped ==
    ASSUME TypeOK, TodoLeft, NEW i \in Installers,
           \/ Fetches(i) \/ HandOver(i) \/ Disable(i) \/ Remove(i) \/ Unload(i) \/ DeleteGroup(i)
           \/ Return(i) \/ Stop(i)
    PROVE  TypeOK'
<1>a. /\ FilesTyped /\ GroupTyped /\ ServiceTyped /\ JobsTyped /\ HistoryTyped
  BY TypeParts
<1>b. job[i] \in Jobs /\ pc[i] \in PCs
  BY DEF TypeOK
<1>h. ASSUME NEW to \in PCs, To(i, to), UNCHANGED job PROVE JobsTyped'
  BY <1>h, GoesOn
<1> USE DEF At
<1>1. CASE Fetches(i)
  <2>1. ASSUME NEW got \in Archives PROVE [job[i] EXCEPT !.archive = got] \in Jobs
    BY <1>b DEF Jobs
  <2>2. JobsTyped'
    BY <1>1, <1>a, <2>1 DEF Fetches, JobsTyped, To, PCs
  <2>3. QED
    BY <1>1, <2>2, Kept, TypePartsNext DEF Fetches
<1>2. CASE HandOver(i)
  <2>1. PICK carried \in BOOLEAN, u \in Users \union {Nobody} :
          LET gui == carried /\ bin["svpn-gui"] # None
          IN  Plan(i, Payload(gui),
                   [job[i] EXCEPT !.gui = gui, !.user = u, !.service = TRUE, !.archive = "none",
                                  !.version = IF job[i].archive = "other" THEN Unverified ELSE @])
    BY <1>2, Zenon DEF HandOver
  <2>2. ASSUME NEW gui \in BOOLEAN
        PROVE  [job[i] EXCEPT !.gui = gui, !.user = u, !.service = TRUE, !.archive = "none",
                              !.version = IF job[i].archive = "other" THEN Unverified ELSE @] \in Jobs
    BY <1>b DEF Jobs, Accounts
  <2>3. PICK gui \in BOOLEAN : 
          Plan(i, Payload(gui),
               [job[i] EXCEPT !.gui = gui, !.user = u, !.service = TRUE, !.archive = "none",
                              !.version = IF job[i].archive = "other" THEN Unverified ELSE @])
    <3>1. (carried /\ bin["svpn-gui"] # None) \in BOOLEAN
      BY Zenon
    <3>2. QED
      BY <2>1, <3>1, Zenon
  <2>4. JobsTyped'
    BY <2>2, <2>3, PayloadTyped, PlanTyped DEF JobsTyped
  <2>5. UNCHANGED <<files, grp, service, kept, jobs>>
    BY <1>2, <2>3 DEF HandOver, Plan
  <2>6. QED
    BY <2>4, <2>5, Kept, TypePartsNext
<1>3. CASE Disable(i)
  <2>1. ServiceTyped'
    <3>1. CASE UNCHANGED service
      BY <3>1, Kept
    <3>2. CASE enabled' = FALSE /\ running' = None /\ allow' = {} /\ tunnel' = FALSE
      <4>1. running' \in Versions \union {None, Retrying, Unverified} /\ allow' \subseteq Accounts
        BY <3>2
      <4>2. QED
        BY <3>2, <4>1, Zenon DEF ServiceTyped
    <3>3. QED
      BY <1>3, <3>1, <3>2 DEF Disable
  <2>2. QED
    BY <1>3, <1>h, <2>1, Kept, TypePartsNext DEF Disable, PCs
<1>4. CASE Remove(i)
  <2>1. bin' \in [Binaries -> Versions \union {None, Unverified}]
    BY <1>4, <1>a DEF Remove, FilesTyped
  <2>2. \/ conf' = NoConf /\ kept' = Keeps(NoConf) /\ jobs' = jobs
        \/ UNCHANGED <<conf, kept, jobs>>
    BY <1>4, Zenon DEF Remove
  <2>3. conf' \in Confs
    BY <1>a, <2>2, NoConfTyped DEF FilesTyped
  <2>4. unit' \in BOOLEAN /\ launcher' \in BOOLEAN
    BY <1>4, <1>a, Zenon DEF Remove, FilesTyped
  <2>5. FilesTyped'
    BY <2>1, <2>3, <2>4, Zenon DEF FilesTyped
  <2>6. HistoryTyped'
    BY <1>a, <2>2, NoConfTyped DEF HistoryTyped
  <2>7. JobsTyped'
    BY <1>4, <1>a, TodoTyped DEF Remove, TodoLeft, JobsTyped, To, AfterRemovals, PCs
  <2>8. QED
    BY <1>4, <2>5, <2>6, <2>7, Kept, TypePartsNext DEF Remove
<1>5. CASE Unload(i)
  <2>1. ServiceTyped'
    <3>1. running' \in Versions \union {None, Retrying, Unverified}
      BY <1>5, <1>a DEF Unload, ServiceTyped
    <3>2. QED
      BY <1>5, <1>a, <3>1, Zenon DEF Unload, ServiceTyped
  <2>2. QED
    BY <1>5, <1>h, <2>1, Kept, TypePartsNext DEF Unload, PCs
<1>6. CASE DeleteGroup(i)
  <2>1. GroupTyped'
    <3>1. members' \subseteq Accounts
      BY <1>6, <1>a DEF DeleteGroup, GroupTyped
    <3>2. QED
      BY <1>6, <1>a, <3>1, Zenon DEF DeleteGroup, GroupTyped
  <2>2. QED
    BY <1>6, <1>h, <2>1, Kept, TypePartsNext DEF DeleteGroup, PCs
<1>7. CASE Return(i)
  BY <1>7, GoesOn, NoJobTyped, Kept, TypePartsNext DEF Return, PCs
<1>8. CASE Stop(i)
  <2>1. HistoryTyped'
    BY <1>8, <1>a, NoConfTyped DEF Stop, HistoryTyped
  <2>2. JobsTyped'
    BY <1>8, <1>a, NoJobTyped DEF Stop, JobsTyped, To, PCs
  <2>3. QED
    BY <1>8, <2>1, <2>2, Kept, TypePartsNext DEF Stop
<1>9. QED
  BY <1>1, <1>2, <1>3, <1>4, <1>5, <1>6, <1>7, <1>8

LEMMA DaemonTyped == TypeOK /\ (Clients \/ Crash \/ Revive) => TypeOK'
<1> SUFFICES ASSUME TypeOK, Clients \/ Crash \/ Revive PROVE TypeOK'
  OBVIOUS
<1>a. FilesTyped /\ ServiceTyped /\ JobsTyped
  BY TypeParts
<1>1. JobsTyped' /\ FilesTyped' /\ GroupTyped' /\ HistoryTyped'
  <2>1. UNCHANGED <<files, grp, pc, job, kept, jobs>>
    BY DEF Clients, Crash, Revive
  <2>2. QED
    BY <1>a, <2>1, Kept DEF JobsTyped
<1>2. ServiceTyped'
  <2>1. running' \in Versions \union {None, Retrying, Unverified} /\ allow' \subseteq Accounts
    BY <1>a DEF Clients, Crash, Revive, Runs, FilesTyped, ServiceTyped, Confs, Binaries
  <2>2. tunnel' \in BOOLEAN /\ enabled' = enabled
    BY <1>a, Zenon DEF Clients, Crash, Revive, Runs, ServiceTyped
  <2>3. QED
    BY <1>a, <2>1, <2>2, Zenon DEF ServiceTyped
<1>3. QED
  BY <1>1, <1>2, TypePartsNext

LEMMA TodoStep == TypeOK /\ TodoLeft /\ [Next]_vars => TodoLeft'
<1> SUFFICES ASSUME TypeOK, TodoLeft, [Next]_vars PROVE TodoLeft'
  OBVIOUS
<1>a. job \in [Installers -> Jobs] /\ pc \in [Installers -> PCs]
  BY DEF TypeOK
<1>b. \A i \in Installers : job[i].todo \in Seq(Files)
  BY <1>a DEF Jobs, Files
<1>1. CASE UNCHANGED <<pc, job>>
  BY <1>1 DEF TodoLeft
<1>2. CASE Clients \/ Crash \/ Revive
  BY <1>1, <1>2 DEF Clients, Crash, Revive
<1> DEFINE Local(i) == \A k \in Installers \ {i} : pc'[k] = pc[k] /\ job'[k] = job[k]
           Has(i)   == pc'[i] \in {"copy", "disable", "remove"} => job'[i].todo # <<>>
<1>3. ASSUME NEW i \in Installers, Local(i), Has(i) PROVE TodoLeft'
  BY <1>3 DEF TodoLeft
<1> HIDE DEF Local, Has
<1> USE DEF At
<1>4. ASSUME NEW i \in Installers, AddUserToGroup(i) PROVE TodoLeft'
  BY <1>4, <1>3, <1>a DEF AddUserToGroup, To, Local, Has
<1>5. ASSUME NEW i \in Installers, InstallBinary(i) \/ Remove(i) PROVE TodoLeft'
  <2>1. job'[i].todo = Tail(job[i].todo)
    <3>1. job' = [job EXCEPT ![i].todo = Tail(@)]
      BY <1>5 DEF InstallBinary, Remove
    <3>2. job[i] \in Jobs
      BY <1>a
    <3>3. QED
      BY <1>a, <3>1, <3>2 DEF Jobs
  <2>2. Has(i) \/ Len(job[i].todo) # 1
    BY <1>5, <1>a DEF InstallBinary, Remove, To, AfterRemovals, Has
  <2>3. job[i].todo # <<>>
    BY <1>5 DEF InstallBinary, Remove, TodoLeft
  <2>4. Len(job[i].todo) # 1 => Tail(job[i].todo) # <<>>
    <3>1. /\ Len(job[i].todo) \in Nat \ {0} /\ Tail(job[i].todo) \in Seq(Files)
          /\ Len(Tail(job[i].todo)) = Len(job[i].todo) - 1
      BY <1>b, <2>3
    <3>2. Len(<<>>) = 0
      BY EmptySeq
    <3>3. ASSUME Len(job[i].todo) # 1 PROVE Len(Tail(job[i].todo)) # 0
      BY <3>1, <3>3
    <3>4. QED
      BY <3>2, <3>3, Zenon
  <2>5. Has(i)
    BY <2>1, <2>4, <2>2 DEF Has
  <2>6. Local(i)
    BY <1>5, <1>a DEF InstallBinary, Remove, To, Local
  <2>7. QED
    BY <1>3, <2>5, <2>6
<1>6. ASSUME NEW i \in Installers, Uninstall(i) PROVE TodoLeft'
  <2>1. PICK purge \in BOOLEAN, systemd \in BOOLEAN :
          /\ job' = [job EXCEPT ![i] = [NoJob EXCEPT !.kind = "uninstall", !.purge = purge,
                                           !.service = systemd, !.todo = Removals(purge)]]
          /\ To(i, IF systemd THEN "disable" ELSE "remove")
    BY <1>6 DEF Uninstall
  <2>2. Removals(purge) # <<>>
    BY DEF Removals
  <2>3. job'[i].todo = Removals(purge)
    BY <1>a, <2>1 DEF NoJob
  <2>4. Local(i)
    BY <1>a, <2>1 DEF To, Local
  <2>5. QED
    BY <1>3, <2>2, <2>3, <2>4 DEF Has
<1>7. ASSUME NEW i \in Installers, Disable(i) PROVE TodoLeft'
  <2>1. Has(i)
    BY <1>7 DEF Disable, TodoLeft, Has
  <2>2. Local(i)
    BY <1>7, <1>a DEF Disable, To, Local
  <2>3. QED
    BY <1>3, <2>1, <2>2
<1>8. ASSUME NEW i \in Installers,
             \/ Install(i) \/ InstallAgain(i) \/ Update(i) \/ Fetches(i) \/ HandOver(i)
             \/ EnsureGroup(i) \/ WriteUnit(i) \/ OpenConf(i) \/ WriteConf(i) \/ WriteLauncher(i)
             \/ Reload(i) \/ Enable(i) \/ IsActive(i) \/ Start(i) \/ TunnelIsUp(i) \/ Restart(i)
             \/ Unload(i) \/ DeleteGroup(i) \/ Return(i) \/ Stop(i)
      PROVE  TodoLeft'
  <2>1. pc'[i] \notin {"copy", "disable", "remove"}
    BY <1>8, <1>a
       DEF Install, InstallAgain, Update, Fetches, HandOver, Plan, EnsureGroup, WriteUnit, OpenConf,
           WriteConf, WriteLauncher, Reload, Enable, IsActive, Start, TunnelIsUp, Restart, Unload,
           DeleteGroup, Return, Stop, To, AfterFiles
  <2>2. Local(i)
    BY <1>8, <1>a
       DEF Install, InstallAgain, Update, Fetches, HandOver, Plan, EnsureGroup, WriteUnit, OpenConf,
           WriteConf, WriteLauncher, Reload, Enable, IsActive, Start, TunnelIsUp, Restart, Unload,
           DeleteGroup, Return, Stop, To, Local
  <2>3. QED
    BY <1>3, <2>1, <2>2 DEF Has
<1>9. QED
  BY <1>1, <1>2, <1>4, <1>5, <1>6, <1>7, <1>8 DEF Next, Applies

LEMMA TypeStep == TypeOK /\ TodoLeft /\ [Next]_vars => TypeOK'
<1> SUFFICES ASSUME TypeOK, TodoLeft, [Next]_vars PROVE TypeOK'
  OBVIOUS
<1>1. ASSUME NEW i \in Installers,
             Install(i) \/ InstallAgain(i) \/ Update(i) \/ Uninstall(i)
      PROVE  TypeOK'
  <2>1. UNCHANGED <<files, grp, service, kept>>
    BY <1>1 DEF Install, InstallAgain, Update, Uninstall, Plan
  <2>2. JobsTyped' /\ jobs' \in 0..MaxJobs
    BY <1>1, BeginsTyped
  <2>3. HistoryTyped'
    BY <2>1, <2>2 DEF TypeOK, HistoryTyped
  <2>4. QED
    BY <2>1, <2>2, <2>3, Kept, TypePartsNext
<1>2. CASE UNCHANGED vars
  <2>1. JobsTyped'
    BY <1>2 DEF TypeOK, JobsTyped
  <2>2. QED
    BY <1>2, <2>1, Kept, TypePartsNext
<1>3. QED
  BY <1>1, <1>2, AppliesTyped, OthersTyped, DaemonTyped DEF Next

\* Whatever the installers do at once, every value is of its type.
THEOREM InstallerTyped == Spec => []TypeOK
BY InitTyped, TypeStep, TodoStep, PTL DEF Spec

-----------------------------------------------------------------------------
(* One installer *)

\* The unit's binary is there, and none that was not verified.
Stocked == /\ unit => bin["svpnd"] \in Versions
           /\ bin \in [Binaries -> Versions \union {None}]

Planned == {"group", "member", "copy", "unit", "conf", "confOpen"}

\* What an installer carries is a version, and it has copied svpnd, or will have, before
\* it writes the unit.
BinaryFirst(i) ==
    /\ pc[i] \in {"download", "fetched", "group", "member", "copy"} => job[i].version \in Versions
    /\ pc[i] \in {"group", "member"} /\ job[i].todo = <<>> => bin["svpnd"] \in Versions
    /\ pc[i] \in {"group", "member", "copy"} =>
          \/ job[i].todo \in {<<>>, <<"svpn", "svpnd">>, <<"svpn", "svpnd", "svpn-gui">>,
                              <<"svpnd">>, <<"svpnd", "svpn-gui">>}
          \/ job[i].todo = <<"svpn-gui">> /\ bin["svpnd"] \in Versions
    /\ pc[i] = "unit" => bin["svpnd"] \in Versions

\* A removal begins with the unit.
UnitFirst(i) ==
    pc[i] \in {"disable", "remove"} => job[i].todo = Removals(job[i].purge) \/ ~unit

\* What Plan merged holds all that has to be kept.
MergedInTime(i) ==
    pc[i] \in Planned =>
        /\ kept.uids \union ({job[i].user} \ {Nobody}) \subseteq job[i].conf.uids
        /\ kept.flags => job[i].conf.flags

\* Once the unit is enabled it stays so, and what comes up by itself is what is installed.
InEffect(i) ==
    /\ pc[i] \in {"active", "start", "ask", "restart"} => enabled
    /\ pc[i] = "start" /\ Active => running = bin["svpnd"] /\ allow = conf.uids

OneInv == /\ Stocked /\ AllowlistAccumulates
          /\ \A i \in Installers : /\ BinaryFirst(i) /\ UnitFirst(i)
                                   /\ MergedInTime(i) /\ InEffect(i)

LEMMA InitOne == Init => OneInv
BY DEF Init, OneInv, Stocked, AllowlistAccumulates, BinaryFirst, UnitFirst, MergedInTime, InEffect,
       Planned, Active, Keeps

LEMMA PayloadIs ==
    /\ Payload(TRUE) = <<"svpn", "svpnd", "svpn-gui">>
    /\ Payload(FALSE) = <<"svpn", "svpnd">>
<1> DEFINE short == <<"svpn", "svpnd">>
           long  == <<"svpn", "svpnd", "svpn-gui">>
           last  == <<"svpn-gui">>
<1>1. /\ short \in Seq(Files) /\ long \in Seq(Files) /\ last \in Seq(Files)
      /\ Len(short) = 2 /\ Len(long) = 3 /\ Len(last) = 1
      /\ short[1] = "svpn" /\ short[2] = "svpnd" /\ last[1] = "svpn-gui"
      /\ long[1] = "svpn" /\ long[2] = "svpnd" /\ long[3] = "svpn-gui"
  BY DEF Files, Binaries
<1>2. Payload(FALSE) = short \o <<>> /\ Payload(TRUE) = short \o last
  BY DEF Payload
<1> HIDE DEF short, long, last
<1>3. short \o <<>> = short
  BY <1>1, ConcatEmptySeq
<1>4. short \o last = long
  <2> DEFINE both == short \o last
  <2>1. /\ both \in Seq(Files) /\ Len(both) = 2 + 1
        /\ \A i \in 1..2 + 1 : both[i] = IF i <= 2 THEN short[i] ELSE last[i - 2]
    <3>1. short \in Seq(Files) /\ last \in Seq(Files)
      BY <1>1
    <3>2. /\ both \in Seq(Files) /\ Len(both) = Len(short) + Len(last)
          /\ \A i \in 1..Len(short) + Len(last) :
                both[i] = IF i <= Len(short) THEN short[i] ELSE last[i - Len(short)]
      BY <3>1, ConcatProperties
    <3>3. QED
      BY <1>1, <3>2
  <2> HIDE DEF both
  <2>2. both[1] = long[1] /\ both[2] = long[2] /\ both[3] = long[3] /\ Len(both) = 3
    BY <1>1, <2>1
  <2>3. \A i \in 1..Len(both) : both[i] = long[i]
    BY <2>1, <2>2
  <2>4. both = long
    BY <1>1, <2>1, <2>2, <2>3, SeqEqual
  <2>5. QED
    BY <2>4 DEF both
<1>5. QED
  BY <1>2, <1>3, <1>4 DEF short, long, last

LEMMA RemovalsBegin == ASSUME NEW purge \in BOOLEAN PROVE Head(Removals(purge)) = "unit"
BY DEF Removals

\* A plan that is made: what it carries, and what it merged.
LEMMA PlanOne ==
    ASSUME TypeOK, NEW i, Installers = {i}, OneInv, pc[i] # "confOpen",
           NEW todo, NEW steps \in Jobs, Plan(i, todo, steps), steps.version \in Versions,
           \/ todo = <<>> /\ bin["svpnd"] \in Versions
           \/ todo \in {<<"svpn", "svpnd">>, <<"svpn", "svpnd", "svpn-gui">>}
    PROVE  OneInv'
<1>a. /\ job' = [job EXCEPT ![i] = [steps EXCEPT !.todo = todo, !.conf = MergeConf(conf, steps.user)]]
      /\ pc' = [pc EXCEPT ![i] = "group"] /\ UNCHANGED <<files, grp, service, kept>>
      /\ job \in [Installers -> Jobs] /\ pc \in [Installers -> PCs]
  BY DEF Plan, To, TypeOK
<1>1. /\ pc'[i] = "group" /\ job'[i].todo = todo /\ job'[i].version = steps.version
      /\ job'[i].user = steps.user /\ job'[i].conf = MergeConf(conf, steps.user)
  BY <1>a DEF Jobs
<1>2. Stocked'
  BY <1>a DEF OneInv, Stocked
<1>3. kept.uids \subseteq conf.uids /\ (kept.flags => conf.flags)
  BY DEF OneInv, AllowlistAccumulates
<1>4. AllowlistAccumulates'
  BY <1>a, <1>3 DEF AllowlistAccumulates
<1>5. MergedInTime(i)'
  BY <1>a, <1>1, <1>3 DEF MergedInTime, MergeConf
<1>6. BinaryFirst(i)'
  <2>1. todo = <<>> => bin["svpnd"] \in Versions
    OBVIOUS
  <2>2. QED
    BY <1>a, <1>1, <2>1 DEF BinaryFirst
<1>7. UnitFirst(i)' /\ InEffect(i)'
  BY <1>1 DEF UnitFirst, InEffect
<1>8. QED
  BY <1>2, <1>4, <1>5, <1>6, <1>7 DEF OneInv

LEMMA BeginsOne ==
    ASSUME TypeOK, NEW i, Installers = {i}, OneInv,
           Install(i) \/ InstallAgain(i) \/ Update(i) \/ Uninstall(i)
    PROVE  OneInv'
<1>a. NoJob \in Jobs /\ job \in [Installers -> Jobs] /\ pc \in [Installers -> PCs] /\ pc[i] = "idle"
  BY NoJobTyped DEF TypeOK, Install, InstallAgain, Update, Uninstall, Begins, At
<1>b. Stocked /\ AllowlistAccumulates
  BY DEF OneInv
<1>1. CASE Install(i)
  <2>1. PICK v \in Versions, gui \in BOOLEAN, restart \in BOOLEAN, systemd \in BOOLEAN,
             u \in Accounts \union {Nobody} :
          Plan(i, Payload(gui),
               [NoJob EXCEPT !.kind = "install", !.version = v, !.gui = gui, !.user = u,
                             !.service = systemd, !.restart = restart])
    BY <1>1, Zenon DEF Install
  <2> DEFINE steps == [NoJob EXCEPT !.kind = "install", !.version = v, !.gui = gui, !.user = u,
                                    !.service = systemd, !.restart = restart]
  <2>2. steps \in Jobs /\ steps.version \in Versions
    BY <1>a DEF Jobs, Kinds
  <2>3. Payload(gui) \in {<<"svpn", "svpnd">>, <<"svpn", "svpnd", "svpn-gui">>}
    BY PayloadIs
  <2>4. Plan(i, Payload(gui), steps)
    BY <2>1
  <2> HIDE DEF steps
  <2>5. QED
    BY <1>a, <2>2, <2>3, <2>4, PlanOne
<1>2. CASE InstallAgain(i)
  <2>1. PICK noGUI \in BOOLEAN, restart \in BOOLEAN, systemd \in BOOLEAN,
             u \in Accounts \union {Nobody} :
          Plan(i, <<>>,
               [NoJob EXCEPT !.kind = "install", !.version = bin["svpnd"], !.user = u,
                             !.gui = bin["svpn-gui"] # None /\ ~noGUI,
                             !.service = systemd, !.restart = restart])
    BY <1>2, Zenon DEF InstallAgain
  <2> DEFINE steps(gui) == [NoJob EXCEPT !.kind = "install", !.version = bin["svpnd"], !.user = u,
                                         !.gui = gui, !.service = systemd, !.restart = restart]
  <2>2. bin["svpnd"] \in Versions
    BY <1>2, <1>b DEF InstallAgain, Stocked, Binaries
  <2>3. ASSUME NEW gui \in BOOLEAN PROVE steps(gui) \in Jobs /\ steps(gui).version \in Versions
    BY <1>a, <2>2 DEF Jobs, Kinds
  <2>4. PICK gui \in BOOLEAN : Plan(i, <<>>, steps(gui))
    <3>1. (bin["svpn-gui"] # None /\ ~noGUI) \in BOOLEAN
      BY Zenon
    <3>2. QED
      BY <2>1, <3>1, Zenon
  <2> HIDE DEF steps
  <2>5. QED
    BY <1>a, <2>2, <2>3, <2>4, PlanOne
<1>3. CASE Update(i)
  <2>1. PICK latest \in Releases, restart \in BOOLEAN :
          job' = [job EXCEPT ![i] = [NoJob EXCEPT !.kind = "update", !.version = latest,
                                                  !.restart = restart]]
    BY <1>3 DEF Update
  <2>2. job'[i].version \in Versions /\ pc'[i] = "download" /\ UNCHANGED <<files, grp, service, kept>>
    BY <1>3, <1>a, <2>1 DEF Update, To, Versions, Jobs
  <2>3. /\ BinaryFirst(i)' /\ UnitFirst(i)' /\ MergedInTime(i)' /\ InEffect(i)'
    BY <2>2 DEF BinaryFirst, UnitFirst, MergedInTime, InEffect, Planned
  <2>4. Stocked' /\ AllowlistAccumulates'
    BY <1>a, <1>b, <2>2 DEF Stocked, AllowlistAccumulates
  <2>5. QED
    BY <2>3, <2>4 DEF OneInv
<1>4. CASE Uninstall(i)
  <2>1. PICK purge \in BOOLEAN, systemd \in BOOLEAN :
          /\ job' = [job EXCEPT ![i] = [NoJob EXCEPT !.kind = "uninstall", !.purge = purge,
                                           !.service = systemd, !.todo = Removals(purge)]]
          /\ To(i, IF systemd THEN "disable" ELSE "remove")
    BY <1>4 DEF Uninstall
  <2>2. /\ job'[i].todo = Removals(job'[i].purge) /\ pc'[i] \in {"disable", "remove"}
        /\ UNCHANGED <<files, grp, service, kept>>
    BY <1>4, <1>a, <2>1 DEF Uninstall, To, Jobs
  <2>3. /\ BinaryFirst(i)' /\ UnitFirst(i)' /\ MergedInTime(i)' /\ InEffect(i)'
    BY <2>2 DEF BinaryFirst, UnitFirst, MergedInTime, InEffect, Planned
  <2>4. Stocked' /\ AllowlistAccumulates'
    BY <1>a, <1>b, <2>2 DEF Stocked, AllowlistAccumulates
  <2>5. QED
    BY <2>3, <2>4 DEF OneInv
<1>5. QED
  BY <1>1, <1>2, <1>3, <1>4

\* What a download gives is handed over only when it is what was published.
LEMMA FetchOne ==
    ASSUME TypeOK, NEW i, Installers = {i}, OneInv, Fetches(i) \/ HandOver(i)
    PROVE  OneInv'
<1>a. /\ job \in [Installers -> Jobs] /\ pc \in [Installers -> PCs] /\ job[i] \in Jobs
      /\ pc[i] \in {"download", "fetched"} /\ job[i].version \in Versions
  BY DEF TypeOK, OneInv, BinaryFirst, Fetches, HandOver, At
<1>b. Stocked /\ AllowlistAccumulates
  BY DEF OneInv
<1>1. CASE Fetches(i)
  <2>1. PICK got \in Archives : job' = [job EXCEPT ![i].archive = got]
    BY <1>1 DEF Fetches
  <2>2. job'[i].version \in Versions /\ pc'[i] = "fetched" /\ UNCHANGED <<files, grp, service, kept>>
    BY <1>1, <1>a, <2>1 DEF Fetches, To, Jobs
  <2>3. /\ BinaryFirst(i)' /\ UnitFirst(i)' /\ MergedInTime(i)' /\ InEffect(i)'
    BY <2>2 DEF BinaryFirst, UnitFirst, MergedInTime, InEffect, Planned
  <2>4. Stocked' /\ AllowlistAccumulates'
    BY <1>a, <1>b, <2>2 DEF Stocked, AllowlistAccumulates
  <2>5. QED
    BY <2>3, <2>4 DEF OneInv
<1>2. CASE HandOver(i)
  <2>1. PICK carried \in BOOLEAN, u \in Users \union {Nobody} :
          LET gui == carried /\ bin["svpn-gui"] # None
          IN  Plan(i, Payload(gui),
                   [job[i] EXCEPT !.gui = gui, !.user = u, !.service = TRUE, !.archive = "none",
                                  !.version = IF job[i].archive = "other" THEN Unverified ELSE @])
    BY <1>2, Zenon DEF HandOver
  <2> DEFINE steps(gui) ==
               [job[i] EXCEPT !.gui = gui, !.user = u, !.service = TRUE, !.archive = "none",
                              !.version = IF job[i].archive = "other" THEN Unverified ELSE @]
  <2>2. job[i].archive = "published"
    BY <1>2 DEF HandOver, Verified
  <2>3. ASSUME NEW gui \in BOOLEAN PROVE steps(gui) \in Jobs /\ steps(gui).version \in Versions
    BY <1>a, <2>2 DEF Jobs, Accounts
  <2>4. PICK gui \in BOOLEAN : Plan(i, Payload(gui), steps(gui))
    <3>1. (carried /\ bin["svpn-gui"] # None) \in BOOLEAN
      BY Zenon
    <3>2. QED
      BY <2>1, <3>1, Zenon
  <2>5. Payload(gui) \in {<<"svpn", "svpnd">>, <<"svpn", "svpnd", "svpn-gui">>}
    BY PayloadIs
  <2> HIDE DEF steps
  <2>6. QED
    BY <1>a, <2>3, <2>4, <2>5, PlanOne
<1>3. QED
  BY <1>1, <1>2

LEMMA AppliesOne ==
    ASSUME TypeOK, TodoLeft, NEW i, Installers = {i}, OneInv, Applies(i)
    PROVE  OneInv'
<1>a. /\ job \in [Installers -> Jobs] /\ pc \in [Installers -> PCs] /\ job[i] \in Jobs
  BY DEF TypeOK
<1>b. /\ Stocked /\ AllowlistAccumulates
      /\ BinaryFirst(i) /\ UnitFirst(i) /\ MergedInTime(i) /\ InEffect(i)
  BY DEF OneInv
<1>c. ASSUME Stocked', AllowlistAccumulates', BinaryFirst(i)', UnitFirst(i)', MergedInTime(i)',
             InEffect(i)'
      PROVE  OneInv'
  BY <1>c DEF OneInv
<1>d. ASSUME UNCHANGED <<bin, unit>> PROVE Stocked'
  BY <1>b, <1>d DEF Stocked
<1>e. ASSUME UNCHANGED <<conf, kept>>, pc[i] # "confOpen" PROVE AllowlistAccumulates'
  BY <1>b, <1>e DEF AllowlistAccumulates
<1>f. ASSUME pc'[i] \notin {"disable", "remove"} PROVE UnitFirst(i)'
  BY <1>f DEF UnitFirst
<1>g. ASSUME pc'[i] \notin {"active", "start", "ask", "restart"} PROVE InEffect(i)'
  BY <1>g DEF InEffect
<1>h. ASSUME UNCHANGED <<kept, job>>, pc[i] \in Planned \/ pc'[i] \notin Planned PROVE MergedInTime(i)'
  BY <1>b, <1>h DEF MergedInTime
<1>i. ASSUME pc'[i] \notin {"download", "fetched", "group", "member", "copy", "unit"}
      PROVE  BinaryFirst(i)'
  BY <1>i DEF BinaryFirst
<1> USE DEF At
<1>1. CASE EnsureGroup(i)
  <2>1. /\ pc[i] = "group" /\ pc'[i] = "member" /\ UNCHANGED <<files, service, job, kept>>
    BY <1>1, <1>a DEF EnsureGroup, To
  <2>2. BinaryFirst(i)'
    BY <1>b, <2>1 DEF BinaryFirst
  <2>3. QED
    BY <1>c, <1>d, <1>e, <1>f, <1>g, <1>h, <2>1, <2>2 DEF Planned
<1>2. CASE AddUserToGroup(i)
  <2>1. /\ pc[i] = "member" /\ pc'[i] = IF job[i].todo = <<>> THEN "unit" ELSE "copy"
        /\ UNCHANGED <<files, service, job, kept>>
    BY <1>2, <1>a DEF AddUserToGroup, To
  <2>2. BinaryFirst(i)'
    BY <1>b, <2>1 DEF BinaryFirst
  <2>3. QED
    BY <1>c, <1>d, <1>e, <1>f, <1>g, <1>h, <2>1, <2>2 DEF Planned
<1>3. CASE InstallBinary(i)
  <2> DEFINE todo == job[i].todo
             file == Head(todo)
  <2>1. /\ pc[i] = "copy" /\ pc'[i] = (IF Len(todo) = 1 THEN "unit" ELSE "copy")
        /\ bin' = [bin EXCEPT ![file] = job[i].version]
        /\ UNCHANGED <<unit, conf, launcher, service, kept>>
        /\ job[i].version \in Versions /\ todo # <<>>
    BY <1>3, <1>a, <1>b DEF InstallBinary, To, BinaryFirst, TodoLeft
  <2>2. /\ job'[i].todo = Tail(todo) /\ job'[i].version = job[i].version
        /\ job'[i].user = job[i].user /\ job'[i].conf = job[i].conf
    <3>1. job' = [job EXCEPT ![i].todo = Tail(@)]
      BY <1>3 DEF InstallBinary
    <3>2. QED
      BY <1>a, <3>1 DEF Jobs
  <2>3. bin' \in [Binaries -> Versions \union {None}]
    BY <1>b, <2>1 DEF Stocked
  <2>4. bin'["svpnd"] \in Versions \/ bin'["svpnd"] = bin["svpnd"]
    BY <1>b, <2>1 DEF Stocked, Binaries
  <2>5. file = "svpnd" => bin'["svpnd"] \in Versions
    BY <1>b, <2>1 DEF Stocked, Binaries
  <2>6. Stocked'
    BY <1>b, <2>1, <2>3, <2>4 DEF Stocked
  <2>7. BinaryFirst(i)'
    <3>1. \/ todo \in {<<"svpn", "svpnd">>, <<"svpn", "svpnd", "svpn-gui">>,
                         <<"svpnd">>, <<"svpnd", "svpn-gui">>}
          \/ todo = <<"svpn-gui">> /\ bin["svpnd"] \in Versions
      BY <1>b, <2>1 DEF BinaryFirst
    <3>2. CASE todo = <<"svpn", "svpnd">>
      <4>1. Tail(todo) = <<"svpnd">> /\ Len(todo) = 2
        BY <3>2
      <4>2. QED
        BY <2>1, <2>2, <4>1 DEF BinaryFirst
    <3>3. CASE todo = <<"svpn", "svpnd", "svpn-gui">>
      <4>1. Tail(todo) = <<"svpnd", "svpn-gui">> /\ Len(todo) = 3
        BY <3>3
      <4>2. QED
        BY <2>1, <2>2, <4>1 DEF BinaryFirst
    <3>4. CASE todo = <<"svpnd">>
      <4>1. file = "svpnd" /\ Len(todo) = 1
        BY <3>4
      <4>2. QED
        BY <2>1, <2>5, <4>1 DEF BinaryFirst
    <3>5. CASE todo = <<"svpnd", "svpn-gui">>
      <4>1. file = "svpnd" /\ Len(todo) = 2 /\ Tail(todo) = <<"svpn-gui">>
        BY <3>5
      <4>2. QED
        BY <2>1, <2>2, <2>5, <4>1 DEF BinaryFirst
    <3>6. CASE todo = <<"svpn-gui">> /\ bin["svpnd"] \in Versions
      <4>1. Len(todo) = 1
        BY <3>6
      <4>2. QED
        BY <2>1, <2>4, <3>6, <4>1 DEF BinaryFirst
    <3>7. QED
      BY <3>1, <3>2, <3>3, <3>4, <3>5, <3>6
  <2>8. MergedInTime(i)'
    BY <1>b, <2>1, <2>2 DEF MergedInTime, Planned
  <2> HIDE DEF todo, file
  <2>9. QED
    BY <1>c, <1>e, <1>f, <1>g, <2>1, <2>6, <2>7, <2>8
<1>4. CASE WriteUnit(i)
  <2>1. /\ pc[i] = "unit" /\ pc'[i] = "conf" /\ bin["svpnd"] \in Versions
        /\ UNCHANGED <<bin, conf, launcher, service, job, kept>>
    BY <1>4, <1>a, <1>b DEF WriteUnit, To, BinaryFirst
  <2>2. Stocked'
    BY <1>b, <2>1 DEF Stocked
  <2>3. QED
    BY <1>c, <1>e, <1>f, <1>g, <1>h, <1>i, <2>1, <2>2 DEF Planned
<1>5. CASE OpenConf(i)
  <2>1. /\ pc[i] = "conf" /\ pc'[i] = "confOpen" /\ UNCHANGED <<bin, unit, service, job, kept>>
    BY <1>5, <1>a DEF OpenConf, To
  <2>2. AllowlistAccumulates'
    BY <2>1 DEF AllowlistAccumulates
  <2>3. QED
    BY <1>c, <1>d, <1>f, <1>g, <1>h, <1>i, <2>1, <2>2 DEF Planned
<1>6. CASE WriteConf(i)
  <2>1. /\ pc[i] = "confOpen" /\ pc'[i] \in {"launcher", "reload", "done"} /\ conf' = job[i].conf
        /\ UNCHANGED <<bin, unit, service, job>>
    BY <1>6, <1>a DEF WriteConf, To, AfterFiles
  <2>2. /\ kept'.uids = kept.uids \union ({job[i].user} \ {Nobody}) /\ kept'.flags = kept.flags
    BY <1>6 DEF WriteConf, TypeOK
  <2>3. AllowlistAccumulates'
    BY <1>b, <2>1, <2>2 DEF AllowlistAccumulates, MergedInTime, Planned
  <2>4. MergedInTime(i)'
    BY <2>1 DEF MergedInTime, Planned
  <2>5. QED
    BY <1>c, <1>d, <1>f, <1>g, <1>i, <2>1, <2>3, <2>4
<1>7. CASE WriteLauncher(i) \/ Reload(i)
  <2>1. /\ pc[i] \in {"launcher", "reload"} /\ pc'[i] \in {"reload", "enable", "done"}
        /\ UNCHANGED <<bin, unit, conf, service, job, kept>>
    BY <1>7, <1>a DEF WriteLauncher, Reload, To, AfterFiles
  <2>2. QED
    BY <1>c, <1>d, <1>e, <1>f, <1>g, <1>h, <1>i, <2>1 DEF Planned
<1>8. CASE Enable(i)
  <2>1. /\ pc[i] = "enable" /\ pc'[i] = "active" /\ enabled' = TRUE /\ UNCHANGED <<files, job, kept>>
    BY <1>8, <1>a DEF Enable, To
  <2>2. InEffect(i)'
    BY <2>1 DEF InEffect
  <2>3. QED
    BY <1>c, <1>d, <1>e, <1>f, <1>h, <1>i, <2>1, <2>2 DEF Planned
<1>9. CASE IsActive(i) \/ TunnelIsUp(i)
  <2>1. /\ pc[i] \in {"active", "ask"} /\ pc'[i] \in {"ask", "start", "restart", "done"}
        /\ pc'[i] = "start" => ~Active
        /\ UNCHANGED <<files, service, job, kept>>
    BY <1>9, <1>a DEF IsActive, TunnelIsUp, To
  <2>2. InEffect(i)'
    BY <1>b, <2>1 DEF InEffect, Active
  <2>3. QED
    BY <1>c, <1>d, <1>e, <1>f, <1>h, <1>i, <2>1, <2>2 DEF Planned
<1>10. CASE Start(i) \/ Restart(i)
  <2>1. /\ pc[i] \in {"start", "restart"} /\ pc'[i] = "done" /\ UNCHANGED <<files, job, kept>>
    BY <1>10, <1>a DEF Start, Restart, To
  <2>2. QED
    BY <1>c, <1>d, <1>e, <1>f, <1>g, <1>h, <1>i, <2>1 DEF Planned
<1>11. QED
  BY <1>1, <1>2, <1>3, <1>4, <1>5, <1>6, <1>7, <1>8, <1>9, <1>10 DEF Applies

LEMMA OthersOne ==
    ASSUME TypeOK, TodoLeft, NEW i, Installers = {i}, OneInv,
           Disable(i) \/ Remove(i) \/ Unload(i) \/ DeleteGroup(i) \/ Return(i) \/ Stop(i)
    PROVE  OneInv'
<1>a. /\ job \in [Installers -> Jobs] /\ pc \in [Installers -> PCs] /\ job[i] \in Jobs
  BY DEF TypeOK
<1>b. /\ Stocked /\ AllowlistAccumulates /\ UnitFirst(i) /\ MergedInTime(i)
  BY DEF OneInv
<1>c. ASSUME pc'[i] \in {"remove", "unload", "groupdel", "done", "idle"},
             Stocked', AllowlistAccumulates', UnitFirst(i)'
      PROVE  OneInv'
  BY <1>c DEF OneInv, BinaryFirst, MergedInTime, InEffect, Planned
<1> USE DEF At
<1>1. CASE Disable(i)
  <2>1. pc[i] = "disable" /\ pc'[i] = "remove" /\ UNCHANGED <<files, job, kept>>
    BY <1>1, <1>a DEF Disable, To
  <2>2. Stocked' /\ AllowlistAccumulates' /\ UnitFirst(i)'
    BY <1>a, <1>b, <2>1 DEF Stocked, AllowlistAccumulates, UnitFirst
  <2>3. QED
    BY <1>c, <2>1, <2>2
<1>2. CASE Remove(i)
  <2> DEFINE file == Head(job[i].todo)
  <2>1. /\ pc[i] = "remove" /\ pc'[i] \in {"remove", "unload", "groupdel", "done"}
        /\ bin' = [b \in Binaries |-> IF b = file THEN None ELSE bin[b]]
        /\ unit' = (unit /\ file # "unit")
        /\ \/ conf' = NoConf /\ kept' = Keeps(NoConf)
           \/ UNCHANGED <<conf, kept>>
    BY <1>2, <1>a DEF Remove, To, AfterRemovals
  <2>2. ~unit'
    <3>1. CASE job[i].todo = Removals(job[i].purge)
      <4>1. file = "unit"
        BY <1>a, <3>1, RemovalsBegin DEF Jobs
      <4>2. QED
        BY <2>1, <4>1, Zenon
    <3>2. CASE ~unit
      BY <2>1, <3>2, Zenon
    <3>3. QED
      BY <1>b, <2>1, <3>1, <3>2 DEF UnitFirst
  <2>3. Stocked'
    BY <1>b, <2>1, <2>2 DEF Stocked
  <2>4. AllowlistAccumulates'
    BY <1>b, <2>1 DEF AllowlistAccumulates, Keeps
  <2>5. UnitFirst(i)'
    BY <2>2 DEF UnitFirst
  <2>6. QED
    BY <1>c, <2>1, <2>3, <2>4, <2>5
<1>3. CASE Unload(i) \/ DeleteGroup(i) \/ Return(i)
  <2>1. /\ pc[i] # "confOpen" /\ pc'[i] \in {"groupdel", "done", "idle"} /\ UNCHANGED <<files, kept>>
    BY <1>3, <1>a DEF Unload, DeleteGroup, Return, To
  <2>2. Stocked' /\ AllowlistAccumulates' /\ UnitFirst(i)'
    BY <1>b, <2>1 DEF Stocked, AllowlistAccumulates, UnitFirst
  <2>3. QED
    BY <1>c, <2>1, <2>2
<1>4. CASE Stop(i)
  <2>1. /\ pc'[i] = "idle" /\ UNCHANGED files
        /\ kept' = IF pc[i] = "confOpen" THEN Keeps(NoConf) ELSE kept
    BY <1>4, <1>a DEF Stop, To
  <2>2. Stocked' /\ UnitFirst(i)'
    BY <1>b, <2>1 DEF Stocked, UnitFirst
  <2>3. AllowlistAccumulates'
    BY <1>b, <2>1 DEF AllowlistAccumulates, Keeps, NoConf
  <2>4. QED
    BY <1>c, <2>1, <2>2, <2>3
<1>5. QED
  BY <1>1, <1>2, <1>3, <1>4

LEMMA DaemonOne ==
    ASSUME NEW i, Installers = {i}, OneInv, Clients \/ Crash \/ Revive \/ UNCHANGED vars
    PROVE  OneInv'
<1>1. UNCHANGED <<files, pc, job, kept, enabled>>
  BY DEF Clients, Crash, Revive
<1>2. \/ ~Active'
      \/ Active /\ running' = running /\ allow' = allow
      \/ running' = bin["svpnd"] /\ allow' = conf.uids
  <2>1. CASE Clients \/ UNCHANGED vars
    BY <2>1 DEF Clients, Active
  <2>2. CASE Crash
    BY <2>2 DEF Crash, Active
  <2>3. CASE Revive
    BY <2>3 DEF Revive, Runs
  <2>4. QED
    BY <2>1, <2>2, <2>3
<1>3. BinaryFirst(i)' /\ UnitFirst(i)' /\ MergedInTime(i)'
  BY <1>1 DEF OneInv, BinaryFirst, UnitFirst, MergedInTime
<1>4. InEffect(i)'
  BY <1>1, <1>2 DEF OneInv, InEffect
<1>5. Stocked' /\ AllowlistAccumulates'
  BY <1>1 DEF OneInv, Stocked, AllowlistAccumulates
<1>6. QED
  BY <1>3, <1>4, <1>5 DEF OneInv

LEMMA OneStep ==
    ASSUME NEW i, Installers = {i}
    PROVE  TypeOK /\ TodoLeft /\ OneInv /\ [Next]_vars => OneInv'
BY BeginsOne, FetchOne, AppliesOne, OthersOne, DaemonOne DEF Next

LEMMA AlwaysOne ==
    ASSUME NEW CONSTANT i, Installers = {i}
    PROVE  Spec => [](TypeOK /\ OneInv)
<1>1. Init => TypeOK /\ TodoLeft /\ OneInv
  BY InitTyped, InitOne
<1>2. TypeOK /\ TodoLeft /\ OneInv /\ [Next]_vars => (TypeOK /\ TodoLeft /\ OneInv)'
  BY TypeStep, TodoStep, OneStep
<1>3. QED
  BY <1>1, <1>2, PTL DEF Spec

\* With one installer at a time, wherever it stops, systemd is never left with a unit
\* whose binary is not there or not the release's.
THEOREM UnitNeverDangles ==
    ASSUME NEW CONSTANT i, Installers = {i}
    PROVE  Spec => []UnitHasItsBinary
<1>1. OneInv => UnitHasItsBinary
  BY DEF OneInv, Stocked, UnitHasItsBinary
<1>2. QED
  BY <1>1, AlwaysOne, PTL

\* With one installer at a time, nobody drops off the allowlist and no flag is lost.
THEOREM NobodyIsLockedOut ==
    ASSUME NEW CONSTANT i, Installers = {i}
    PROVE  Spec => []AllowlistAccumulates
<1>1. OneInv => AllowlistAccumulates
  BY DEF OneInv
<1>2. QED
  BY <1>1, AlwaysOne, PTL

\* With one installer at a time, an installation with systemd that ends well is in
\* effect.
THEOREM InstallationIsInEffect ==
    ASSUME NEW CONSTANT one, Installers = {one}
    PROVE  Spec => InstallTakesEffect
<1>1. TypeOK /\ OneInv /\ [Next]_vars =>
          [\A i \in Installers :
              pc[i] \in {"start", "ask", "restart"} /\ pc'[i] = "done" =>
                  /\ enabled
                  /\ \/ running' = bin["svpnd"] /\ allow' = conf.uids
                     \/ tunnel /\ running' \in Versions /\ ~job[i].restart]_vars
  <2> SUFFICES ASSUME TypeOK, OneInv, Next, NEW i \in Installers,
                      pc[i] \in {"start", "ask", "restart"}, pc'[i] = "done"
               PROVE  /\ enabled
                      /\ \/ running' = bin["svpnd"] /\ allow' = conf.uids
                         \/ tunnel /\ running' \in Versions /\ ~job[i].restart
    OBVIOUS
  <2>1. InEffect(i) /\ pc \in [Installers -> PCs] /\ Installers = {i}
    BY DEF OneInv, TypeOK
  <2>2. Start(i) \/ TunnelIsUp(i) \/ Restart(i)
    BY <2>1 DEF Next, Applies, At, To, Install, InstallAgain, Update, Begins, Fetches, HandOver, Plan,
         EnsureGroup, AddUserToGroup, InstallBinary, WriteUnit, OpenConf, WriteConf, WriteLauncher,
         Reload, Enable, IsActive, Uninstall, Disable, Remove, Unload, DeleteGroup, Return, Stop,
         Clients, Crash, Revive
  <2>3. enabled
    BY <2>1 DEF InEffect
  <2>4. CASE Start(i)
    BY <2>1, <2>3, <2>4 DEF Start, At, InEffect, Runs
  <2>5. CASE TunnelIsUp(i)
    <3>1. PICK inTime \in InTime : To(i, IF LeavesAlone(i, inTime) THEN "done" ELSE "restart")
      BY <2>5 DEF TunnelIsUp
    <3>2. LeavesAlone(i, inTime)
      BY <2>1, <3>1 DEF To
    <3>3. QED
      BY <2>3, <2>5, <3>2 DEF LeavesAlone, Answered, Active, TunnelIsUp
  <2>6. CASE Restart(i)
    BY <2>3, <2>6 DEF Restart, Runs
  <2>7. QED
    BY <2>2, <2>4, <2>5, <2>6
<1>2. Spec => [](TypeOK /\ OneInv)
  BY AlwaysOne
<1>3. QED
  BY <1>1, <1>2, PTL DEF Spec, InstallTakesEffect
=============================================================================
