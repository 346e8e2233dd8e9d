----------------------------- MODULE Lifecycle -----------------------------
(***************************************************************************)
(* The hook among what surrounds it: systemd-resolved, to which the unit   *)
(* is bound, and the installer and uninstaller, which replace or remove    *)
(* the hook and whatever else the unit runs (install.sh, uninstall.sh).    *)
(***************************************************************************)
EXTENDS Hook

CONSTANT Careful    \* an upgrade begins only while the unit runs or is down,
                    \* and who starts the unit waits for its cleaning to end

VARIABLES
    resolved,    \* systemd-resolved
    knows,       \* whether it knows an upstream server
    torn,        \* history: a stop, or a crash, has left its stub in place
    job,         \* what systemd was asked to do with it
    resume,      \* ... and whether the unit is started again afterwards
    stopJob,     \* the unit stops because of a job, for which others wait
    step,        \* of the installer or the uninstaller
    artifacts,   \* the release of what is installed
    startedBy,   \* history: the release whose hook made the last start
    mixed,       \* history: somebody started the unit last while its parts
                 \* were of two releases, or were being installed
    wasActive    \* service_was_active

resolver == <<resolved, job, resume, stopJob>>
installation == <<step, artifacts, startedBy, mixed, wasActive>>
allVars == <<vars, resolver, knows, torn, installation>>

Artifacts == {"hook", "package", "unit", "binaries"}
Nothing == [a \in Artifacts |-> "none"]
OneRelease == \A a, b \in Artifacts : artifacts[a] = artifacts[b]

ASSUME LifecycleAssumption == Careful \in BOOLEAN

-----------------------------------------------------------------------------
InitLifecycle ==
    /\ Init
    /\ resolved = "active" /\ knows = TRUE /\ torn = FALSE
    /\ job = "none" /\ resume = FALSE /\ stopJob = FALSE
    /\ step = "none" /\ artifacts = [a \in Artifacts |-> "old"]
    /\ startedBy = "old" /\ mixed = FALSE /\ wasActive = FALSE

(* A start waits for resolved, and for what is being done with it (After). *)
Begins ==
    /\ resolved = "active" /\ job \notin {"stop", "restart"}
    /\ BeginStart
    /\ stopJob' = FALSE /\ startedBy' = artifacts.hook

(* An administrator, or a boot, whatever a failed or interrupted upgrade   *)
(* has left.                                                               *)
StartUnit ==
    /\ unit = "inactive" /\ job = "none" /\ artifacts.unit # "none"
    /\ Careful => step \in {"none", "unit", "binaries", "start"}
    /\ Begins
    /\ mixed' = (step # "none" \/ ~OneRelease)
    /\ UNCHANGED <<resolved, job, resume, step, artifacts, wasActive>>

(* Restart=on-failure                                                      *)
AutoRestart ==
    /\ unit = "waiting"
    /\ Begins
    /\ UNCHANGED <<resolved, job, resume, step, artifacts, mixed, wasActive>>

(* systemctl stop mitmwall: a start that was to come is cancelled.         *)
SystemctlStop ==
    /\ IF unit = "inactive" THEN UNCHANGED <<vars, stopJob>>
       ELSE RequestStop /\ stopJob' = TRUE
    /\ resume' = FALSE /\ job' = IF job = "resume" THEN "none" ELSE job
    /\ UNCHANGED resolved

StopUnit == SystemctlStop /\ UNCHANGED installation

(* Mutant: hook.py stop asks systemd for resolved.                         *)
HookAsksForResolved ==
    /\ pc = "restore resolver" => resolved = "active" /\ job = "none"
    /\ HookRuns
    /\ UNCHANGED <<resolver, installation>>
HookSteps == HookRuns /\ UNCHANGED <<resolver, installation>>

UnitChanges == (Kill \/ ProxyExits \/ StartLimit) /\ UNCHANGED <<resolver, installation>>

OperatorRetries ==
    /\ step \notin {"cleaning", "clearing"} /\ artifacts.hook # "none"
    /\ RetryStop
    /\ UNCHANGED <<resolver, installation>>

-----------------------------------------------------------------------------
(* systemd-resolved                                                        *)

(* Mutant: a unit without BindsTo and PartOf.                              *)
NotBound == UNCHANGED <<vars, stopJob>>

(* BindsTo, PartOf: what stops resolved stops the unit.                    *)
Bound ==
    IF unit \in {"starting", "running", "waiting"}
    THEN RequestStop /\ stopJob' = TRUE
    ELSE UNCHANGED <<vars, stopJob>>

(* systemctl stop systemd-resolved. A unit that is already stopping has a  *)
(* job from then on.                                                       *)
StopResolved ==
    /\ resolved = "active" /\ job = "none"
    /\ job' = "stop" /\ resume' = FALSE
    /\ IF unit = "stopping" THEN RequestStop /\ stopJob' = TRUE ELSE Bound
    /\ UNCHANGED <<resolved, installation>>

RestartResolved ==
    /\ resolved = "active" /\ job = "none"
    /\ job' = "restart" /\ resume' = (unit \in {"starting", "running", "waiting"})
    /\ Bound
    /\ UNCHANGED <<resolved, installation>>

(* It dies, and systemd restarts it; the unit may be restarted as well.    *)
ResolvedDies ==
    /\ resolved = "active" /\ resolved' = "inactive"
    /\ job' = IF job = "stop" THEN "none" ELSE "restart"
    /\ resume' \in IF job \in {"restart", "resume"} THEN {resume}
                   ELSE {FALSE, job = "none" /\ unit \in {"starting", "running", "waiting"}}
    /\ Bound
    /\ UNCHANGED installation

(* After: resolved waits until a stop job of the unit is done.             *)
Ordered == unit = "stopping" => ~stopJob

JobStopsResolved ==
    /\ job \in {"stop", "restart"} /\ resolved = "active" /\ Ordered
    /\ resolved' = "inactive" /\ job' = IF job = "stop" THEN "none" ELSE job
    /\ UNCHANGED <<vars, resume, stopJob, installation>>

JobStartsResolved ==
    /\ job = "restart" /\ resolved = "inactive" /\ Ordered
    /\ resolved' = "active" /\ job' = IF resume THEN "resume" ELSE "none"
    /\ UNCHANGED <<vars, resume, stopJob, installation>>

(* By itself, or because a start of the unit needs it.                     *)
StartResolved ==
    /\ job \in {"none", "resume"} /\ resolved = "inactive" /\ Ordered
    /\ resolved' = "active"
    /\ UNCHANGED <<vars, job, resume, stopJob, installation>>

ResumeUnit ==
    /\ job = "resume" /\ job' = "none"
    /\ IF unit = "inactive" /\ artifacts.unit # "none"
       THEN Begins
       ELSE UNCHANGED <<vars, stopJob, startedBy>>
    /\ UNCHANGED <<resolved, resume, step, artifacts, mixed, wasActive>>

-----------------------------------------------------------------------------
(* install.sh                                                              *)

(* Mutant: the service is stopped by the cleaning alone.                   *)
StopLater ==
    /\ step = "none" /\ job = "none"
    /\ Careful => unit \in {"inactive", "running"}
    /\ wasActive' = (unit = "running")
    /\ step' = "hook"
    /\ UNCHANGED <<vars, resolver, artifacts, startedBy, mixed>>

(* systemctl is-active holds of a unit that runs, not of one that starts   *)
(* or waits for its restart.                                               *)
BeginInstall ==
    /\ step = "none" /\ job = "none"
    /\ Careful => unit \in {"inactive", "running"}
    /\ wasActive' = (unit = "running")
    /\ IF unit = "running" THEN SystemctlStop /\ step' = "stopping"
       ELSE step' = "hook" /\ UNCHANGED <<vars, resolver>>
    /\ UNCHANGED <<artifacts, startedBy, mixed>>

InstallerStops ==
    /\ step = "stopping" /\ unit = "inactive" /\ step' = "hook"
    /\ UNCHANGED <<vars, resolver, artifacts, startedBy, mixed, wasActive>>

Install(artifact, next) ==
    /\ step = artifact /\ step' = next
    /\ artifacts' = [artifacts EXCEPT ![artifact] = "new"]
    /\ UNCHANGED <<vars, resolver, startedBy, mixed, wasActive>>

(* hook.py stop, by the new hook                                           *)
BeginCleaning ==
    /\ step = "clean" /\ step' = "cleaning"
    /\ HookStop
    /\ UNCHANGED <<resolver, artifacts, startedBy, mixed, wasActive>>

CleaningEnds ==
    /\ step = "cleaning" /\ pc = "idle"
    /\ step' = IF failed = {} THEN "unit" ELSE "none"
    /\ wasActive' = (wasActive /\ step' = "unit")
    /\ UNCHANGED <<vars, resolver, artifacts, startedBy, mixed>>

InstallArtifacts ==
    \/ Install("hook", "package")
    \/ Install("package", "clean")
    \/ Install("unit", "binaries")
    \/ Install("binaries", "start")

(* Any command of the script fails; nothing is put back, and its variable  *)
(* is gone.                                                                *)
InstallFails ==
    /\ step \in {"stopping", "clean", "start"} \cup Artifacts
    /\ step' = "none" /\ wasActive' = FALSE
    /\ UNCHANGED <<vars, resolver, artifacts, startedBy, mixed>>

FinishInstall ==
    /\ step = "start" /\ step' = "none" /\ wasActive' = FALSE
    /\ IF wasActive /\ unit = "inactive"
       THEN Begins /\ mixed' = FALSE ELSE UNCHANGED <<vars, stopJob, startedBy, mixed>>
    /\ UNCHANGED <<resolved, job, resume, artifacts>>

-----------------------------------------------------------------------------
(* uninstall.sh                                                            *)

BeginUninstall ==
    /\ step = "none" /\ artifacts # Nothing
    /\ SystemctlStop /\ step' = "clear"
    /\ UNCHANGED <<artifacts, startedBy, mixed, wasActive>>

(* Mutant: only what ExecStopPost clears.                                  *)
NoClearing ==
    /\ step = "clear" /\ unit = "inactive" /\ step' = "clearing"
    /\ UNCHANGED <<vars, resolver, artifacts, startedBy, mixed, wasActive>>

BeginClearing ==
    /\ step = "clear" /\ unit = "inactive" /\ step' = "clearing"
    /\ IF artifacts.hook # "none" THEN HookStop ELSE UNCHANGED vars
    /\ UNCHANGED <<resolver, artifacts, startedBy, mixed, wasActive>>

(* Failures of the hook are warnings.                                      *)
RemoveFiles ==
    /\ step = "clearing" /\ pc = "idle"
    /\ step' = "none" /\ artifacts' = Nothing
    /\ UNCHANGED <<vars, resolver, startedBy, mixed, wasActive>>

-----------------------------------------------------------------------------
PowerLoss ==
    /\ Reboot
    /\ resolved' = "inactive" /\ job' = "none" /\ resume' = FALSE /\ stopJob' = FALSE
    /\ step' = "none" /\ wasActive' = FALSE
    /\ UNCHANGED <<artifacts, startedBy, mixed>>

ResolverJob == JobStopsResolved \/ JobStartsResolved \/ StartResolved
Installer ==
    \/ InstallerStops \/ InstallArtifacts \/ BeginCleaning \/ CleaningEnds \/ FinishInstall
    \/ BeginClearing \/ RemoveFiles

(* resolved takes upstream servers from a resolv.conf that is not its own, *)
(* whenever it changes, and keeps them in memory only.                     *)
Remember ==
    /\ knows' = /\ resolved' = "active"
                /\ machine'.conf = "theirs" \/ (resolved = "active" /\ knows)
    /\ torn' = /\ machine'.conf = "stub"
               /\ torn \/ (unit' \in {"inactive", "waiting"} /\ pc' = "idle")

NextLifecycle ==
    /\ \/ StartUnit \/ AutoRestart \/ StopUnit \/ HookSteps \/ UnitChanges \/ OperatorRetries
       \/ StopResolved \/ RestartResolved \/ ResolvedDies \/ ResolverJob \/ ResumeUnit
       \/ BeginInstall \/ InstallFails \/ Installer \/ BeginUninstall \/ PowerLoss
    /\ Remember

(* systemd carries out its jobs, a script that runs goes on, and operators *)
(* stop again what an incomplete stop has left.                            *)
LifecycleFairness ==
    /\ WF_allVars(HookSteps /\ Remember)
    /\ WF_allVars(ResolverJob /\ Remember)
    /\ WF_allVars(Installer /\ Remember)
    /\ SF_allVars(machine # Untouched /\ OperatorRetries /\ Remember)

SpecLifecycle == InitLifecycle /\ [][NextLifecycle]_allVars /\ LifecycleFairness

-----------------------------------------------------------------------------
(* Repeated stops give everything back, unless the unit is started again   *)
(* or its hook is removed (main, "stop").                                  *)
RetryReturnsAll ==
    (unit = "inactive" /\ pc = "idle")
        ~> (machine = Untouched \/ unit = "starting" \/ artifacts.hook = "none")

(* install.sh: "If resolved restarts first, it cannot recover upstream DNS *)
(* settings that existed only in the original file": mitmwall never serves *)
(* while resolved is down or has lost them, unless a failed stop or a      *)
(* crash has left the stub in resolv.conf.                                 *)
UpstreamKept == unit = "running" /\ ~torn => resolved = "active" /\ knows

(* A restart of resolved, which waits for the unit, comes to its end: the  *)
(* hook needs neither resolved nor systemd to stop.                        *)
RestartCompletes == job = "restart" ~> job # "restart"

(* install.sh: "An active service must be stopped while its currently      *)
(* installed unit and hook are still intact": a start is undone by the     *)
(* hook that made it, after failed and interrupted upgrades too, and what  *)
(* runs is of one release unless somebody started it as a mixture.         *)
RunsOneRelease ==
    unit \in {"starting", "running", "stopping"} =>
        artifacts.hook = startedBy /\ (OneRelease \/ mixed)

(* After uninstall.sh nothing is left on the machine unless at least two   *)
(* things went wrong: it stops twice, and removes the hook last.           *)
RemovalSurvivesOneFault ==
    artifacts = Nothing /\ machine # Untouched => faults >= 2

(* install.sh: "A failed install therefore cannot run the service with a   *)
(* mixture of old and new artifacts", unless somebody starts it so.        *)
NoMixture == unit = "running" /\ step = "none" => OneRelease \/ mixed
=============================================================================
