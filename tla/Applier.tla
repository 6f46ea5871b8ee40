------------------------------- MODULE Applier -------------------------------
(***************************************************************************)
(* The Applier of internal/dataplane/apply.go: how one aggregate           *)
(* configuration reaches the disk and the HAProxy process.  It is used by  *)
(* the dataplane engine and by the local HAProxy provider.                 *)
(*                                                                         *)
(* applyRenderedConfig is split at every system call that can fail and at  *)
(* which the process can die, so each of its steps is an action.  HAProxy  *)
(* is a process of its own, in the sidecar container of                    *)
(* config/dataplane/deployment.yaml: it comes and goes on its own and      *)
(* loads the file when it starts or when the reload command succeeds.      *)
(***************************************************************************)
EXTENDS ServiceState

CONSTANTS
    Accepts(_),      \* the validate command's verdict on a file
    ValidateCommand, \* whether a validate command is configured
    ReloadCommand,   \* whether a reload command is configured
    PIDFile,         \* whether a pid file is configured
    NoFile,          \* no file at the path in question
    Down             \* HAProxy is not running

ASSUME SettingsAssumption ==
    /\ ValidateCommand \in BOOLEAN
    /\ ReloadCommand \in BOOLEAN
    /\ PIDFile \in BOOLEAN
ASSUME AbsentAssumption == NoFile \notin Rendered /\ Down \notin Rendered
ASSUME AcceptsAssumption == \A text \in Rendered : Accepts(text) \in BOOLEAN

VARIABLES
    file,      \* the active configuration file
    candidate, \* the temporary file of the apply in progress
    litter,    \* a temporary file was left behind by a process that died
    pidFile,   \* the pid file exists
    running,   \* the configuration HAProxy has loaded
    step,      \* where applyRenderedConfig stands
    target,    \* its renderedConfig argument
    reload     \* its reload argument

applierVars == <<file, candidate, litter, pidFile, running, step, target, reload>>

Working == {"compare", "write", "validate", "rename", "sync", "reload"}
Returned == {"unchanged", "applied", "failed"}
Steps == {"ready"} \cup Working \cup Returned

ApplierTypeOK ==
    /\ file \in Rendered \cup {NoFile}
    /\ candidate \in Rendered \cup {NoFile}
    /\ litter \in BOOLEAN
    /\ pidFile \in BOOLEAN
    /\ running \in Rendered \cup {Down}
    /\ step \in Steps
    /\ target \in Rendered
    /\ reload \in BOOLEAN

\* Render(nil).
BootstrapText == Render(EmptyConfig)

ApplierInit ==
    /\ file = NoFile
    /\ candidate = NoFile
    /\ litter = FALSE
    /\ pidFile = FALSE
    /\ running = Down
    /\ step = "ready"
    /\ target = BootstrapText
    /\ reload = FALSE

-----------------------------------------------------------------------------
\* shouldReloadOnBootstrap.
ShouldReloadOnBootstrap == ReloadCommand /\ PIDFile /\ pidFile

\* Apply and Bootstrap render and call applyRenderedConfig.
Call(config, withReload) ==
    /\ step = "ready"
    /\ step' = "compare"
    /\ target' = Render(config)
    /\ reload' = withReload
    /\ UNCHANGED <<file, candidate, litter, pidFile, running>>

\* The caller takes the result.
Return ==
    /\ step' = "ready"
    /\ target' = BootstrapText
    /\ reload' = FALSE
    /\ UNCHANGED <<file, candidate, litter, pidFile, running>>

Goto(next) ==
    /\ step' = next
    /\ UNCHANGED <<litter, pidFile, target, reload>>

\* An error return before the rename: the deferred cleanup has removed the
\* candidate file.
Abort ==
    /\ Goto("failed")
    /\ candidate' = NoFile
    /\ UNCHANGED <<file, running>>

\* A file that does not exist matches nothing.
RenderedConfigMatchesCurrentFile == file = target

\* The comparison with the active file, which may be unreadable.
Compare ==
    /\ step = "compare"
    /\ \/ /\ Goto(IF RenderedConfigMatchesCurrentFile THEN "unchanged" ELSE "write")
          /\ UNCHANGED <<file, candidate, running>>
       \/ Abort

WriteCandidateFile ==
    /\ step = "write"
    /\ \/ /\ Goto("validate")
          /\ candidate' = target
          /\ UNCHANGED <<file, running>>
       \/ Abort

\* Mutant: the validate command is given the active file.
Validate_ActiveFile ==
    /\ step = "validate"
    /\ \/ /\ (ValidateCommand /\ file # NoFile) => Accepts(file)
          /\ Goto("rename")
          /\ UNCHANGED <<file, candidate, running>>
       \/ ValidateCommand /\ Abort

\* runCommand(ValidateCommand): nothing to run, accepted, or an error (a
\* rejected configuration, a command that cannot run, a cancelled request).
Validate ==
    /\ step = "validate"
    /\ \/ /\ ValidateCommand => Accepts(candidate)
          /\ Goto("rename")
          /\ UNCHANGED <<file, candidate, running>>
       \/ ValidateCommand /\ Abort

Rename ==
    /\ step = "rename"
    /\ \/ /\ Goto("sync")
          /\ file' = candidate
          /\ candidate' = NoFile
          /\ UNCHANGED running
       \/ Abort

\* From here on an error leaves the new file in place.
SyncDir ==
    /\ step = "sync"
    /\ \/ Goto("reload")
       \/ Goto("failed")
    /\ UNCHANGED <<file, candidate, running>>

\* Mutant: the reload command is given the candidate's path.
HAProxyReloads_Candidate(bindable) ==
    running' = IF running # Down /\ bindable THEN candidate ELSE running

\* What HAProxy does when asked to reload: a live process whose new
\* configuration can bind its addresses switches to it.
HAProxyReloads(bindable) ==
    running' = IF running # Down /\ bindable THEN file ELSE running

\* runCommand(ReloadCommand), when there is one and a reload is wanted.  It
\* may report an error before or after HAProxy was told.
Reload(bindable) ==
    /\ step = "reload"
    /\ \/ /\ ~(reload /\ ReloadCommand)
          /\ Goto("applied")
          /\ UNCHANGED <<file, candidate, running>>
       \/ /\ reload /\ ReloadCommand
          /\ Goto("applied")
          /\ HAProxyReloads(bindable)
          /\ UNCHANGED <<file, candidate>>
       \/ /\ reload /\ ReloadCommand
          /\ Goto("failed")
          /\ HAProxyReloads(bindable) \/ UNCHANGED running
          /\ UNCHANGED <<file, candidate>>

ApplierNext(bindable) ==
    Compare \/ WriteCandidateFile \/ Validate \/ Rename \/ SyncDir \/ Reload(bindable)

-----------------------------------------------------------------------------
\* The process that runs the applier dies at any point: the files stay.
ApplierDies ==
    /\ step' = "ready"
    /\ target' = BootstrapText
    /\ reload' = FALSE
    /\ litter' = (litter \/ candidate # NoFile)
    /\ candidate' = NoFile
    /\ UNCHANGED <<file, pidFile, running>>

\* The HAProxy container waits for a configuration file, then starts and
\* writes its pid file; it stays down while it cannot bind its addresses.
HAProxyStarts(bindable) ==
    /\ running = Down
    /\ file # NoFile
    /\ bindable
    /\ running' = file
    /\ pidFile' = TRUE
    /\ UNCHANGED <<file, candidate, litter, step, target, reload>>

HAProxyExits ==
    /\ running # Down
    /\ running' = Down
    /\ UNCHANGED <<file, candidate, litter, pidFile, step, target, reload>>
=============================================================================
