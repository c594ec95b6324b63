-------------------------------- MODULE Packages --------------------------------
(***************************************************************************)
(* Installing, updating and removing Agent Packages.  A package is staged  *)
(* beside its directory, validated and moved into place; the directory it  *)
(* replaces is kept as a backup until then.  The sources are listed in     *)
(* settings.json, which calls of one process change one at a time.         *)
(*                                                                         *)
(* A directory is "none", "partial" while RemoveAll is at work, "old", or  *)
(* the call that put it there.                                             *)
(***************************************************************************)
EXTENDS Naturals, FiniteSets

CONSTANTS
  Workers,        \* package operations of runs
  Processes,      \* agent workers that execute them
  PackageSources, \* npm and git sources
  Local           \* sources that are directories of their own

ASSUME PackagesAssumption ==
  /\ Local \subseteq PackageSources /\ IsFiniteSet(Workers)
  /\ Workers \cap {"none", "partial", "old"} = {}

VARIABLES
  call,     \* by worker: operation, source and process
  before,   \* sources installed and listed at the start
  target,   \* by source, packageRoot
  backup,   \* by source, ".previous"
  settings, \* sources that settings.json lists
  mutex,    \* by process, who holds packageSettingsMu, or "none"
  read,     \* by worker, the settings it has read
  at,       \* by worker, the next step, or how the call ended
  broken    \* workers whose last rename failed

packageVars == <<call, before, target, backup, settings, mutex, read, at, broken>>

Operations == {"package_install", "package_update", "package_remove"}
Ended      == {"done", "failed", "crashed"}

PackagesInit ==
  /\ call \in [Workers -> [operation : Operations, source : PackageSources, process : Processes]]
  /\ before \in SUBSET PackageSources
  /\ target = [s \in PackageSources |-> IF s \in before THEN "old" ELSE "none"]
  /\ backup = [s \in PackageSources |-> "none"]
  /\ settings = before
  /\ mutex = [p \in Processes |-> "none"]
  /\ read = [w \in Workers |-> {}]
  /\ at = [w \in Workers |-> "start"]
  /\ broken = {}

src(w)       == call[w].source
GoTo(w, pc)  == at' = [at EXCEPT ![w] = pc]
InPlace(w)   == GoTo(w, IF call[w].operation = "package_update" THEN "done" ELSE "listing")
Directories        == <<target, backup>>
Listing      == <<settings, mutex, read>>

\* RemoveAll takes a while, and is done once nothing is left.
Removed(dir)  == IF dir \in {"none", "partial"} THEN "none" ELSE "partial"

\* Download and validation happen in a temporary directory and change nothing
\* else when they fail.
Stage(w) ==
  /\ at[w] = "start"
  /\ call[w].operation # "package_remove"
  /\ \/ GoTo(w, "failed")
     \/ IF src(w) \in Local THEN target[src(w)] # "none" /\ InPlace(w) ELSE GoTo(w, "staged")
  /\ UNCHANGED <<call, before, Directories, Listing, broken>>

\* An error of this RemoveAll is ignored.
ClearBackup(w) ==
  /\ at[w] = "staged"
  /\ \/ /\ backup' = [backup EXCEPT ![src(w)] = Removed(@)]
        /\ IF backup'[src(w)] = "none" THEN GoTo(w, "cleared") ELSE UNCHANGED at
     \/ backup[src(w)] # "none" /\ GoTo(w, "cleared") /\ UNCHANGED backup
  /\ UNCHANGED <<call, before, target, Listing, broken>>

StatTarget(w) ==
  /\ at[w] = "cleared"
  /\ GoTo(w, IF target[src(w)] = "none" THEN "placing" ELSE "moving")
  /\ UNCHANGED <<call, before, Directories, Listing, broken>>

\* A directory cannot be renamed to one that is not empty.
MoveAside(w) ==
  /\ at[w] = "moving"
  /\ \/ /\ target[src(w)] # "none" /\ backup[src(w)] = "none"
        /\ backup' = [backup EXCEPT ![src(w)] = target[src(w)]]
        /\ target' = [target EXCEPT ![src(w)] = "none"]
        /\ GoTo(w, "placing")
     \/ GoTo(w, "failed") /\ UNCHANGED Directories
  /\ UNCHANGED <<call, before, Listing, broken>>

Place(w) ==
  /\ at[w] = "placing"
  /\ target[src(w)] = "none"
  /\ target' = [target EXCEPT ![src(w)] = w]
  /\ GoTo(w, "placed")
  /\ UNCHANGED <<call, before, backup, Listing, broken>>

\* The rename failed: the backup goes back, if it can.
Restore(w) ==
  /\ at[w] = "placing"
  /\ IF target[src(w)] = "none"
     THEN /\ target' = [target EXCEPT ![src(w)] = backup[src(w)]]
          /\ backup' = [backup EXCEPT ![src(w)] = "none"]
     ELSE UNCHANGED Directories
  /\ broken' = broken \cup {w}
  /\ GoTo(w, "failed")
  /\ UNCHANGED <<call, before, Listing>>

\* An error of this RemoveAll is the error of the call, before it comes to the
\* settings.
DropBackup(w) ==
  /\ at[w] = "placed"
  /\ \/ /\ backup' = [backup EXCEPT ![src(w)] = Removed(@)]
        /\ IF backup'[src(w)] = "none" THEN InPlace(w) ELSE UNCHANGED at
     \/ backup[src(w)] # "none" /\ GoTo(w, "failed") /\ UNCHANGED backup
  /\ UNCHANGED <<call, before, target, Listing, broken>>

\* Only a managed directory is removed.
RemovePackage(w) ==
  /\ at[w] = "start"
  /\ call[w].operation = "package_remove"
  /\ IF src(w) \in Local THEN GoTo(w, "listing") /\ UNCHANGED target
     ELSE \/ /\ target' = [target EXCEPT ![src(w)] = Removed(@)]
             /\ IF target'[src(w)] = "none" THEN GoTo(w, "listing") ELSE UNCHANGED at
          \/ target[src(w)] # "none" /\ GoTo(w, "failed") /\ UNCHANGED target
  /\ UNCHANGED <<call, before, backup, Listing, broken>>

\* A slip, for the check of the properties: no mutex.
BadReadSettings(w) ==
  LET p == call[w].process
  IN  /\ at[w] = "listing"
      /\ mutex' = [mutex EXCEPT ![p] = w]
      /\ read' = [read EXCEPT ![w] = settings]
      /\ GoTo(w, "writing")
      /\ UNCHANGED <<call, before, Directories, settings, broken>>

\* mutatePackageSettings.
ReadSettings(w) ==
  LET p == call[w].process
  IN  /\ at[w] = "listing"
      /\ mutex[p] = "none"
      /\ mutex' = [mutex EXCEPT ![p] = w]
      /\ read' = [read EXCEPT ![w] = settings]
      /\ GoTo(w, "writing")
      /\ UNCHANGED <<call, before, Directories, settings, broken>>

WriteSettings(w) ==
  /\ at[w] = "writing"
  /\ mutex' = [mutex EXCEPT ![call[w].process] = "none"]
  /\ \/ /\ settings' = IF call[w].operation = "package_remove" THEN read[w] \ {src(w)}
                       ELSE read[w] \cup {src(w)}
        /\ GoTo(w, "done")
     \/ GoTo(w, "failed") /\ UNCHANGED settings
  /\ UNCHANGED <<call, before, Directories, read, broken>>

\* The process stops; nothing looks for a backup when it starts again.
StopWorker(p) ==
  /\ \E w \in Workers : call[w].process = p /\ at[w] \notin Ended
  /\ at' = [w \in Workers |-> IF call[w].process = p /\ at[w] \notin Ended
                              THEN "crashed" ELSE at[w]]
  /\ mutex' = [mutex EXCEPT ![p] = "none"]
  /\ UNCHANGED <<call, before, Directories, settings, read, broken>>

PackagesNext ==
  \/ \E w \in Workers :
       \/ Stage(w) \/ ClearBackup(w) \/ StatTarget(w) \/ MoveAside(w) \/ Place(w)
       \/ Restore(w) \/ DropBackup(w) \/ RemovePackage(w) \/ ReadSettings(w) \/ WriteSettings(w)
  \/ \E p \in Processes : StopWorker(p)

PackagesSpec == PackagesInit /\ [][PackagesNext]_packageVars

-----------------------------------------------------------------------------
(* Properties.                                                             *)

On(s)         == {w \in Workers : src(w) = s}
Unremoved(s)  == \A w \in On(s) : call[w].operation # "package_remove"
Succeeded(s)  == {w \in On(s) : at[w] = "done"}
OneProcess    == \A v, w \in Workers : call[v].process = call[w].process
AllEnded      == \A w \in Workers : at[w] \in Ended
Intact        == {"old"} \cup Workers

\* Once all calls have ended, a source that nobody asked to remove
\*   - has its whole package if it had one or a call reports one, unless a call
\*     crashed, however the calls overlapped, and even when the rename of the
\*     only call failed;
\*   - has it as a backup at least when the only call crashed;
\*   - is listed if it was or an installation succeeded, if all calls were of
\*     one process, whatever the calls for other sources did.
PackagesStand ==
  AllEnded =>
    \A s \in PackageSources : Unremoved(s) =>
      /\ /\ \A w \in On(s) : at[w] # "crashed"
         /\ s \in before \/ Succeeded(s) # {}
         /\ broken \cap On(s) = {} \/ Cardinality(On(s)) = 1
         => target[s] \in Intact
      /\ s \in before /\ Cardinality(On(s)) = 1 => {target[s], backup[s]} \cap Intact # {}
      /\ /\ OneProcess
         /\ s \in before \/ \E w \in Succeeded(s) : call[w].operation = "package_install"
         => s \in settings

\* An installed package that the only call for its source installs again or
\* updates is in its directory when the call has ended, the old one or the new
\* one ("atomic replacement", docs/PI-PARITY.md:29; "installs atomically",
\* docs/SECURITY.md:17).
ReplacementAtomic ==
  AllEnded =>
    \A s \in before :
      Unremoved(s) /\ Cardinality(On(s)) = 1 => target[s] \in Intact
=============================================================================
