----------------------------- MODULE EngineProofs ------------------------------
(***************************************************************************)
(* Theorems about the engine's smaller modules, for every number of        *)
(* packages, workers, tasks, profiles, provider calls, todos and settings: *)
(* a package replaced on disk, the agents of a tool call and who may run,  *)
(* the reader of a provider's stream, the todo list and the settings that  *)
(* a session restores.                                                     *)
(***************************************************************************)
EXTENDS Packages, Delegation, AgentPackages, ProviderStream, Todos, Settings, Numbers,
        FiniteSetTheorems, SequenceTheorems, TLAPS

-----------------------------------------------------------------------------
(* Packages.                                                               *)

Contents == {"none", "partial", "old"} \cup Workers
Steps    == {"start", "staged", "cleared", "moving", "placing", "placed", "listing", "writing"}
              \cup Ended
Arrived  == {"placed", "listing", "writing", "done"}

PackTypes ==
  /\ call \in [Workers -> [operation : Operations, source : PackageSources,
                           process : Processes]]
  /\ before \in SUBSET PackageSources
  /\ target \in [PackageSources -> Contents] /\ backup \in [PackageSources -> Contents]
  /\ settings \in SUBSET PackageSources
  /\ mutex \in [Processes -> Workers \cup {"none"}]
  /\ read \in [Workers -> SUBSET PackageSources]
  /\ at \in [Workers -> Steps] /\ broken \in SUBSET Workers

\* While no rename has failed, a package that was there is there, or is about to
\* be put there.
Standing(s) ==
  broken \cap On(s) = {} =>
    /\ target[s] # "partial"
    /\ target[s] = "none" /\ (s \in before \/ \E w \in On(s) : at[w] \in Arrived) =>
         \E w \in On(s) : at[w] \in {"placing", "crashed"}

\* The only call for a source finds what the one before left, and keeps it as
\* the backup while it replaces it.
Alone(s, w) ==
  LET was == IF s \in before THEN "old" ELSE "none" IN
  /\ at[w] \in {"start", "staged", "cleared", "moving"} =>
       target[s] = was /\ backup[s] = "none"
  /\ at[w] = "moving" => s \in before
  /\ at[w] = "placing" => target[s] = "none" /\ backup[s] = was
  /\ at[w] \in Arrived => target[s] \in Intact
  /\ at[w] = "failed" /\ s \in before => target[s] \in Intact
  /\ at[w] = "crashed" /\ s \in before => {target[s], backup[s]} \cap Intact # {}

\* One process changes the settings from what they are.
Exclusive ==
  \A w \in Workers : at[w] = "writing" => mutex[call[w].process] = w /\ read[w] = settings
Listed(s) ==
  s \in before \/ (\E w \in On(s) : at[w] = "done" /\ call[w].operation = "package_install")
    => s \in settings

PackInv ==
  /\ PackTypes
  /\ \A s \in PackageSources : Unremoved(s) =>
       /\ Standing(s)
       /\ \A w \in On(s) : On(s) = {w} => Alone(s, w)
  /\ OneProcess => Exclusive /\ \A s \in PackageSources : Unremoved(s) => Listed(s)

LEMMA PackStarts == PackagesInit => PackInv
<1> SUFFICES ASSUME PackagesInit PROVE PackInv
  OBVIOUS
<1>1. PackTypes
  BY DEF PackagesInit, PackTypes, Contents, Steps
<1>2. ASSUME NEW s \in PackageSources
      PROVE  Standing(s) /\ Listed(s) /\ \A w \in On(s) : Alone(s, w)
  BY DEF PackagesInit, Standing, Listed, Alone, On, src, Arrived
<1>3. Exclusive
  BY DEF PackagesInit, Exclusive
<1> QED
  BY <1>1, <1>2, <1>3 DEF PackInv

\* A call moves only its own source, and the others stand as they did.
LEMMA OtherSources ==
  ASSUME PackInv, NEW w \in Workers, UNCHANGED <<call, before>>,
         NEW own \in PackageSources, own = src(w),
         \A v \in Workers \ {w} : at'[v] = at[v],
         \A s \in PackageSources \ {own} : target'[s] = target[s] /\ backup'[s] = backup[s],
         broken' \ {w} = broken \ {w},
         Unremoved(own) => Standing(own)' /\ (On(own) = {w} => Alone(own, w)')
  PROVE  \A s \in PackageSources : Unremoved(s)' =>
           /\ Standing(s)'
           /\ \A v \in On(s)' : On(s)' = {v} => Alone(s, v)'
<1> SUFFICES ASSUME NEW s \in PackageSources, Unremoved(s)'
             PROVE  Standing(s)' /\ \A v \in On(s)' : On(s)' = {v} => Alone(s, v)'
  OBVIOUS
<1>1. On(s)' = On(s) /\ Unremoved(s) /\ On(s) \subseteq Workers
  BY DEF On, src, Unremoved
<1>2. CASE s = own
  <2>1. w \in On(s)
    BY <1>2 DEF On
  <2>2. ASSUME NEW v \in On(s), On(s) = {v} PROVE Alone(s, v)'
    <3>1. v = w /\ On(own) = {w}
      BY <1>2, <2>1, <2>2
    <3> QED
      BY <1>1, <1>2, <3>1
  <2>3. Standing(s)'
    BY <1>1, <1>2
  <2> QED
    BY <1>1, <2>2, <2>3
<1>3. CASE s # own
  <2>1. w \notin On(s)
    BY <1>3 DEF On
  <2>2. \A v \in On(s) : at'[v] = at[v]
    BY <1>1, <2>1
  <2>3. target'[s] = target[s] /\ backup'[s] = backup[s]
    BY <1>3
  <2>4. broken' \cap On(s) = broken \cap On(s)
    BY <2>1
  <2>5. Standing(s) /\ \A v \in On(s) : On(s) = {v} => Alone(s, v)
    BY <1>1 DEF PackInv
  <2>6. Standing(s)'
    BY <1>1, <2>2, <2>3, <2>4, <2>5 DEF Standing
  <2>7. \A v \in On(s) : On(s) = {v} => Alone(s, v)'
    BY <2>2, <2>3, <2>5 DEF Alone
  <2> QED
    BY <1>1, <2>6, <2>7
<1> QED
  BY <1>2, <1>3

\* The directories, and the end of a call that does not come to the settings.
LEMMA DirectoryStep ==
  ASSUME PackInv, NEW w \in Workers,
         \/ Stage(w) \/ ClearBackup(w) \/ StatTarget(w) \/ MoveAside(w) \/ Place(w)
         \/ Restore(w) \/ DropBackup(w) \/ RemovePackage(w)
  PROVE  PackInv'
<1>0. PICK s \in PackageSources : s = src(w)
  BY DEF PackInv, PackTypes, src
<1>1. /\ UNCHANGED <<call, before, settings, mutex, read>>
      /\ at[w] \in {"start", "staged", "cleared", "moving", "placing", "placed"}
      /\ \E pc \in Steps \ {"writing"} :
           /\ at' = [at EXCEPT ![w] = pc]
           /\ pc = "done" => call[w].operation # "package_install"
  <2>1. /\ PackTypes /\ at \in [Workers -> Steps] /\ call[w].operation \in Operations
        /\ at = [at EXCEPT ![w] = at[w]]
    BY DEF PackInv, PackTypes
  <2>2. {"failed", "staged", "cleared", "moving", "placing", "placed", "done", "listing", "start"}
           \subseteq Steps \ {"writing"}
    BY DEF Steps, Ended
  <2>3. CASE Stage(w) \/ StatTarget(w) \/ MoveAside(w) \/ Place(w) \/ Restore(w)
    BY <2>1, <2>2, <2>3
       DEF Stage, StatTarget, MoveAside, Place, Restore, GoTo, InPlace, Listing, Operations
  <2>4. CASE ClearBackup(w) \/ DropBackup(w) \/ RemovePackage(w)
    BY <2>1, <2>2, <2>4
       DEF ClearBackup, DropBackup, RemovePackage, GoTo, InPlace, Listing, Operations
  <2> QED
    BY <2>3, <2>4
<1>2. /\ s = src(w) /\ call[w] \in [operation : Operations, source : PackageSources,
                                     process : Processes]
      /\ w \in On(s) /\ On(s) \subseteq Workers /\ On(s)' = On(s) /\ Unremoved(s)' = Unremoved(s)
      /\ target \in [PackageSources -> Contents] /\ backup \in [PackageSources -> Contents]
      /\ at \in [Workers -> Steps] /\ w \notin {"none", "partial", "old"}
      /\ broken \in SUBSET Workers
  BY <1>0, <1>1, PackagesAssumption DEF PackInv, PackTypes, src, On, Unremoved
<1>3. /\ \A v \in Workers \ {w} : at'[v] = at[v]
      /\ at' \in [Workers -> Steps] /\ at'[w] # "writing"
      /\ at'[w] = "done" => call[w].operation # "package_install"
  BY <1>1, <1>2
<1>4. /\ target' \in [PackageSources -> Contents] /\ backup' \in [PackageSources -> Contents]
      /\ \A r \in PackageSources \ {s} : target'[r] = target[r] /\ backup'[r] = backup[r]
  BY <1>2 DEF Stage, ClearBackup, StatTarget, MoveAside, Place, Restore, DropBackup,
              RemovePackage, Directories, Contents, Removed
<1>5. broken' \in SUBSET Workers /\ broken' \ {w} = broken \ {w} /\ broken \subseteq broken'
  BY <1>2 DEF Stage, ClearBackup, StatTarget, MoveAside, Place, Restore, DropBackup, RemovePackage
<1>6. PackTypes'
  BY <1>1, <1>3, <1>4, <1>5 DEF PackInv, PackTypes
<1>7. OneProcess' => Exclusive' /\ \A r \in PackageSources : Unremoved(r)' => Listed(r)'
  <2> SUFFICES ASSUME OneProcess'
               PROVE  Exclusive' /\ \A r \in PackageSources : Unremoved(r)' => Listed(r)'
    OBVIOUS
  <2>1. Exclusive /\ \A r \in PackageSources : Unremoved(r) => Listed(r)
    BY <1>1 DEF PackInv, OneProcess
  <2>2. \A r \in PackageSources :
          On(r)' = On(r) /\ On(r) \subseteq Workers /\ (Unremoved(r)' => Unremoved(r))
    BY <1>1 DEF On, src, Unremoved
  <2>3. Exclusive'
    BY <1>1, <1>3, <2>1 DEF Exclusive
  <2>4. ASSUME NEW r \in PackageSources, Unremoved(r)' PROVE Listed(r)'
    BY <1>1, <1>3, <2>1, <2>2, <2>4 DEF Listed
  <2> QED
    BY <2>3, <2>4
<1>8. ASSUME Unremoved(s) PROVE Standing(s)'
  <2>1. call[w].operation # "package_remove" /\ Standing(s)
    BY <1>2, <1>8 DEF Unremoved, PackInv
  <2>2. SUFFICES ASSUME broken' \cap On(s) = {}
                 PROVE  /\ target'[s] # "partial"
                        /\ target'[s] = "none"
                           /\ (s \in before \/ \E v \in On(s) : at'[v] \in Arrived) =>
                             \E v \in On(s) : at'[v] \in {"placing", "crashed"}
    BY <1>1, <1>2 DEF Standing
  <2>3. broken \cap On(s) = {} /\ w \notin broken'
    BY <1>2, <1>5, <2>2
  <2>4. /\ target[s] # "partial"
        /\ target[s] = "none" /\ (s \in before \/ \E v \in On(s) : at[v] \in Arrived) =>
             \E v \in On(s) : at[v] \in {"placing", "crashed"}
    BY <2>1, <2>3 DEF Standing
  <2>5. CASE MoveAside(w)
    <3>1. CASE at'[w] = "placing" /\ target'[s] = "none"
      BY <1>2, <3>1
    <3>2. CASE target' = target /\ at'[w] = "failed"
      <4>1. target' = target /\ at'[w] = "failed" /\ at[w] = "moving"
        BY <2>5, <3>2 DEF MoveAside
      <4>2. \A v \in On(s) : at'[v] \in Arrived => at[v] \in Arrived
        BY <1>2, <1>3, <4>1 DEF Arrived
      <4>3. \A v \in On(s) : at[v] \in {"placing", "crashed"} => at'[v] \in {"placing", "crashed"}
        BY <1>2, <1>3, <4>1
      <4> QED
        BY <2>4, <4>1, <4>2, <4>3
    <3>3. \/ at'[w] = "placing" /\ target'[s] = "none"
          \/ target' = target /\ at'[w] = "failed"
      BY <1>2, <2>5 DEF MoveAside, GoTo, Directories
    <3> QED
      BY <3>1, <3>2, <3>3
  <2>9. CASE Place(w)
    BY <1>2, <2>9 DEF Place
  <2>6. CASE Stage(w) \/ ClearBackup(w) \/ StatTarget(w) \/ DropBackup(w)
    <3>1. target' = target /\ at[w] # "placing" /\ at[w] # "crashed"
      BY <2>6 DEF Stage, ClearBackup, StatTarget, DropBackup, Directories
    <3>2. at'[w] \in Arrived => at[w] \in Arrived \/ target[s] # "none"
      BY <1>2, <2>6 DEF Stage, ClearBackup, StatTarget, DropBackup, GoTo, InPlace, Arrived
    <3> QED
      BY <1>2, <1>3, <2>4, <3>1, <3>2
  <2>7. CASE RemovePackage(w)
    BY <2>1, <2>7 DEF RemovePackage
  <2>8. CASE Restore(w)
    BY <2>3, <2>8 DEF Restore
  <2> QED
    BY <2>5, <2>6, <2>7, <2>8, <2>9
<1>9. ASSUME Unremoved(s), On(s) = {w} PROVE Alone(s, w)'
  <2>1. call[w].operation # "package_remove" /\ Alone(s, w)
    BY <1>2, <1>9 DEF Unremoved, PackInv
  <2>2. before' = before
    BY <1>1
  <2>3. CASE Stage(w) \/ StatTarget(w)
    BY <1>2, <2>1, <2>2, <2>3
       DEF Stage, StatTarget, Alone, GoTo, InPlace, Directories, Intact, Arrived
  <2>4. CASE ClearBackup(w) \/ DropBackup(w)
    BY <1>2, <2>1, <2>2, <2>4
       DEF ClearBackup, DropBackup, Alone, GoTo, InPlace, Removed, Intact, Arrived
  <2>5. CASE MoveAside(w)
    <3>1. at[w] = "moving" /\ target[s] = "old" /\ backup[s] = "none" /\ s \in before
      BY <1>2, <2>1, <2>5 DEF MoveAside, Alone
    <3>2. \/ at'[w] = "placing" /\ target'[s] = "none" /\ backup'[s] = "old"
          \/ at'[w] = "failed" /\ target'[s] = "old"
      BY <1>2, <2>5, <3>1 DEF MoveAside, GoTo, Directories
    <3> QED
      BY <2>2, <3>1, <3>2 DEF Alone, Intact, Arrived
  <2>6. CASE Place(w)
    BY <1>2, <2>1, <2>2, <2>6 DEF Place, Alone, GoTo, Intact, Arrived
  <2>7. CASE Restore(w)
    BY <1>2, <2>1, <2>2, <2>7 DEF Restore, Alone, GoTo, Directories, Intact, Arrived
  <2>8. CASE RemovePackage(w)
    BY <2>1, <2>8 DEF RemovePackage
  <2> QED
    BY <2>3, <2>4, <2>5, <2>6, <2>7, <2>8
<1>10. \A r \in PackageSources : Unremoved(r)' =>
         /\ Standing(r)'
         /\ \A v \in On(r)' : On(r)' = {v} => Alone(r, v)'
  <2>1. Unremoved(s) => Standing(s)' /\ (On(s) = {w} => Alone(s, w)')
    BY <1>8, <1>9
  <2>2. UNCHANGED <<call, before>> /\ s = src(w)
    BY <1>1, <1>2
  <2> QED
    BY <1>3, <1>4, <1>5, <2>1, <2>2, OtherSources
<1> QED
  BY <1>6, <1>7, <1>10 DEF PackInv

\* The settings, one call of the process at a time.
LEMMA SettingsStep ==
  ASSUME PackInv, NEW w \in Workers, ReadSettings(w) \/ WriteSettings(w)
  PROVE  PackInv'
<1>0. PICK s \in PackageSources : s = src(w)
  BY DEF PackInv, PackTypes, src
<1>1. /\ s = src(w) /\ UNCHANGED <<call, before, target, backup, broken>>
      /\ call[w] \in [operation : Operations, source : PackageSources, process : Processes]
      /\ w \in On(s) /\ On(s) \subseteq Workers /\ On(s)' = On(s) /\ Unremoved(s)' = Unremoved(s)
      /\ at \in [Workers -> Steps] /\ read \in [Workers -> SUBSET PackageSources]
      /\ mutex \in [Processes -> Workers \cup {"none"}] /\ settings \in SUBSET PackageSources
      /\ at[w] \in {"listing", "writing"}
  BY <1>0 DEF PackInv, PackTypes, src, On, Unremoved, ReadSettings, WriteSettings, Directories
<1>2. /\ \A v \in Workers \ {w} : at'[v] = at[v]
      /\ at' \in [Workers -> Steps] /\ at'[w] \in {"writing", "done", "failed"}
  BY <1>1 DEF ReadSettings, WriteSettings, GoTo, Steps, Ended
<1>3. PackTypes'
  <2>1. CASE ReadSettings(w)
    BY <1>1, <1>2, <2>1 DEF PackInv, PackTypes, ReadSettings
  <2>2. CASE WriteSettings(w)
    BY <1>1, <1>2, <2>2 DEF PackInv, PackTypes, WriteSettings
  <2> QED
    BY <2>1, <2>2
<1>4. ASSUME Unremoved(s) PROVE Standing(s)'
  <2>1. Standing(s)
    BY <1>4 DEF PackInv
  <2>2. \A v \in On(s) : at'[v] \in Arrived => \E u \in On(s) : at[u] \in Arrived
    BY <1>1, <1>2 DEF Arrived
  <2>3. \A v \in On(s) : at[v] \in {"placing", "crashed"} => at'[v] \in {"placing", "crashed"}
    BY <1>1, <1>2
  <2> QED
    BY <1>1, <2>1, <2>2, <2>3 DEF Standing
<1>5. ASSUME Unremoved(s), On(s) = {w} PROVE Alone(s, w)'
  <2>1. Alone(s, w) /\ at[w] \in Arrived
    BY <1>1, <1>5 DEF PackInv, Arrived
  <2> QED
    BY <1>1, <1>2, <2>1 DEF Alone, Arrived
<1>6. \A r \in PackageSources : Unremoved(r)' =>
        /\ Standing(r)'
        /\ \A v \in On(r)' : On(r)' = {v} => Alone(r, v)'
  <2>1. Unremoved(s) => Standing(s)' /\ (On(s) = {w} => Alone(s, w)')
    BY <1>4, <1>5
  <2>2. /\ UNCHANGED <<call, before>> /\ broken' \ {w} = broken \ {w}
        /\ \A r \in PackageSources \ {s} : target'[r] = target[r] /\ backup'[r] = backup[r]
    BY <1>1
  <2> QED
    BY <1>1, <1>2, <2>1, <2>2, OtherSources
<1>7. ASSUME OneProcess' PROVE Exclusive' /\ \A r \in PackageSources : Unremoved(r)' => Listed(r)'
  <2>1. OneProcess /\ Exclusive /\ \A r \in PackageSources : Unremoved(r) => Listed(r)
    BY <1>1, <1>7 DEF PackInv, OneProcess
  <2>2. /\ \A r \in PackageSources :
             /\ On(r)' = On(r) /\ On(r) \subseteq Workers /\ (Unremoved(r)' => Unremoved(r))
             /\ \A v \in On(r) : Unremoved(r) => call[v].operation # "package_remove"
        /\ \A r \in PackageSources : w \in On(r) <=> r = s
        /\ \A v \in Workers : call'[v] = call[v] /\ call[v].process = call[w].process
        /\ call[w].process \in Processes /\ w # "none"
    BY <1>1, <2>1, PackagesAssumption DEF On, src, Unremoved, OneProcess
  <2>3. CASE ReadSettings(w)
    <3>1. /\ mutex[call[w].process] = "none" /\ mutex'[call[w].process] = w
          /\ read'[w] = settings /\ settings' = settings /\ at'[w] = "writing"
      BY <1>1, <2>2, <2>3 DEF ReadSettings, GoTo
    <3>2. \A v \in Workers : at[v] # "writing"
      BY <2>1, <2>2, <3>1, PackagesAssumption DEF Exclusive
    <3>3. Exclusive'
      BY <1>2, <2>2, <3>1, <3>2 DEF Exclusive
    <3>4. ASSUME NEW r \in PackageSources, Unremoved(r)' PROVE Listed(r)'
      BY <1>1, <1>2, <2>1, <2>2, <3>1, <3>4 DEF Listed
    <3> QED
      BY <3>3, <3>4
  <2>4. CASE WriteSettings(w)
    <3>1. at[w] = "writing" /\ read[w] = settings /\ mutex[call[w].process] = w
      BY <2>1, <2>4 DEF WriteSettings, Exclusive
    <3>2. \A v \in Workers \ {w} : at[v] # "writing"
      BY <2>1, <2>2, <3>1 DEF Exclusive
    <3>3. Exclusive'
      <4>1. at'[w] # "writing"
        BY <1>1, <2>4 DEF WriteSettings, GoTo
      <4> QED
        BY <1>2, <3>2, <4>1 DEF Exclusive
    <3>4. ASSUME NEW r \in PackageSources, Unremoved(r)' PROVE Listed(r)'
      <4>1. Listed(r) /\ On(r)' = On(r)
        BY <2>1, <2>2, <3>4
      <4>2. CASE r = s
        <5>1. call[w].operation # "package_remove"
          BY <2>2, <3>4, <4>2
        <5>2. \/ settings' = settings \cup {s} /\ at'[w] = "done"
              \/ settings' = settings /\ at'[w] = "failed"
          BY <1>1, <2>4, <3>1, <5>1 DEF WriteSettings, GoTo
        <5> QED
          BY <1>1, <1>2, <2>2, <4>1, <4>2, <5>2 DEF Listed
      <4>3. CASE r # s
        <5>1. settings' \in {settings, settings \ {s}, settings \cup {s}}
          BY <1>1, <2>4, <3>1 DEF WriteSettings
        <5>2. \A v \in On(r) : at'[v] = at[v]
          BY <1>2, <2>2, <4>3
        <5> QED
          BY <1>1, <2>2, <4>1, <4>3, <5>1, <5>2 DEF Listed
      <4> QED
        BY <4>2, <4>3
    <3> QED
      BY <3>3, <3>4
  <2> QED
    BY <2>3, <2>4
<1> QED
  BY <1>3, <1>6, <1>7 DEF PackInv

LEMMA StopStep ==
  ASSUME PackInv, NEW p \in Processes, StopWorker(p)
  PROVE  PackInv'
<1>1. /\ UNCHANGED <<call, before, target, backup, settings, read, broken>>
      /\ at \in [Workers -> Steps] /\ mutex \in [Processes -> Workers \cup {"none"}]
      /\ mutex' = [mutex EXCEPT ![p] = "none"]
      /\ at' = [w \in Workers |-> IF call[w].process = p /\ at[w] \notin Ended
                                  THEN "crashed" ELSE at[w]]
  BY DEF StopWorker, Directories, PackInv, PackTypes
<1>2. \A w \in Workers : at'[w] \in {at[w], "crashed"}
  BY <1>1
<1>3. PackTypes'
  BY <1>1 DEF PackInv, PackTypes, Steps, Ended
<1>4. \A r \in PackageSources :
        On(r)' = On(r) /\ On(r) \subseteq Workers /\ Unremoved(r)' = Unremoved(r)
  BY <1>1 DEF On, src, Unremoved
<1>5. ASSUME NEW r \in PackageSources, Unremoved(r)'
      PROVE  Standing(r)' /\ \A v \in On(r)' : On(r)' = {v} => Alone(r, v)'
  <2>1. Standing(r) /\ \A v \in On(r) : On(r) = {v} => Alone(r, v)
    BY <1>4, <1>5 DEF PackInv
  <2>2. \A v \in On(r) : at'[v] \in Arrived => at[v] \in Arrived
    BY <1>2, <1>4 DEF Arrived
  <2>3. \A v \in On(r) : at[v] \in {"placing", "crashed"} => at'[v] \in {"placing", "crashed"}
    BY <1>2, <1>4
  <2>4. Standing(r)'
    BY <1>1, <1>4, <2>1, <2>2, <2>3 DEF Standing
  <2>5. ASSUME NEW v \in On(r), On(r) = {v} PROVE Alone(r, v)'
    <3>1. at'[v] \in {at[v], "crashed"} /\ Alone(r, v)
      BY <1>2, <1>4, <2>1, <2>5
    <3>2. at[v] \in Steps
      BY <1>1, <1>4, <2>5
    <3>3. CASE at'[v] = at[v]
      BY <1>1, <3>1, <3>3 DEF Alone
    <3>4. CASE at'[v] = "crashed" /\ at[v] \in {"done", "failed", "crashed"}
      BY <1>1, <1>4, <2>5, <3>4, <3>1 DEF Alone, Ended
    <3>5. CASE at'[v] = "crashed" /\ at[v] \notin {"done", "failed", "crashed"}
      BY <1>1, <3>1, <3>2, <3>5 DEF Alone, Arrived, Intact, Steps, Ended
    <3> QED
      BY <3>1, <3>3, <3>4, <3>5
  <2> QED
    BY <1>4, <2>4, <2>5
<1>6. ASSUME OneProcess' PROVE Exclusive' /\ \A r \in PackageSources : Unremoved(r)' => Listed(r)'
  <2>1. OneProcess /\ Exclusive /\ \A r \in PackageSources : Unremoved(r) => Listed(r)
    BY <1>1, <1>6 DEF PackInv, OneProcess
  <2>2. ASSUME NEW w \in Workers, at'[w] = "writing"
        PROVE  mutex'[call'[w].process] = w /\ read'[w] = settings'
    <3>1. at[w] = "writing" /\ call[w].process # p /\ call[w].process \in Processes
      BY <1>1, <2>2 DEF Ended, PackInv, PackTypes
    <3> QED
      BY <1>1, <2>1, <3>1 DEF Exclusive
  <2>3. ASSUME NEW r \in PackageSources, Unremoved(r)' PROVE Listed(r)'
    <3>1. Listed(r)
      BY <1>4, <2>1, <2>3
    <3>2. \A v \in On(r) : at'[v] = "done" => at[v] = "done"
      BY <1>2, <1>4
    <3> QED
      BY <1>1, <1>4, <3>1, <3>2 DEF Listed
  <2> QED
    BY <2>2, <2>3 DEF Exclusive
<1> QED
  BY <1>3, <1>5, <1>6 DEF PackInv

\* When the calls have ended, what they report is so: a package that was there,
\* or that a call reports, is there whole, although directories are replaced by
\* renames that fail, and updated and installed at the same time, and it is its
\* backup at least that is whole when the only call crashed; and it is listed,
\* for any number of calls of one process, sources and failures
\* (replaceDirectory, mutatePackageSettings).
THEOREM PackagesHold == PackagesSpec => []PackagesStand
<1>1. PackInv /\ [PackagesNext]_packageVars => PackInv'
  <2> SUFFICES ASSUME PackInv, [PackagesNext]_packageVars PROVE PackInv'
    OBVIOUS
  <2>1. CASE UNCHANGED packageVars
    BY <2>1 DEF packageVars, PackInv, PackTypes, Standing, Alone, Exclusive, Listed, OneProcess,
                On, src, Unremoved
  <2> QED
    BY <2>1, DirectoryStep, SettingsStep, StopStep DEF PackagesNext
<1>2. PackInv => PackagesStand
  <2> SUFFICES ASSUME PackInv, AllEnded, NEW s \in PackageSources, Unremoved(s)
               PROVE  /\ /\ \A w \in On(s) : at[w] # "crashed"
                         /\ s \in before \/ Succeeded(s) # {}
                         /\ broken \cap On(s) = {} \/ Cardinality(On(s)) = 1
                         => target[s] \in Intact
                      /\ s \in before /\ Cardinality(On(s)) = 1 =>
                           {target[s], backup[s]} \cap Intact # {}
                      /\ /\ OneProcess
                         /\ s \in before
                            \/ \E w \in Succeeded(s) : call[w].operation = "package_install"
                         => s \in settings
    BY DEF PackagesStand
  <2>1. /\ target[s] \in Contents /\ On(s) \subseteq Workers /\ Succeeded(s) \subseteq On(s)
        /\ \A w \in Succeeded(s) : at[w] = "done"
        /\ \A w \in On(s) : at[w] \in {"done", "failed", "crashed"}
    BY DEF PackInv, PackTypes, On, Succeeded, AllEnded, Ended
  <2>2. Standing(s) /\ \A w \in On(s) : On(s) = {w} => Alone(s, w)
    BY DEF PackInv
  <2>3. ASSUME \A w \in On(s) : at[w] # "crashed",
               s \in before \/ Succeeded(s) # {}, broken \cap On(s) = {}
        PROVE  target[s] \in Intact
    BY <2>1, <2>2, <2>3 DEF Standing, Contents, Intact, Arrived
  <2>4. ASSUME s \in before \/ Succeeded(s) # {}, Cardinality(On(s)) = 1
        PROVE  /\ (\A w \in On(s) : at[w] # "crashed") => target[s] \in Intact
               /\ s \in before => {target[s], backup[s]} \cap Intact # {}
    <3>1. PICK w : On(s) = {w}
      <4>1. IsFiniteSet(On(s))
        BY <2>1, FS_Subset, PackagesAssumption
      <4> QED
        BY <2>4, <4>1, FS_Singleton
    <3>2. w \in On(s) /\ Alone(s, w) /\ at[w] \in {"done", "failed", "crashed"}
      BY <2>1, <2>2, <3>1
    <3>3. s \in before \/ at[w] = "done"
      BY <2>1, <2>4, <3>1
    <3> QED
      BY <3>1, <3>2, <3>3 DEF Alone, Arrived
  <2>5. ASSUME OneProcess,
               s \in before \/ \E w \in Succeeded(s) : call[w].operation = "package_install"
        PROVE  s \in settings
    BY <2>1, <2>5 DEF PackInv, Listed
  <2> QED
    BY <2>3, <2>4, <2>5
<1> QED
  BY <1>1, <1>2, PackStarts, PTL DEF PackagesSpec

-----------------------------------------------------------------------------
(* Delegation: the agents of one call of the tool.                         *)

AgentsRunning == {a \in 0..tasks : agent[a] \in {"entered", "running"}}

AgentTypes ==
  /\ tasks \in Nat \ {0}
  /\ agent \in [0..tasks -> {"none", "called", "entered", "running", "left", "gone"}]
  /\ results \in [1..tasks -> {"none", "ok", "error"}]
  /\ given \in [1..tasks -> Nat]
  /\ activeAgents \in Nat /\ stateChanged \in BOOLEAN

\* The counter counts.
AgentsCounted == activeAgents = Cardinality(AgentsRunning)

\* A task has a result once its agent is gone, and the tool ends once none of
\* its agents is on its way.
AgentsReported ==
  /\ \A t \in 1..tasks : results[t] # "none" <=> agent[t] = "gone"
  /\ agent[0] \in {"running", "left", "gone"}
  /\ agent[0] # "running" => outcome # "running"
  /\ outcome # "running" => \A t \in 1..tasks : agent[t] \in {"none", "gone"}

\* A chain goes on from results, and a call of too many tasks starts none.
ChainGoesOn ==
  /\ mode = "chain" =>
       \A t \in 1..tasks : agent[t] # "none" => \A s \in 1..(t - 1) : results[s] = "ok"
  /\ \A t \in 1..tasks : given[t] # 0 =>
       given[t] \in 1..tasks /\ results[given[t]] = "ok"
  /\ mode = "parallel" /\ tasks > MaxTasks => \A t \in 1..tasks : agent[t] = "none"

DelegationInv == AgentTypes /\ AgentsCounted /\ AgentsReported /\ ChainGoesOn /\ IdleSeen

LEMMA RunningAgentsFinite ==
  ASSUME AgentTypes
  PROVE  IsFiniteSet(AgentsRunning) /\ Cardinality(AgentsRunning) \in Nat
<1>1. IsFiniteSet(0..tasks)
  BY FS_Interval DEF AgentTypes
<1>2. IsFiniteSet(AgentsRunning)
  BY <1>1, FS_Subset DEF AgentsRunning
<1> QED
  BY <1>2, FS_CardinalityType

LEMMA DelegationStarts ==
  ASSUME DelegationInit
  PROVE  DelegationInv
<1>1. AgentTypes
  BY DelegationAssumption DEF DelegationInit, AgentTypes
<1>2. AgentsCounted
  <2>1. AgentsRunning = {0}
    BY DelegationAssumption DEF DelegationInit, AgentsRunning, AgentTypes
  <2> QED
    BY <2>1, FS_Singleton DEF AgentsCounted, DelegationInit
<1>3. AgentsReported /\ ChainGoesOn /\ IdleSeen
  BY <1>1 DEF DelegationInit, AgentTypes, AgentsReported, ChainGoesOn, IdleSeen, Tasks
<1> QED
  BY <1>1, <1>2, <1>3 DEF DelegationInv

\* One more agent counts, or one less.
LEMMA AgentCount ==
  ASSUME AgentTypes, NEW a \in 0..tasks, tasks' = tasks,
         agent' = [agent EXCEPT ![a] = agent'[a]]
  PROVE  /\ a \in AgentsRunning' \ AgentsRunning =>
              Cardinality(AgentsRunning)' = Cardinality(AgentsRunning) + 1
         /\ a \in AgentsRunning \ AgentsRunning' =>
              Cardinality(AgentsRunning)' = Cardinality(AgentsRunning) - 1
         /\ (a \in AgentsRunning <=> a \in AgentsRunning') => AgentsRunning' = AgentsRunning
<1> USE DEF AgentTypes, AgentsRunning
<1>1. ASSUME a \in AgentsRunning' \ AgentsRunning
      PROVE  Cardinality(AgentsRunning)' = Cardinality(AgentsRunning) + 1
  <2>1. AgentsRunning' = AgentsRunning \cup {a}
    BY <1>1
  <2> QED
    BY <1>1, <2>1, RunningAgentsFinite, FS_AddElement
<1>2. ASSUME a \in AgentsRunning \ AgentsRunning'
      PROVE  Cardinality(AgentsRunning)' = Cardinality(AgentsRunning) - 1
  <2>1. AgentsRunning' = AgentsRunning \ {a}
    BY <1>2
  <2> HIDE DEF AgentsRunning, AgentTypes
  <2> QED
    BY <1>2, <2>1, RunningAgentsFinite, FS_RemoveElement
<1>3. (a \in AgentsRunning <=> a \in AgentsRunning') => AgentsRunning' = AgentsRunning
  OBVIOUS
<1> QED
  BY <1>1, <1>2, <1>3

LEMMA NobodyRuns == AgentTypes /\ AgentsCounted /\ activeAgents = 0 => AgentsRunning = {}
  BY RunningAgentsFinite, FS_EmptySet DEF AgentsCounted

LEMMA DelegationStep ==
  ASSUME DelegationInv, [DelegationNext]_delegationVars
  PROVE  DelegationInv'
<1> USE DelegationAssumption DEF DelegationInv, AgentTypes
<1>1. ASSUME NEW t \in Tasks, Call(t) PROVE DelegationInv'
  <2>1. t \in 1..tasks /\ t \in 0..tasks /\ agent[t] = "none"
    BY <1>1 DEF Call, Tasks
  <2>2. AgentTypes'
    BY <1>1, <2>1 DEF Call
  <2>3. AgentsCounted'
    <3>1. agent' = [agent EXCEPT ![t] = agent'[t]] /\ tasks' = tasks
      BY <1>1, <2>1 DEF Call
    <3>2. t \notin AgentsRunning /\ t \notin AgentsRunning'
      BY <1>1, <2>1 DEF AgentsRunning, Call
    <3>3. AgentsRunning' = AgentsRunning
      BY <2>1, <3>1, <3>2, AgentCount
    <3> QED
      BY <1>1, <3>3 DEF Call, AgentsCounted
  <2>4. AgentsReported'
    BY <1>1, <2>1 DEF Call, AgentsReported
  <2>5. mode = "chain" => \A s \in 1..(t - 1) : results[s] = "ok"
    BY <1>1 DEF Call, Turn
  <2>6. ChainGoesOn'
    BY <1>1, <2>1, <2>5 DEF Call, ChainGoesOn, Tasks
  <2>7. IdleSeen'
    BY <1>1, <2>1, <2>6 DEF Call, IdleSeen, Tasks, ChainGoesOn
  <2> QED
    BY <2>2, <2>3, <2>4, <2>6, <2>7
<1>2. ASSUME NEW t \in Tasks, Refused(t) PROVE DelegationInv'
  <2>1. t \in 1..tasks /\ t \in 0..tasks /\ agent[t] = "called" /\ results[t] = "none"
    BY <1>2 DEF Refused, Tasks, AgentsReported
  <2>2. AgentTypes'
    BY <1>2, <2>1 DEF Refused, Report
  <2>3. AgentsCounted'
    <3>1. agent' = [agent EXCEPT ![t] = agent'[t]] /\ tasks' = tasks
      BY <1>2, <2>1 DEF Refused
    <3>2. t \notin AgentsRunning /\ t \notin AgentsRunning'
      BY <1>2, <2>1 DEF AgentsRunning, Refused
    <3>3. AgentsRunning' = AgentsRunning
      BY <2>1, <3>1, <3>2, AgentCount
    <3> QED
      BY <1>2, <3>3 DEF Refused, AgentsCounted
  <2>4. AgentsReported'
    BY <1>2, <2>1 DEF Refused, Report, AgentsReported
  <2>5. ChainGoesOn'
    BY <1>2, <2>1 DEF Refused, Report, ChainGoesOn
  <2>6. IdleSeen'
    BY <1>2, <2>1, <2>5 DEF Refused, Report, IdleSeen, Tasks, ChainGoesOn, AgentsReported
  <2> QED
    BY <2>2, <2>3, <2>4, <2>5, <2>6
<1>3. ASSUME NEW t \in Tasks, Enter(t) PROVE DelegationInv'
  <2>1. t \in 1..tasks /\ t \in 0..tasks /\ agent[t] = "called"
    BY <1>3 DEF Enter, Tasks
  <2>2. AgentTypes'
    BY <1>3, <2>1 DEF Enter
  <2>3. AgentsCounted'
    <3>1. agent' = [agent EXCEPT ![t] = agent'[t]] /\ tasks' = tasks
      BY <1>3, <2>1 DEF Enter
    <3>2. t \in AgentsRunning' \ AgentsRunning
      BY <1>3, <2>1 DEF AgentsRunning, Enter
    <3>3. Cardinality(AgentsRunning)' = Cardinality(AgentsRunning) + 1
      BY <2>1, <3>1, <3>2, AgentCount
    <3> QED
      BY <1>3, <3>3 DEF Enter, AgentsCounted
  <2>4. AgentsReported'
    BY <1>3, <2>1 DEF Enter, AgentsReported
  <2>5. ChainGoesOn'
    BY <1>3, <2>1 DEF Enter, ChainGoesOn
  <2>6. IdleSeen'
    BY <1>3, <2>1, <2>4, <2>5 DEF Enter, IdleSeen, Tasks, ChainGoesOn, AgentsReported
  <2> QED
    BY <2>2, <2>3, <2>4, <2>5, <2>6
<1>4. ASSUME NEW a \in 0..tasks, Leave(a) PROVE DelegationInv'
  <2>1. a \in AgentsRunning /\ agent[a] = "running"
    BY <1>4 DEF Leave, AgentsRunning
  <2>2. Cardinality(AgentsRunning)' = Cardinality(AgentsRunning) - 1
    <3>1. agent' = [agent EXCEPT ![a] = agent'[a]] /\ tasks' = tasks
      BY <1>4 DEF Leave
    <3>2. a \in AgentsRunning \ AgentsRunning'
      BY <1>4, <2>1 DEF AgentsRunning, Leave
    <3> QED
      BY <3>1, <3>2, AgentCount
  <2>3. activeAgents - 1 \in Nat
    BY <2>1, RunningAgentsFinite, FS_EmptySet, NobodyRuns DEF AgentsCounted
  <2>4. AgentTypes'
    BY <1>4, <2>3 DEF Leave
  <2>5. AgentsCounted'
    BY <1>4, <2>2 DEF Leave, AgentsCounted
  <2>6. AgentsReported'
    BY <1>4, <2>1 DEF Leave, AgentsReported
  <2>7. ChainGoesOn'
    BY <1>4, <2>1 DEF Leave, ChainGoesOn
  <2>8. IdleSeen'
    BY <1>4, <2>1, <2>7 DEF Leave, IdleSeen, Tasks, ChainGoesOn
  <2> QED
    BY <2>4, <2>5, <2>6, <2>7, <2>8
<1>5. ASSUME NEW a \in 0..tasks, signalStateChanged(a) PROVE DelegationInv'
  <2>1. CASE agent[a] = "entered"
    <3>1. a # 0
      BY <2>1 DEF AgentsReported
    <3>2. /\ agent' = [agent EXCEPT ![a] = "running"]
          /\ UNCHANGED <<mode, tasks, results, given, outcome, activeAgents, waiter>>
          /\ stateChanged' = TRUE
      BY <1>5, <2>1 DEF signalStateChanged
    <3>3. AgentTypes'
      BY <3>2
    <3>4. AgentsCounted'
      <4>1. agent' = [agent EXCEPT ![a] = agent'[a]] /\ tasks' = tasks
        BY <3>2
      <4>2. a \in AgentsRunning /\ a \in AgentsRunning'
        BY <2>1, <3>2 DEF AgentsRunning
      <4>3. AgentsRunning' = AgentsRunning
        BY <4>1, <4>2, AgentCount
      <4> QED
        BY <3>2, <4>3 DEF AgentsCounted
    <3>5. AgentsReported' /\ ChainGoesOn'
      BY <2>1, <3>1, <3>2 DEF AgentsReported, ChainGoesOn
    <3>6. IdleSeen'
      BY <2>1, <3>2, <3>5 DEF IdleSeen, Tasks, ChainGoesOn
    <3> QED
      BY <3>3, <3>4, <3>5, <3>6
  <2>2. CASE agent[a] = "left"
    <3>1. /\ agent' = [agent EXCEPT ![a] = "gone"]
          /\ UNCHANGED <<mode, tasks, given, outcome, activeAgents, waiter>>
          /\ stateChanged' = TRUE
          /\ \/ a = 0 /\ results' = results
             \/ a # 0 /\ \E how \in {"ok", "error"} : results' = [results EXCEPT ![a] = how]
      BY <1>5, <2>2 DEF signalStateChanged, Report
    <3>2. AgentTypes'
      BY <3>1
    <3>3. AgentsCounted'
      <4>1. agent' = [agent EXCEPT ![a] = agent'[a]] /\ tasks' = tasks
        BY <3>1
      <4>2. a \notin AgentsRunning /\ a \notin AgentsRunning'
        BY <2>2, <3>1 DEF AgentsRunning
      <4>3. AgentsRunning' = AgentsRunning
        BY <4>1, <4>2, AgentCount
      <4> QED
        BY <3>1, <4>3 DEF AgentsCounted
    <3>4. a # 0 => a \in 1..tasks /\ results[a] = "none"
      BY <2>2 DEF AgentsReported
    <3>5. AgentsReported'
      BY <2>2, <3>1, <3>4 DEF AgentsReported
    <3>6. ChainGoesOn'
      BY <2>2, <3>1, <3>4 DEF ChainGoesOn
    <3>7. IdleSeen'
      BY <2>2, <3>1, <3>6 DEF IdleSeen, Tasks, ChainGoesOn
    <3> QED
      BY <3>2, <3>3, <3>5, <3>6, <3>7
  <2> QED
    BY <1>5, <2>1, <2>2 DEF signalStateChanged
<1>6. CASE Return
  <2>1. UNCHANGED <<mode, tasks, agent, results, given, activeAgents, stateChanged, waiter>>
    BY <1>6 DEF Return
  <2>2. \A t \in 1..tasks : agent[t] \in {"none", "gone"}
    <3>1. CASE mode = "parallel" /\ tasks > MaxTasks
      BY <3>1 DEF ChainGoesOn
    <3>2. CASE \A t \in Tasks : results[t] # "none"
      BY <3>2 DEF AgentsReported, Tasks
    <3>3. CASE mode = "chain" /\ \E t \in Tasks : results[t] = "error"
      <4>1. PICK t \in 1..tasks : results[t] = "error"
        BY <3>3 DEF Tasks
      <4>2. ASSUME NEW s \in 1..tasks, agent[s] \notin {"none", "gone"} PROVE FALSE
        <5>1. CASE s < t
          BY SMTT(30), <3>3, <4>1, <4>2, <5>1 DEF ChainGoesOn, AgentsReported
        <5>2. CASE t < s
          BY <3>3, <4>1, <4>2, <5>2 DEF ChainGoesOn
        <5>3. CASE s = t
          BY <4>1, <4>2, <5>3 DEF AgentsReported
        <5> QED
          BY <5>1, <5>2, <5>3
      <4> QED
        BY <4>2
    <3> QED
      BY <1>6, <3>1, <3>2, <3>3 DEF Return
  <2>3. outcome' # "running"
    BY <1>6 DEF Return
  <2>4. AgentTypes' /\ AgentsCounted' /\ ChainGoesOn'
    BY <2>1 DEF AgentsCounted, AgentsRunning, ChainGoesOn
  <2>5. AgentsReported'
    BY <2>1, <2>2, <2>3 DEF AgentsReported
  <2>6. IdleSeen'
    BY <2>1, <2>3 DEF IdleSeen, Tasks
  <2> QED
    BY <2>4, <2>5, <2>6
<1>7. CASE WaitForIdle
  <2>1. UNCHANGED <<mode, tasks, agent, results, given, outcome, activeAgents>>
    BY <1>7 DEF WaitForIdle
  <2>2. AgentTypes' /\ AgentsCounted' /\ AgentsReported' /\ ChainGoesOn'
    BY <1>7, <2>1 DEF WaitForIdle, AgentsCounted, AgentsRunning, AgentsReported, ChainGoesOn
  <2>3. ASSUME activeAgents = 0, waiter' = "released" PROVE IdleSeen'
    <3>1. AgentsRunning = {}
      BY <2>3, NobodyRuns
    <3>2. agent[0] # "running"
      BY <3>1 DEF AgentsRunning
    <3>3. outcome # "running" /\ \A t \in 1..tasks : agent[t] \in {"none", "gone"}
      BY <3>2 DEF AgentsReported
    <3> QED
      BY <2>1, <2>3, <3>2, <3>3 DEF IdleSeen, Tasks, AgentsReported, ChainGoesOn
  <2>4. \/ activeAgents = 0 /\ waiter' = "released"
        \/ activeAgents # 0 /\ waiter' = "asleep"
        \/ waiter' = "woken"
    BY <1>7 DEF WaitForIdle
  <2>5. ASSUME waiter' # "released", ~(waiter' = "asleep" /\ activeAgents' = 0)
        PROVE  IdleSeen'
    BY ONLY <2>5 DEF IdleSeen
  <2>6. IdleSeen'
    BY <2>1, <2>3, <2>4, <2>5
  <2> QED
    BY <2>2, <2>6
<1>8. CASE UNCHANGED delegationVars
  BY <1>8 DEF delegationVars, AgentsCounted, AgentsRunning, AgentsReported, ChainGoesOn,
              IdleSeen, Tasks
<1> QED
  BY <1>1, <1>2, <1>3, <1>4, <1>5, <1>6, <1>7, <1>8 DEF DelegationNext

\* A waiter of WaitForIdle is woken by the last agent that ends, and let go only
\* when no agent runs and none will: for any number of tasks, run one by one, in
\* batches of any width or in a chain (runtime.go:1562).
THEOREM NoLostWakeup == DelegationSpec => []IdleSeen
<1>1. DelegationInit => DelegationInv
  BY DelegationStarts
<1>2. DelegationInv /\ [DelegationNext]_delegationVars => DelegationInv'
  BY DelegationStep
<1>3. DelegationInv => IdleSeen
  BY DEF DelegationInv
<1> QED
  BY <1>1, <1>2, <1>3, PTL DEF DelegationSpec

-----------------------------------------------------------------------------
(* AgentPackages: which agents run.                                        *)

Roles == {"main", "sub", "meta"}

\* What loads: profiles with a role and different names.
IsAvailable(available) ==
  /\ \A p \in available : Profile(p) /\ p.role \in Roles /\ p.optional \subseteq p.tools
  /\ \A p, q \in available : p.name = q.name => p = q

LEMMA RoleSet ==
  ASSUME NEW p, Profile(p)
  PROVE  LET q == [p EXCEPT !.role = agentRole(p)]
         IN  /\ q = [name |-> p.name, role |-> agentRole(p), tools |-> p.tools,
                     optional |-> p.optional, delegates |-> p.delegates,
                     prompt |-> p.prompt, from |-> p.from]
             /\ agentRole(p) \in Roles /\ (p.role # "none" => q = p)
<1> DEFINE r == agentRole(p)
<1>1. r \in Roles /\ (p.role # "none" => r = p.role)
  BY DEF Profile, agentRole, Roles
<1> HIDE DEF r
<1>2. [p EXCEPT !.role = r] = [name |-> p.name, role |-> r, tools |-> p.tools,
                               optional |-> p.optional, delegates |-> p.delegates,
                               prompt |-> p.prompt, from |-> p.from]
  BY DEF Profile
<1>3. p.role = r => [p EXCEPT !.role = r] = p
  BY <1>2 DEF Profile
<1> QED
  BY <1>1, <1>2, <1>3 DEF r

LEMMA LoadedAvailable ==
  ASSUME NEW directory, NEW from, Profiles(directory, from)
  PROVE  /\ IsAvailable(Loaded(directory))
         /\ \A p \in Loaded(directory) : p.from = from
<1>1. ASSUME NEW p \in Loaded(directory)
      PROVE  /\ Profile(p) /\ p.role \in Roles /\ p.optional \subseteq p.tools /\ p.from = from
             /\ \E q \in directory : p = [q EXCEPT !.role = agentRole(q)] /\ p.name = q.name
  <2>1. PICK q \in directory : q.optional \subseteq q.tools /\ p = [q EXCEPT !.role = agentRole(q)]
    BY <1>1 DEF Loaded
  <2>2. Profile(q) /\ q.from = from
    BY DEF Profiles
  <2>3. /\ p = [name |-> q.name, role |-> agentRole(q), tools |-> q.tools,
                optional |-> q.optional, delegates |-> q.delegates,
                prompt |-> q.prompt, from |-> q.from]
        /\ agentRole(q) \in Roles
    BY <2>1, <2>2, RoleSet
  <2>4. /\ p.name = q.name /\ p.role \in Roles /\ p.optional \subseteq p.tools /\ p.from = from
    BY <2>1, <2>2, <2>3
  <2>5. Profile(p)
    BY <2>2, <2>3 DEF Profile, Roles
  <2> QED
    BY <2>1, <2>4, <2>5
<1>2. ASSUME NEW p \in Loaded(directory), NEW q \in Loaded(directory), p.name = q.name
      PROVE  p = q
  BY <1>1, <1>2 DEF Profiles
<1> QED
  BY <1>1, <1>2 DEF IsAvailable

LEMMA RenderedFields ==
  ASSUME NEW p, Profile(p), NEW available
  PROVE  Rendered(p, available) =
           [name |-> p.name, role |-> p.role, tools |-> p.tools, optional |-> p.optional,
            delegates |-> Frozen(p, available), prompt |-> "local", from |-> "bundle"]
<1> DEFINE f == Frozen(p, available)
<1> HIDE DEF f
<1>1. ASSUME NEW g, g = [p EXCEPT !.delegates = f, !.prompt = "local", !.from = "bundle"]
      PROVE  g = [name |-> p.name, role |-> p.role, tools |-> p.tools,
                  optional |-> p.optional, delegates |-> f,
                  prompt |-> "local", from |-> "bundle"]
  <2>1. /\ DOMAIN p = {"name", "role", "tools", "optional", "delegates", "prompt", "from"}
    BY DEF Profile
  <2>2. g = [x \in DOMAIN p |-> IF x = "from" THEN "bundle" ELSE IF x = "prompt" THEN "local"
                               ELSE IF x = "delegates" THEN f ELSE p[x]]
    BY <1>1, <2>1
  <2> QED
    BY <2>1, <2>2
<1> QED
  BY <1>1 DEF Rendered, f

\* The delegates of whoever is collected are there, may be delegated to, and
\* are collected.
LEMMA CollectedClosed ==
  ASSUME NEW available, IsAvailable(available), NEW entry, ~DelegatesRefused(entry, available),
         NEW p \in available, p.name \in Collected(entry, available),
         NEW name \in DelegatesOf(p, available)
  PROVE  /\ name \in Collected(entry, available)
         /\ \E t \in available : t.name = name /\ CanDelegateAgent(p.role, t.role)
<1> DEFINE Add(names) ==
             names \cup UNION {DelegatesOf(q, available) : q \in Named(available, names)}
<1>1. Collected(entry, available) = Add(Add({entry}))
  BY DEF Collected
<1>2. ASSUME NEW q \in available, q.name \in Collected(entry, available),
             NEW n \in DelegatesOf(q, available)
      PROVE  \E t \in available : t.name = n /\ CanDelegateAgent(q.role, t.role)
  BY <1>2 DEF DelegatesRefused, Named
<1>3. ASSUME NEW names, NEW q \in available, q.name \in names
      PROVE  DelegatesOf(q, available) \subseteq Add(names)
  BY <1>3 DEF Named
<1>4. \A names : names \subseteq Add(names)
  OBVIOUS
<1>5. CASE p.name \in Add({entry})
  BY <1>1, <1>2, <1>3, <1>5
<1>6. CASE p.name \notin Add({entry})
  <2>1. PICK q \in available : q.name \in Add({entry}) /\ p.name \in DelegatesOf(q, available)
    BY <1>1, <1>6 DEF Named
  <2>2. q.name # entry
    BY <1>3, <1>6, <2>1
  <2>3. PICK r \in available : r.name = entry /\ q.name \in DelegatesOf(r, available)
    BY <2>1, <2>2 DEF Named
  <2>4. entry \in Collected(entry, available) /\ q.name \in Collected(entry, available)
    BY <1>1, <1>4, <2>1
  <2>5. CanDelegateAgent(r.role, q.role)
    BY <1>2, <2>3, <2>4 DEF IsAvailable
  <2>6. CanDelegateAgent(q.role, p.role)
    BY <1>2, <2>1, <2>4 DEF IsAvailable
  <2>7. \E t \in available : CanDelegateAgent(p.role, t.role)
    BY <1>2
  <2> QED
    BY <2>5, <2>6, <2>7 DEF CanDelegateAgent
<1> QED
  BY <1>5, <1>6

LEMMA PackageFields ==
  ASSUME NEW available, IsAvailable(available), NEW entry
  PROVE  LET package == Package(entry, available)
             chosen  == Named(available, Collected(entry, available))
         IN  /\ package.agents = {Rendered(p, available) : p \in chosen}
             /\ package.entry = entry /\ package.dependencies = NamesOf(chosen) \ {entry}
             /\ package.required = RequiredBy(chosen) /\ package.optional = OptionalOf(chosen)
             /\ package # None
             /\ NamesOf(package.agents) = NamesOf(chosen)
             /\ Loaded(package.agents) = package.agents
             /\ \A p \in package.agents : Profile(p) /\ p.role \in Roles /\ p.from = "bundle"
<1> DEFINE package == Package(entry, available)
           chosen  == Named(available, Collected(entry, available))
<1>1. /\ package.agents = {Rendered(p, available) : p \in chosen}
      /\ package.entry = entry /\ package.dependencies = NamesOf(chosen) \ {entry}
      /\ package.required = RequiredBy(chosen) /\ package.optional = OptionalOf(chosen)
      /\ package # None
  BY DEF Package, None
<1>2. ASSUME NEW p \in chosen
      PROVE  LET r == Rendered(p, available)
             IN  /\ Profile(r) /\ r.role \in Roles /\ r.from = "bundle" /\ r.name = p.name
                 /\ r.optional \subseteq r.tools /\ [r EXCEPT !.role = agentRole(r)] = r
  <2>1. Profile(p) /\ p.role \in Roles /\ p.optional \subseteq p.tools
    BY DEF Named, IsAvailable
  <2> DEFINE r == Rendered(p, available)
  <2>2. r = [name |-> p.name, role |-> p.role, tools |-> p.tools, optional |-> p.optional,
             delegates |-> Frozen(p, available), prompt |-> "local", from |-> "bundle"]
    BY <2>1, RenderedFields
  <2> HIDE DEF r
  <2>3. Profile(r) /\ r.role \in Roles /\ r.from = "bundle" /\ r.name = p.name
        /\ r.optional \subseteq r.tools /\ r.role # "none"
    BY <2>1, <2>2 DEF Profile, Roles
  <2>4. [r EXCEPT !.role = agentRole(r)] = r
    BY <2>3, RoleSet
  <2> QED
    BY <2>3, <2>4 DEF r
<1> HIDE DEF package, chosen
<1>3. NamesOf(package.agents) = NamesOf(chosen)
  BY <1>1, <1>2 DEF NamesOf
<1>4. Loaded(package.agents) = package.agents
  BY <1>1, <1>2 DEF Loaded
<1>5. \A p \in package.agents : Profile(p) /\ p.role \in Roles /\ p.from = "bundle"
  BY <1>1, <1>2
<1> QED
  BY <1>1, <1>3, <1>4, <1>5 DEF package, chosen

\* What the builder makes of profiles passes the validation.
LEMMA BuiltValid ==
  ASSUME NEW available, IsAvailable(available), NEW entry, ~DelegatesRefused(entry, available),
         \A p \in available : p.delegates = {} \/ "subagent" \in p.tools
  PROVE  ValidateAgentPackage(Package(entry, available))
<1> DEFINE package == Package(entry, available)
           chosen  == Named(available, Collected(entry, available))
           agents  == package.agents
<1>1. /\ agents = {Rendered(p, available) : p \in chosen}
      /\ package.entry = entry /\ package.dependencies = NamesOf(chosen) \ {entry}
      /\ package.required = RequiredBy(chosen) /\ package.optional = OptionalOf(chosen)
      /\ NamesOf(agents) = NamesOf(chosen) /\ Loaded(agents) = agents
  BY PackageFields
<1>2. ASSUME NEW p \in chosen
      PROVE  LET r == Rendered(p, available)
             IN  /\ r.name = p.name /\ r.role = p.role /\ r.delegates = Frozen(p, available)
                 /\ r.tools = p.tools /\ r.optional = p.optional /\ r.prompt = "local"
  <2>1. Profile(p)
    BY DEF Named, IsAvailable
  <2> QED
    BY <2>1, RenderedFields
<1> HIDE DEF package, chosen
<1>3. package.entry \in NamesOf(agents)
  <2>1. entry \in NamesOf(available)
    BY DEF DelegatesRefused
  <2>2. entry \in Collected(entry, available)
    BY DEF Collected
  <2> QED
    BY <1>1, <2>1, <2>2 DEF NamesOf, Named, chosen
<1>4. RequiredBy(agents) = RequiredBy(chosen)
  BY <1>1, <1>2 DEF RequiredBy, RequiredTools
<1>5. OptionalOf(agents) = OptionalOf(chosen)
  <2>1. {p.optional : p \in agents} = {p.optional : p \in chosen}
    BY <1>1, <1>2
  <2> QED
    BY <1>4, <2>1 DEF OptionalOf
<1>6. ASSUME NEW p \in chosen
      PROVE  /\ "*" \notin Frozen(p, available)
             /\ \A name \in Frozen(p, available) :
                  /\ name \in Collected(entry, available)
                  /\ \E t \in available : t.name = name /\ CanDelegateAgent(p.role, t.role)
  <2>1. p \in available /\ p.name \in Collected(entry, available)
    BY DEF chosen, Named
  <2>2. \A t \in available : t.name # "*"
    BY DEF IsAvailable, Profile
  <2>3. ASSUME NEW name \in Frozen(p, available)
        PROVE  /\ name \in Collected(entry, available)
               /\ \E t \in available : t.name = name /\ CanDelegateAgent(p.role, t.role)
    <3>1. name \in DelegatesOf(p, available)
      BY <2>1 DEF DelegatesOf, Frozen
    <3> QED
      BY <2>1, <3>1, CollectedClosed
  <2> QED
    BY <2>2, <2>3
<1>7. ASSUME NEW r \in agents
      PROVE  /\ "*" \notin r.delegates /\ r.delegates \subseteq NamesOf(agents)
             /\ \A t \in Named(agents, r.delegates) : CanDelegateTo(r, t)
             /\ r.prompt = "local"
  <2>1. PICK p \in chosen : r = Rendered(p, available)
    BY <1>1
  <2>2. r.role = p.role /\ r.delegates = Frozen(p, available) /\ r.prompt = "local"
    BY <1>2, <2>1
  <2>3. ASSUME NEW name \in r.delegates PROVE name \in NamesOf(agents)
    <3>1. name \in Collected(entry, available) /\ \E t \in available : t.name = name
      BY <1>6, <2>2
    <3> QED
      BY <1>1, <3>1 DEF NamesOf, Named, chosen
  <2>4. ASSUME NEW t \in Named(agents, r.delegates) PROVE CanDelegateTo(r, t)
    <3>1. PICK q \in chosen : t = Rendered(q, available)
      BY <1>1 DEF Named
    <3>2. t.name = q.name /\ t.role = q.role /\ t.name \in r.delegates
      BY <1>2, <3>1 DEF Named
    <3>3. CanDelegateAgent(p.role, q.role)
      BY <1>6, <2>2, <3>2 DEF chosen, Named, IsAvailable
    <3> QED
      BY <2>2, <3>2, <3>3 DEF CanDelegateTo
  <2> QED
    BY <1>6, <2>2, <2>3, <2>4
<1>8. package.dependencies = NamesOf(agents) \ {package.entry}
  BY <1>1
<1> QED
  BY <1>1, <1>3, <1>4, <1>5, <1>7, <1>8 DEF ValidateAgentPackage, package

\* An agent of a package may delegate to whom it could at the source.
LEMMA BuiltDelegates ==
  ASSUME NEW available, IsAvailable(available), NEW entry, ~DelegatesRefused(entry, available),
         ValidateAgentPackage(Package(entry, available)),
         NEW r \in Package(entry, available).agents, NEW t \in available
  PROVE  /\ t.name \in r.delegates <=>
              \E source \in Named(available, {r.name}) : CanDelegateTo(source, t)
         /\ t.name \in r.delegates => t.name \in NamesOf(Package(entry, available).agents)
<1> DEFINE package == Package(entry, available)
           chosen  == Named(available, Collected(entry, available))
           agents  == package.agents
<1>1. /\ agents = {Rendered(p, available) : p \in chosen}
      /\ Loaded(agents) = agents
  BY PackageFields
<1>2. ASSUME NEW p \in chosen
      PROVE  LET q == Rendered(p, available)
             IN  /\ q.name = p.name /\ q.role = p.role /\ q.delegates = Frozen(p, available)
  <2>1. Profile(p)
    BY DEF Named, IsAvailable
  <2> QED
    BY <2>1, RenderedFields
<1>3. /\ "*" \notin r.delegates /\ r.delegates \subseteq NamesOf(agents)
      /\ \A u \in Named(agents, r.delegates) : CanDelegateTo(r, u)
  BY <1>1 DEF ValidateAgentPackage
<1> HIDE DEF package
<1>4. PICK p \in chosen : r = Rendered(p, available)
  BY <1>1 DEF package
<1> HIDE DEF chosen
<1>5. p \in available /\ r.name = p.name /\ r.role = p.role /\ r.delegates = Frozen(p, available)
  BY <1>2, <1>4 DEF chosen, Named
<1>6. Named(available, {r.name}) = {p}
  BY <1>5 DEF Named, IsAvailable
<1>7. t.name \in r.delegates <=> CanDelegateTo(p, t)
  <2>1. CASE "subagent" \in p.tools /\ "*" \in p.delegates
    <3>1. r.delegates = {c.name : c \in {d \in available : CanDelegateAgent(p.role, d.role)}}
      BY <1>5, <2>1 DEF Frozen
    <3>2. t.name \in r.delegates <=> CanDelegateAgent(p.role, t.role)
      BY <3>1 DEF IsAvailable
    <3> QED
      BY <2>1, <3>2 DEF CanDelegateTo
  <2>2. CASE ~("subagent" \in p.tools /\ "*" \in p.delegates)
    <3>1. r.delegates = p.delegates /\ "*" \notin p.delegates
      BY <1>3, <1>5, <2>2 DEF Frozen
    <3>2. ASSUME t.name \in r.delegates PROVE CanDelegateTo(p, t)
      <4>1. PICK u \in agents : u.name = t.name
        BY <1>3, <3>2 DEF NamesOf
      <4>2. CanDelegateTo(r, u)
        BY <1>3, <3>2, <4>1 DEF Named
      <4>3. PICK q \in chosen : u = Rendered(q, available)
        BY <1>1, <4>1
      <4>4. q \in available /\ q.name = t.name /\ q.role = u.role
        BY <1>2, <4>1, <4>3 DEF chosen, Named
      <4>5. q = t
        BY <4>4 DEF IsAvailable
      <4> QED
        BY <1>5, <3>1, <3>2, <4>2, <4>4, <4>5 DEF CanDelegateTo
    <3>3. ASSUME CanDelegateTo(p, t) PROVE t.name \in r.delegates
      BY <3>1, <3>3 DEF CanDelegateTo
    <3> QED
      BY <3>2, <3>3
  <2> QED
    BY <2>1, <2>2
<1> QED
  BY <1>3, <1>6, <1>7 DEF package

-----------------------------------------------------------------------------

BundleStands ==
  /\ bundle # None =>
       /\ "agents" \in DOMAIN bundle
       /\ \A p \in bundle.agents : Profile(p) /\ p.role \in Roles /\ p.from = "bundle"
  /\ installed # None => bundle # None
  /\ bundle # None /\ installed = None =>
       \E entry \in NamesOf(embedded) :
         /\ ~DelegatesRefused(entry, Loaded(embedded))
         /\ bundle = Package(entry, Loaded(embedded)) /\ ValidateAgentPackage(bundle)

Admitted(p) ==
  /\ p.from = "loose" => trusted
  /\ p.from \in {"loose", "personal"} => p.name \notin NamesOf(Loaded(embedded))

MayRun(runner, depth) ==
  /\ runner.role \in Roles /\ Level[runner.role] + depth <= 2
  /\ Admitted(runner)
  /\ runner.from = "bundle" =>
       bundle # None /\ runner \in bundle.agents /\ ValidateAgentPackage(bundle)

MayDelegate(caller, runner) ==
  /\ runner.name \in caller.delegates \/ "*" \in caller.delegates
  /\ Level[runner.role] < Level[caller.role]
  /\ Packaged(caller) => Packaged(runner)

AgentsInv ==
  /\ embedded \in Catalogs /\ loose \in Loose /\ personal \in Personal
  /\ refusal = "invalid" =>
       \E p \in Loaded(embedded) : p.delegates # {} /\ "subagent" \notin p.tools
  /\ BundleStands
  /\ \E S : stack \in Seq(S)
  /\ \A i \in DOMAIN stack : MayRun(stack[i].agent, i - 1)
  /\ \A i \in DOMAIN stack : i > 1 => MayDelegate(stack[i - 1].agent, stack[i].agent)

LEMMA AgentsStart == AgentsInit => AgentsInv
<1> SUFFICES ASSUME AgentsInit PROVE AgentsInv
  OBVIOUS
<1>1. stack \in Seq({}) /\ DOMAIN stack = {}
  BY DEF AgentsInit
<1> QED
  BY <1>1 DEF AgentsInit, AgentsInv, BundleStands

LEMMA EmbeddedAvailable ==
  ASSUME AgentsInv
  PROVE  /\ IsAvailable(Loaded(embedded)) /\ \A p \in Loaded(embedded) : p.from = "embedded"
         /\ IsAvailable(Loaded(loose)) /\ \A p \in Loaded(loose) : p.from = "loose"
         /\ IsAvailable(Loaded(personal)) /\ \A p \in Loaded(personal) : p.from = "personal"
  BY AgentsAssumption, LoadedAvailable DEF AgentsInv

LEMMA BundleLoads ==
  ASSUME AgentsInv, bundle # None, NEW p \in Loaded(bundle.agents)
  PROVE  p \in bundle.agents
<1>1. PICK q \in bundle.agents : p = [q EXCEPT !.role = agentRole(q)]
  BY DEF Loaded
<1>2. Profile(q) /\ q.role \in Roles
  BY DEF AgentsInv, BundleStands
<1>3. p = q
  BY <1>1, <1>2, RoleSet DEF Roles
<1> QED
  BY <1>3

\* Where the profile of a name is found.
LEMMA FoundAt ==
  ASSUME AgentsInv, NEW name, NEW scope, NEW p \in AgentAt(name, Scope(scope))
  PROVE  /\ p.name = name /\ p.role \in Roles
         /\ Admitted(p)
         /\ p.from = "bundle" => bundle # None /\ p \in bundle.agents
<1> DEFINE s == Scope(scope)
           paths == agentPathsAt(s)
<1>1. paths = <<IF Project(s) THEN packageResourcePathsScope("project") ELSE {},
                IF User(s)    THEN packageResourcePathsScope("user")    ELSE {},
                Loaded(embedded),
                IF Project(s) THEN Loaded(loose) ELSE {},
                IF User(s)    THEN Loaded(personal) ELSE {}>>
  BY DEF agentPathsAt
<1>2. PICK i \in DOMAIN paths :
        p \in paths[i] /\ \A j \in 1..(i - 1) : p.name \notin NamesOf(paths[j])
  BY DEF AgentAt, AgentDefinitionsAt, Named
<1>3. p.name = name
  BY DEF AgentAt, Named
<1> HIDE DEF paths
<1>4. i \in 1..5
  BY <1>1, <1>2
<1>5. ASSUME NEW place, p \in packageResourcePathsScope(place)
      PROVE  /\ p.role \in Roles /\ p.from = "bundle" /\ bundle # None /\ p \in bundle.agents
  <2>1. installed # None /\ p \in Loaded(bundle.agents)
    BY <1>5 DEF packageResourcePathsScope, Named
  <2>2. bundle # None
    BY <2>1 DEF AgentsInv, BundleStands
  <2>3. p \in bundle.agents
    BY <2>1, <2>2, BundleLoads
  <2> QED
    BY <2>2, <2>3 DEF AgentsInv, BundleStands
<1>11. \A q : q.from = "bundle" => Admitted(q)
  BY DEF Admitted
<1>6. CASE i = 1
  <2>1. p \in packageResourcePathsScope("project")
    BY <1>1, <1>2, <1>6
  <2> QED
    BY <1>3, <1>5, <1>11, <2>1
<1>7. CASE i = 2
  <2>1. p \in packageResourcePathsScope("user")
    BY <1>1, <1>2, <1>7
  <2> QED
    BY <1>3, <1>5, <1>11, <2>1
<1>8. CASE i = 3
  <2>1. p \in Loaded(embedded)
    BY <1>1, <1>2, <1>8
  <2> QED
    BY <1>3, <2>1, EmbeddedAvailable DEF IsAvailable, Admitted
<1>9. CASE i = 4
  <2>1. Project(s) /\ p \in Loaded(loose)
    BY <1>1, <1>2, <1>9
  <2>2. trusted
    BY <2>1 DEF Scope, Project
  <2>3. p.name \notin NamesOf(Loaded(embedded))
    <3>1. 3 \in 1..(i - 1) /\ paths[3] = Loaded(embedded)
      BY <1>1, <1>9
    <3> QED
      BY <1>2, <3>1
  <2> QED
    BY <1>3, <2>1, <2>2, <2>3, EmbeddedAvailable DEF IsAvailable, Admitted
<1>10. CASE i = 5
  <2>1. p \in Loaded(personal)
    BY <1>1, <1>2, <1>10
  <2>2. p.name \notin NamesOf(Loaded(embedded))
    <3>1. 3 \in 1..(i - 1) /\ paths[3] = Loaded(embedded)
      BY <1>1, <1>10
    <3> QED
      BY <1>2, <3>1
  <2> QED
    BY <1>3, <2>1, <2>2, EmbeddedAvailable DEF IsAvailable, Admitted
<1> QED
  BY <1>4, <1>6, <1>7, <1>8, <1>9, <1>10

LEMMA BuildKeeps ==
  ASSUME AgentsInv, NEW entry \in NamesOf(embedded), BuildAgentPackage(entry)
  PROVE  AgentsInv'
<1> DEFINE available == Loaded(embedded)
           package   == Package(entry, available)
<1>1. /\ UNCHANGED <<embedded, loose, personal, trusted, installed, stack>>
      /\ bundle = None /\ stack = <<>>
      /\ bundle' = IF refusal' = "none" THEN package ELSE None
      /\ refusal' = IF DelegatesRefused(entry, available) THEN "delegates"
                    ELSE IF \E p \in Named(available, NamesOf(package.agents)) :
                              p.prompt = "missing" THEN "prompt"
                    ELSE IF ~ValidateAgentPackage(package) THEN "invalid"
                    ELSE "none"
  BY DEF BuildAgentPackage
<1>2. IsAvailable(available)
  BY EmbeddedAvailable
<1> HIDE DEF available, package
<1>3. refusal' = "invalid" =>
        \E p \in available : p.delegates # {} /\ "subagent" \notin p.tools
  <2>1. refusal' = "invalid" =>
          ~DelegatesRefused(entry, available) /\ ~ValidateAgentPackage(package)
    BY <1>1
  <2> QED
    BY <1>2, <2>1, BuiltValid DEF package
<1>4. refusal' = "none" => ~DelegatesRefused(entry, available) /\ ValidateAgentPackage(package)
  BY <1>1
<1>5. \A p \in package.agents : Profile(p) /\ p.role \in Roles /\ p.from = "bundle"
  BY <1>2, PackageFields DEF package
<1>6. "agents" \in DOMAIN package
  BY DEF package, Package
<1>7. BundleStands'
  BY <1>1, <1>4, <1>5, <1>6 DEF BundleStands, AgentsInv, available, package
<1>8. DOMAIN stack' = {}
  BY <1>1
<1> QED
  BY <1>1, <1>3, <1>7, <1>8 DEF AgentsInv, available

\* A package is installed or damaged while no agent runs.
LEMMA BundleKeeps ==
  ASSUME AgentsInv,
         \/ \E scope \in {"user", "project"}, patterns \in Patterns : Install(scope, patterns)
         \/ \E name \in NamesOf(embedded) : Damage(name)
  PROVE  AgentsInv'
<1>1. stack = <<>> /\ UNCHANGED <<embedded, loose, personal, trusted, refusal, stack>>
  BY DEF Install, Damage
<1>2. DOMAIN stack' = {}
  BY <1>1
<1>3. BundleStands'
  <2>1. ASSUME NEW scope, NEW patterns, Install(scope, patterns) PROVE BundleStands'
    <3>1. bundle # None /\ bundle' = bundle /\ installed' = [scope |-> scope, patterns |-> patterns]
      BY <2>1 DEF Install
    <3>2. installed' # None
      BY <3>1 DEF None
    <3> QED
      BY <3>1, <3>2 DEF AgentsInv, BundleStands
  <2>2. ASSUME NEW name, Damage(name) PROVE BundleStands'
    <3>1. /\ installed # None /\ installed' = installed
          /\ bundle' = [bundle EXCEPT !.agents = {p \in @ : p.name # name}]
      BY <2>2 DEF Damage
    <3>2. bundle # None
      BY <3>1 DEF AgentsInv, BundleStands
    <3>3. /\ "agents" \in DOMAIN bundle
          /\ \A p \in bundle.agents : Profile(p) /\ p.role \in Roles /\ p.from = "bundle"
      BY <3>2 DEF AgentsInv, BundleStands
    <3>4. "agents" \in DOMAIN bundle' /\ bundle'.agents = {p \in bundle.agents : p.name # name}
      BY <3>1, <3>3
    <3>5. bundle' # None
      BY <3>4 DEF None
    <3> QED
      BY <3>1, <3>3, <3>4, <3>5 DEF BundleStands
  <2> QED
    BY <2>1, <2>2
<1> QED
  BY <1>1, <1>2, <1>3 DEF AgentsInv

\* The agents that ran go on, with one more that may run.
LEMMA OneMoreRuns ==
  ASSUME AgentsInv, UNCHANGED <<embedded, loose, personal, trusted, bundle, refusal, installed>>,
         NEW runner, NEW scope, stack' = Append(stack, Run(runner, scope)),
         MayRun(runner, Len(stack)),
         Len(stack) > 0 => MayDelegate(stack[Len(stack)].agent, runner)
  PROVE  AgentsInv'
<1> DEFINE n == Len(stack)
           e == Run(runner, scope)
<1>1. PICK S : stack \in Seq(S)
  BY DEF AgentsInv
<1>2. stack \in Seq(S \cup {e}) /\ e \in S \cup {e}
  BY <1>1
<1>3. /\ stack' \in Seq(S \cup {e}) /\ n \in Nat /\ DOMAIN stack = 1..n
      /\ DOMAIN stack' = 1..(n + 1) /\ stack'[n + 1] = e
      /\ \A i \in 1..n : stack'[i] = stack[i]
  BY <1>2
<1>4. e.agent = runner
  BY DEF Run
<1> HIDE DEF n, e
<1>5. ASSUME NEW i \in DOMAIN stack' PROVE MayRun(stack'[i].agent, i - 1)
  <2>1. CASE i = n + 1
    BY <1>3, <1>4, <2>1 DEF n
  <2>2. CASE i \in 1..n
    BY <1>3, <2>2 DEF AgentsInv
  <2> QED
    BY <1>3, <2>1, <2>2
<1>6. ASSUME NEW i \in DOMAIN stack', i > 1
      PROVE  MayDelegate(stack'[i - 1].agent, stack'[i].agent)
  <2>1. CASE i = n + 1
    <3>1. i - 1 = n /\ n > 0 /\ n \in 1..n
      BY <1>3, <1>6, <2>1
    <3> QED
      BY <1>3, <1>4, <2>1, <3>1 DEF n
  <2>2. CASE i \in 1..n
    <3>1. i - 1 \in 1..n
      BY <1>3, <1>6, <2>2
    <3> QED
      BY <1>3, <1>6, <2>2, <3>1 DEF AgentsInv
  <2>3. i = n + 1 \/ i \in 1..n
    BY <1>3
  <2> QED
    BY <2>1, <2>2, <2>3
<1>7. BundleStands'
  BY DEF AgentsInv, BundleStands
<1>8. \A p, d : MayRun(p, d) => MayRun(p, d)'
  BY DEF MayRun, Admitted
<1> QED
  BY <1>3, <1>5, <1>6, <1>7, <1>8 DEF AgentsInv, MayRun, Admitted

LEMMA EnterKeeps ==
  ASSUME AgentsInv, NEW name, NEW scope, EnterAgent(name, scope)
  PROVE  AgentsInv'
<1>1. PICK runner \in AgentAt(name, Scope(scope)) :
        Starts(runner, 0) /\ stack' = <<Run(runner, Scope(scope))>>
  BY DEF EnterAgent
<1>2. /\ stack = <<>>
      /\ UNCHANGED <<embedded, loose, personal, trusted, bundle, refusal, installed>>
  BY DEF EnterAgent
<1>3. MayRun(runner, 0)
  <2>1. runner.role \in Roles => Level[runner.role] + 0 <= 2
    BY DEF Roles, Level
  <2> QED
    BY <1>1, <2>1, FoundAt DEF MayRun, Starts, Packaged
<1>4. Len(stack) = 0 /\ stack' = Append(stack, Run(runner, Scope(scope)))
  BY <1>1, <1>2
<1> QED
  BY <1>2, <1>3, <1>4, OneMoreRuns

LEMMA DelegateKeeps ==
  ASSUME AgentsInv, NEW name, NEW scope, Delegate(name, scope)
  PROVE  AgentsInv'
<1> DEFINE n == Len(stack)
           caller == stack[n].agent
           own    == IF Packaged(caller) THEN AgentInPackage(name) ELSE {}
           childScope == Scope(IF scope = "caller's" THEN stack[n].scope ELSE scope)
<1>1. /\ stack # <<>> /\ name \in NamesOf(Offered(caller))
      /\ UNCHANGED <<embedded, loose, personal, trusted, bundle, refusal, installed>>
  BY DEF Delegate
<1>2. PICK runner \in IF own # {} THEN own ELSE AgentAt(name, childScope) :
        /\ CanDelegateTo(caller, runner) /\ Starts(runner, n)
        /\ stack' = Append(stack, Run(runner, childScope))
  BY DEF Delegate
<1>3. n \in DOMAIN stack /\ n \in Nat /\ n > 0
  <2>1. PICK S : stack \in Seq(S)
    BY DEF AgentsInv
  <2> QED
    BY <1>1, <2>1
<1> HIDE DEF n
<1>4. MayRun(caller, n - 1)
  BY <1>3 DEF AgentsInv
<1>5. Packaged(caller) => own # {}
  <2> SUFFICES ASSUME Packaged(caller) PROVE AgentInPackage(name) # {}
    OBVIOUS
  <2>1. bundle # None /\ caller \in bundle.agents /\ ValidateAgentPackage(bundle)
    BY <1>4 DEF MayRun, Packaged
  <2>2. Loaded(bundle.agents) = bundle.agents
    BY <2>1 DEF ValidateAgentPackage
  <2>3. /\ "*" \notin caller.delegates
        /\ caller.delegates \subseteq NamesOf(bundle.agents)
    BY <2>1, <2>2 DEF ValidateAgentPackage
  <2>4. PICK p \in Offered(caller) : p.name = name
    BY <1>1 DEF NamesOf
  <2>5. name \in caller.delegates
    BY <2>3, <2>4 DEF Offered, CanDelegateTo
  <2> QED
    BY <2>1, <2>3, <2>5 DEF AgentInPackage, NamesOf, Named
<1>6. own # {} => runner \in bundle.agents /\ runner.name = name /\ Packaged(caller)
  BY <1>2 DEF AgentInPackage, Named
<1>7. own = {} => runner \in AgentAt(name, childScope)
  BY <1>2
<1> HIDE DEF own
<1>8. /\ runner.role \in Roles
      /\ Admitted(runner)
      /\ runner.from = "bundle" => bundle # None /\ runner \in bundle.agents
      /\ Packaged(caller) => Packaged(runner)
  <2>1. CASE own # {}
    <3>1. bundle # None
      BY <1>4, <1>6, <2>1 DEF MayRun, Packaged
    <3>2. runner.role \in Roles /\ runner.from = "bundle"
      BY <1>6, <2>1, <3>1 DEF AgentsInv, BundleStands
    <3> QED
      BY <1>6, <2>1, <3>1, <3>2 DEF Packaged, Admitted
  <2>2. CASE own = {}
    BY <1>5, <1>7, <2>2, FoundAt
  <2> QED
    BY <2>1, <2>2
<1>9. CanDelegateAgent(caller.role, runner.role)
      /\ (runner.name \in caller.delegates \/ "*" \in caller.delegates)
  BY <1>2 DEF CanDelegateTo
<1>10. /\ Level[runner.role] \in Nat /\ Level[caller.role] \in Nat
       /\ Level[runner.role] < Level[caller.role]
  BY <1>9 DEF CanDelegateAgent, Level
<1>11. Level[runner.role] + n <= 2
  <2>1. Level[caller.role] + (n - 1) <= 2
    BY <1>4 DEF MayRun
  <2> QED
    BY <1>3, <1>10, <2>1
<1>12. MayRun(runner, n)
  BY <1>2, <1>8, <1>11 DEF MayRun, Starts, Packaged
<1>13. MayDelegate(caller, runner)
  BY <1>8, <1>9, <1>10 DEF MayDelegate
<1> QED
  BY <1>1, <1>2, <1>12, <1>13, OneMoreRuns DEF n

LEMMA AgentsStep == AgentsInv /\ [AgentsNext]_agentVars => AgentsInv'
<1> SUFFICES ASSUME AgentsInv, [AgentsNext]_agentVars PROVE AgentsInv'
  OBVIOUS
<1>1. CASE UNCHANGED agentVars
  BY <1>1 DEF agentVars, AgentsInv, BundleStands, MayRun, MayDelegate, Packaged, Admitted
<1> QED
  BY <1>1, BuildKeeps, BundleKeeps, EnterKeeps, DelegateKeeps DEF AgentsNext

\* Whatever profiles there are and however packages are built, installed,
\* hidden and damaged between runs: what is built is valid and allows what its
\* source did, and every agent that runs was allowed by the one before.
THEOREM AgentsMayRun == AgentsSpec => []AgentsAllowed
<1>1. AgentsInv => PackageBuilds
  <2> SUFFICES ASSUME AgentsInv, bundle # None, installed = None,
                      NEW p \in bundle.agents, NEW t \in Loaded(embedded)
               PROVE  /\ t.name \in p.delegates <=>
                           \E source \in Named(Loaded(embedded), {p.name}) :
                             CanDelegateTo(source, t)
                      /\ t.name \in p.delegates => t.name \in NamesOf(bundle.agents)
    BY DEF PackageBuilds, AgentsInv
  <2>1. PICK entry :
         /\ ~DelegatesRefused(entry, Loaded(embedded))
         /\ bundle = Package(entry, Loaded(embedded)) /\ ValidateAgentPackage(bundle)
    BY DEF AgentsInv, BundleStands
  <2> QED
    BY <2>1, EmbeddedAvailable, BuiltDelegates
<1>2. AgentsInv => DelegationsAllowed
  <2> SUFFICES ASSUME AgentsInv PROVE DelegationsAllowed
    OBVIOUS
  <2>1. Len(stack) \in Nat /\ DOMAIN stack = 1..Len(stack)
    <3>1. PICK S : stack \in Seq(S)
      BY DEF AgentsInv
    <3> QED
      BY <3>1
  <2>2. \A i \in DOMAIN stack : i <= 3
    <3>1. ASSUME NEW i \in DOMAIN stack PROVE i <= 3
      <4>1. MayRun(stack[i].agent, i - 1)
        BY DEF AgentsInv
      <4>2. Level[stack[i].agent.role] \in Nat
        BY <4>1 DEF MayRun, Roles, Level
      <4>3. Level[stack[i].agent.role] + (i - 1) <= 2
        BY <4>1 DEF MayRun
      <4>4. i \in Nat
        BY <2>1
      <4> QED
        BY <4>2, <4>3, <4>4
    <3> QED
      BY <3>1
  <2>3. Len(stack) <= 3
    BY <2>1, <2>2
  <2> QED
    BY <2>3 DEF DelegationsAllowed, AgentsInv, MayRun, MayDelegate, Packaged, Admitted
<1> QED
  BY <1>1, <1>2, AgentsStart, AgentsStep, PTL DEF AgentsSpec, AgentsAllowed

-----------------------------------------------------------------------------
(* ProviderStream: what the reader makes of a stream.                      *)

CallsRead == [index : Indices, pieces : Nat, signed : BOOLEAN]

StreamTypes ==
  /\ started \in Seq(Indices) /\ told \in [Indices -> Nat] /\ details \subseteq Indices
  /\ calls \in [DOMAIN calls -> CallsRead]
  /\ IsFiniteSet(DOMAIN calls) /\ DOMAIN calls \subseteq Nat

\* The reader has every call that the provider began, once.
CallsTold ==
  /\ \A k \in DOMAIN calls :
       /\ calls[k].index \in Began /\ calls[k].pieces = told[calls[k].index]
       /\ calls[k].signed <=> calls[k].index \in details
  /\ \A i \in Began : \E k \in DOMAIN calls : calls[k].index = i
  /\ \A k, l \in DOMAIN calls : calls[k].index = calls[l].index => k = l

Keyed ==
  IF provider = "google"
  THEN DOMAIN calls = 0..(Len(started) - 1) /\ \A i \in Began : Whole(i)
  ELSE \A k \in DOMAIN calls : calls[k].index = k

ReaderInv ==
  /\ StreamTypes /\ CallsTold /\ Keyed
  /\ text = spoken
  /\ unmatched = details \ Began /\ (provider # "openai" => details = {})
  /\ terminal => finish # "none"
  /\ finish \notin {"none", "length", "error"} => \A i \in Began : Whole(i)
  /\ connection = "ended" =>
       /\ completion = Completion(completion.error) /\ completion.error \in BOOLEAN
       /\ ~completion.error => Unmarked \/ terminal

LEMMA StreamStarts == StreamInit => ReaderInv
<1> SUFFICES ASSUME StreamInit PROVE ReaderInv
  OBVIOUS
<1>1. /\ provider \in {"openai", "responses", "anthropic", "google", "pi", "bedrock"}
      /\ spoken = 0 /\ started = <<>> /\ told = [i \in Indices |-> 0] /\ details = {}
      /\ finish = "none" /\ connection = "open"
      /\ text = 0 /\ calls = <<>> /\ unmatched = {} /\ terminal = FALSE
  BY DEF StreamInit
<1>2. started \in Seq(Indices) /\ Len(started) = 0 /\ Began = {} /\ DOMAIN calls = {}
      /\ calls = [k \in {} |-> calls[k]]
  <2>1. started = <<>> /\ calls = <<>>
    BY <1>1
  <2>2. started \in Seq(Indices) /\ Len(started) = 0 /\ DOMAIN started = {}
    BY ONLY <2>1
  <2>3. DOMAIN calls = {} /\ calls = [k \in {} |-> calls[k]]
    BY ONLY <2>1
  <2> QED
    BY <2>2, <2>3 DEF ToSet, Began
<1>3. StreamTypes
  BY <1>1, <1>2, FS_EmptySet DEF StreamTypes
<1>4. 0..(Len(started) - 1) = {}
  BY <1>2
<1>5. CallsTold /\ Keyed
  BY <1>2, <1>4 DEF CallsTold, Keyed
<1>6. unmatched = details \ Began /\ details = {} /\ text = spoken
  BY <1>1
<1> QED
  BY <1>1, <1>3, <1>5, <1>6 DEF ReaderInv

\* The accumulators in the order of their keys.
LEMMA CallsSorted ==
  ASSUME StreamTypes
  PROVE  \E order \in [1..Cardinality(DOMAIN calls) -> DOMAIN calls] :
           /\ \A i \in DOMAIN calls : \E k \in DOMAIN order : order[k] = i
           /\ \A k \in DOMAIN order : \A j \in 1..(k - 1) : order[j] < order[k]
           /\ toolCallsFromAccumulators =
                [k \in 1..Cardinality(DOMAIN calls) |->
                   [calls[order[k]] EXCEPT !.pieces = IF @ = Pieces THEN @ ELSE 0]]
<1> DEFINE D == DOMAIN calls
           n == Cardinality(D)
           order == [k \in 1..n |-> CHOOSE i \in D : Cardinality({j \in D : j < i}) = k - 1]
<1>1. IsFiniteSet(D) /\ D \in SUBSET Nat
  BY DEF StreamTypes
<1>2. toolCallsFromAccumulators =
        [k \in 1..n |-> [calls[order[k]] EXCEPT !.pieces = IF @ = Pieces THEN @ ELSE 0]]
  BY DEF toolCallsFromAccumulators
<1>3. /\ order \in [1..n -> D] /\ \A i \in D : \E k \in 1..n : order[k] = i
      /\ \A k \in 1..n : \A j \in 1..(k - 1) : order[j] < order[k]
  <2> HIDE DEF D
  <2> QED
    BY <1>1, Sorted
<1> HIDE DEF order
<1> QED
  BY <1>2, <1>3

LEMMA WholeInTheEnd == ReaderInv => CompletionWhole
<1> SUFFICES ASSUME ReaderInv, connection = "ended", ~completion.error
             PROVE  /\ completion.text = spoken
                    /\ Len(completion.calls) = Cardinality(Began)
                    /\ {completion.calls[k].index : k \in DOMAIN completion.calls} = Began
                    /\ \A k \in DOMAIN completion.calls :
                         LET c == completion.calls[k]
                         IN  /\ completion.stop \notin {"length", "error", "none"} =>
                                  c.pieces = Pieces
                             /\ c.signed <=> c.index \in details
                             /\ provider # "google" =>
                                  \A j \in 1..(k - 1) : completion.calls[j].index < c.index
                    /\ ~Unmarked => finish # "none" /\ completion.stop = finish
  BY DEF CompletionWhole
<1> DEFINE D == DOMAIN calls
           n == Cardinality(D)
<1>1. StreamTypes /\ CallsTold /\ Keyed /\ text = spoken
  BY DEF ReaderInv
<1>2. /\ completion = Completion(FALSE)
      /\ Unmarked \/ terminal
  <2>1. completion = Completion(completion.error)
    BY DEF ReaderInv
  <2>3. completion.error = FALSE /\ (Unmarked \/ terminal)
    BY DEF ReaderInv
  <2> QED
    BY <2>1, <2>3
<1>3. /\ completion.text = spoken /\ completion.calls = toolCallsFromAccumulators
      /\ completion.stop = IF provider = "google" /\ calls # <<>> THEN "tool_calls" ELSE finish
  BY <1>1, <1>2 DEF Completion
<1>4. PICK order \in [1..n -> D] :
        /\ \A i \in D : \E k \in DOMAIN order : order[k] = i
        /\ \A k \in DOMAIN order : \A j \in 1..(k - 1) : order[j] < order[k]
        /\ toolCallsFromAccumulators =
             [k \in 1..n |-> [calls[order[k]] EXCEPT !.pieces = IF @ = Pieces THEN @ ELSE 0]]
  BY <1>1, CallsSorted
<1>5. IsFiniteSet(D) /\ n \in Nat
  BY <1>1, FS_CardinalityType DEF StreamTypes
<1>6. \A k \in 1..n : order[k] \in D
  BY <1>4
<1> HIDE DEF D, n
<1>7. /\ DOMAIN completion.calls = 1..n
      /\ \A k \in 1..n :
           /\ completion.calls[k].index = calls[order[k]].index
           /\ completion.calls[k].signed = calls[order[k]].signed
           /\ completion.calls[k].pieces =
                IF calls[order[k]].pieces = Pieces THEN Pieces ELSE 0
  <2>1. \A i \in D : calls[i] \in CallsRead
    BY <1>1 DEF StreamTypes, D
  <2>2. \A x \in CallsRead :
          LET y == [x EXCEPT !.pieces = IF @ = Pieces THEN @ ELSE 0]
          IN  /\ y.index = x.index /\ y.signed = x.signed
              /\ y.pieces = IF x.pieces = Pieces THEN Pieces ELSE 0
    BY DEF CallsRead
  <2>3. DOMAIN completion.calls = 1..n
    BY <1>3, <1>4
  <2>4. ASSUME NEW k \in 1..n
        PROVE  /\ completion.calls[k].index = calls[order[k]].index
               /\ completion.calls[k].signed = calls[order[k]].signed
               /\ completion.calls[k].pieces =
                    IF calls[order[k]].pieces = Pieces THEN Pieces ELSE 0
    <3>1. PICK x \in CallsRead : x = calls[order[k]]
      BY <1>6, <2>1
    <3>2. completion.calls[k] = [x EXCEPT !.pieces = IF @ = Pieces THEN @ ELSE 0]
      BY <1>3, <1>4, <3>1
    <3> QED
      BY <2>2, <3>1, <3>2
  <2> QED
    BY <2>3, <2>4
<1>8. Len(completion.calls) = n
  BY <1>3, <1>4, <1>5
<1>9. n = Cardinality(Began)
  <2> DEFINE f == [i \in D |-> calls[i].index]
  <2>1. \A i \in D : calls[i].index \in Began
    BY <1>1 DEF CallsTold, D
  <2>2. f \in [D -> Began]
    BY <2>1
  <2>3. f \in Injection(D, Began)
    BY <1>1, <2>2 DEF Injection, IsInjective, CallsTold, D
  <2>4. f \in Surjection(D, Began)
    BY <1>1, <2>2 DEF Surjection, CallsTold, D
  <2>5. ExistsBijection(D, Began)
    BY <2>3, <2>4 DEF ExistsBijection, Bijection
  <2> QED
    BY <1>5, <2>5, FS_Bijection DEF n
<1>10. {completion.calls[k].index : k \in DOMAIN completion.calls} = Began
  <2>1. \A k \in 1..n : calls[order[k]].index \in Began
    BY <1>1, <1>6 DEF CallsTold, D
  <2>2. ASSUME NEW i \in Began PROVE \E k \in 1..n : calls[order[k]].index = i
    <3>1. PICK d \in D : calls[d].index = i
      BY <1>1 DEF CallsTold, D
    <3> QED
      BY <1>4, <3>1
  <2> QED
    BY <1>7, <2>1, <2>2
<1>11. ASSUME NEW k \in 1..n
       PROVE  /\ completion.stop \notin {"length", "error", "none"} =>
                   completion.calls[k].pieces = Pieces
              /\ completion.calls[k].signed <=> completion.calls[k].index \in details
              /\ provider # "google" =>
                   \A j \in 1..(k - 1) : completion.calls[j].index < completion.calls[k].index
  <2> DEFINE d == order[k]
  <2>1. d \in D /\ calls[d].index \in Began /\ calls[d].pieces = told[calls[d].index]
        /\ (calls[d].signed <=> calls[d].index \in details)
    BY <1>1, <1>6 DEF CallsTold, D
  <2>2. ASSUME completion.stop \notin {"length", "error", "none"}
        PROVE  completion.calls[k].pieces = Pieces
    <3>1. \A i \in Began : Whole(i)
      <4>1. provider = "google" => \A i \in Began : Whole(i)
        BY <1>1 DEF Keyed
      <4>2. provider # "google" => finish \notin {"none", "length", "error"}
        BY <1>3, <2>2
      <4> QED
        BY <4>1, <4>2 DEF ReaderInv
    <3> QED
      BY <1>7, <2>1, <3>1 DEF Whole
  <2>3. ASSUME provider # "google", NEW j \in 1..(k - 1)
        PROVE  completion.calls[j].index < completion.calls[k].index
    <3>1. j \in 1..n /\ k \in DOMAIN order
      BY <1>4, <1>5
    <3>2. order[j] < order[k]
      BY <1>4, <3>1
    <3>3. calls[order[j]].index = order[j] /\ calls[order[k]].index = order[k]
      BY <1>1, <1>6, <2>3, <3>1 DEF Keyed, D
    <3> QED
      BY <1>7, <3>1, <3>2, <3>3
  <2> QED
    BY <1>7, <2>1, <2>2, <2>3
<1>12. ~Unmarked => finish # "none" /\ completion.stop = finish
  BY <1>2, <1>3 DEF ReaderInv, Unmarked
<1> QED
  BY <1>3, <1>7, <1>8, <1>9, <1>10, <1>11, <1>12

\* What an event leaves that says nothing of calls.
LEMMA CallsRest ==
  ASSUME ReaderInv, UNCHANGED <<provider, started, told, details, calls, unmatched>>
  PROVE  /\ StreamTypes' /\ CallsTold' /\ Keyed' /\ unmatched' = details' \ Began'
         /\ (provider' # "openai" => details' = {})
         /\ Began' = Began /\ \A i \in Began : Whole(i)' <=> Whole(i)
<1>1. StreamTypes' /\ CallsTold'
  BY DEF ReaderInv, StreamTypes, CallsTold, Began
<1>2. Keyed'
  BY DEF ReaderInv, Keyed, Began, Whole
<1> QED
  BY <1>1, <1>2 DEF ReaderInv, Began, Whole

Ending == Finishes \/ Filtered \/ ResponseIncomplete("length") \/ ResponseIncomplete("error")

LEMMA TextAndReason ==
  ASSUME ReaderInv, Text \/ MessageDone \/ Ending \/ MessageStop
  PROVE  ReaderInv'
<1>1. UNCHANGED <<provider, started, told, details, calls, unmatched>>
  BY DEF Text, MessageDone, Ending, Finishes, Filtered, FinishReason, ResponseIncomplete,
         MessageStop
<1>2. connection' # "ended"
  BY DEF Text, MessageDone, Ending, Finishes, Filtered, FinishReason, ResponseIncomplete,
         MessageStop, Sending
<1>3. text' = spoken'
  <2>1. text = spoken
    BY DEF ReaderInv
  <2> QED
    BY <2>1 DEF Text, MessageDone, Ending, Finishes, Filtered, FinishReason, ResponseIncomplete,
         MessageStop,
                Missing, Message
<1>4. terminal' => finish' # "none"
  BY DEF ReaderInv, Text, MessageDone, Ending, Finishes, Filtered, FinishReason, ResponseIncomplete,
         MessageStop
<1>5. finish' \notin {"none", "length", "error"} => \A i \in Began : Whole(i)
  BY DEF ReaderInv, Text, MessageDone, Ending, Finishes, Filtered, FinishReason, ResponseIncomplete,
         MessageStop
<1> QED
  BY <1>1, <1>2, <1>3, <1>4, <1>5, CallsRest DEF ReaderInv

LEMMA BeginCallKeeps ==
  ASSUME ReaderInv, NEW i \in Indices, BeginCall(i)
  PROVE  ReaderInv'
<1> DEFINE key == IF provider = "google" THEN Len(started) ELSE i
           got == IF provider = "google" THEN Pieces ELSE 0
           new == [index |-> i, pieces |-> got, signed |-> i \in unmatched]
<1>1. /\ connection = "open" /\ finish = "none" /\ i \notin Began
      /\ started' = Append(started, i) /\ told' = [told EXCEPT ![i] = got]
      /\ calls' = [k \in DOMAIN calls \cup {key} |-> IF k = key THEN new ELSE calls[k]]
      /\ unmatched' = unmatched \ {i}
      /\ UNCHANGED <<provider, spoken, details, finish, connection, text, terminal, completion>>
  BY DEF BeginCall, Sending
<1>2. StreamTypes /\ CallsTold /\ Keyed
  BY DEF ReaderInv
<1>3. started \in Seq(Indices) /\ told \in [Indices -> Nat] /\ Len(started) \in Nat
      /\ IsFiniteSet(DOMAIN calls) /\ DOMAIN calls \subseteq Nat
  BY <1>2 DEF StreamTypes
<1>4. got \in Nat /\ key \in Nat
  BY <1>3, StreamAssumption
<1>5. new \in CallsRead /\ new.index = i /\ new.pieces = got /\ (new.signed <=> i \in unmatched)
  <2>1. (i \in unmatched) \in BOOLEAN
    OBVIOUS
  <2> QED
    BY <1>4, <2>1 DEF CallsRead
<1>6. key \notin DOMAIN calls
  <2>1. CASE provider = "google"
    BY <1>2, <1>3, <2>1 DEF Keyed
  <2>2. CASE provider # "google"
    <3>1. key = i /\ i \notin Began
      BY <1>1, <2>2
    <3>2. \A k \in DOMAIN calls : k \in Began
      BY <1>2, <2>2 DEF Keyed, CallsTold
    <3> QED
      BY <3>1, <3>2
  <2> QED
    BY <2>1, <2>2
<1> HIDE DEF key, got, new
<1>7. Began' = Began \cup {i} /\ started' \in Seq(Indices) /\ Len(started') = Len(started) + 1
  <2>1. /\ started' \in Seq(Indices) /\ Len(started') = Len(started) + 1
        /\ DOMAIN started' = 1..(Len(started) + 1) /\ DOMAIN started = 1..Len(started)
        /\ started'[Len(started) + 1] = i /\ \A m \in 1..Len(started) : started'[m] = started[m]
    <3>1. started' = Append(started, i)
      BY <1>1
    <3> QED
      BY ONLY <1>3, <3>1, i \in Indices
  <2>2. \A m \in 1..(Len(started) + 1) : m \in 1..Len(started) \/ m = Len(started) + 1
    BY <1>3
  <2>3. 1..Len(started) \subseteq 1..(Len(started) + 1)
        /\ Len(started) + 1 \in 1..(Len(started) + 1)
    BY <1>3
  <2> QED
    BY <2>1, <2>2, <2>3 DEF Began, ToSet
<1>8. /\ DOMAIN calls' = DOMAIN calls \cup {key} /\ calls'[key] = new
      /\ \A k \in DOMAIN calls : calls'[k] = calls[k]
  BY <1>1, <1>6
<1>9. told' \in [Indices -> Nat] /\ told'[i] = got
      /\ \A j \in Indices \ {i} : told'[j] = told[j]
  BY <1>1, <1>3, <1>4
<1>10. StreamTypes'
  <2>1. IsFiniteSet(DOMAIN calls') /\ DOMAIN calls' \subseteq Nat
    BY <1>3, <1>4, <1>8, FS_AddElement
  <2>2. calls' \in [DOMAIN calls' -> CallsRead]
    <3>1. \A k \in DOMAIN calls' : calls'[k] \in CallsRead
      BY <1>2, <1>5, <1>8 DEF StreamTypes
    <3>2. calls' = [k \in DOMAIN calls' |-> calls'[k]]
      BY <1>1
    <3> QED
      BY <3>1, <3>2
  <2> QED
    BY <1>1, <1>2, <1>7, <1>9, <2>1, <2>2 DEF StreamTypes
<1>11. Began \subseteq Indices /\ (i \in details <=> i \in unmatched)
  <2>1. \A m \in 1..Len(started) : started[m] \in Indices
    BY <1>3
  <2>2. Began \subseteq Indices
    BY <1>3, <2>1 DEF Began, ToSet
  <2>3. unmatched = details \ Began
    BY DEF ReaderInv
  <2> QED
    BY <1>1, <2>2, <2>3
<1>12. CallsTold'
  <2>1. ASSUME NEW k \in DOMAIN calls
        PROVE  /\ calls'[k].index \in Began /\ calls'[k].index # i
               /\ calls'[k].pieces = told'[calls'[k].index]
               /\ calls'[k].signed <=> calls'[k].index \in details
    <3>1. calls[k].index \in Began /\ calls[k].pieces = told[calls[k].index]
          /\ (calls[k].signed <=> calls[k].index \in details)
      BY <1>2 DEF CallsTold
    <3>2. calls[k].index \in Indices \ {i}
      BY <1>1, <1>11, <3>1
    <3> QED
      BY <1>1, <1>8, <1>9, <3>1, <3>2
  <2>2. calls'[key].index = i /\ calls'[key].pieces = told'[i]
        /\ (calls'[key].signed <=> i \in details)
    BY <1>5, <1>8, <1>9, <1>11
  <2>3. \A k, l \in DOMAIN calls : calls'[k].index = calls'[l].index => k = l
    BY <1>2, <1>8 DEF CallsTold
  <2>4. \A j \in Began : \E k \in DOMAIN calls : calls'[k].index = j
    BY <1>2, <1>8 DEF CallsTold
  <2>5. details' = details
    BY <1>1
  <2> QED
    BY <1>7, <1>8, <2>1, <2>2, <2>3, <2>4, <2>5 DEF CallsTold
<1>13. Keyed'
  <2>1. CASE provider = "google"
    <3>1. DOMAIN calls = 0..(Len(started) - 1) /\ \A j \in Began : told[j] = Pieces
      BY <1>2, <2>1 DEF Keyed, Whole
    <3>2. key = Len(started) /\ got = Pieces
      BY <2>1 DEF key, got
    <3>3. DOMAIN calls' = 0..(Len(started') - 1)
      <4>1. (0..(Len(started) - 1)) \cup {Len(started)} = 0..((Len(started) + 1) - 1)
        BY <1>3
      <4> QED
        BY <1>7, <1>8, <3>1, <3>2, <4>1
    <3>4. \A j \in Began' : told'[j] = Pieces
      BY <1>1, <1>7, <1>9, <1>11, <3>1, <3>2
    <3> QED
      BY <1>1, <2>1, <3>3, <3>4 DEF Keyed, Whole
  <2>2. CASE provider # "google"
    <3>1. key = i
      BY <2>2 DEF key
    <3>2. \A k \in DOMAIN calls' : calls'[k].index = k
      BY <1>2, <1>5, <1>8, <2>2, <3>1 DEF Keyed
    <3> QED
      BY <1>1, <2>2, <3>2 DEF Keyed
  <2> QED
    BY <2>1, <2>2
<1>14. unmatched' = details' \ Began'
  BY <1>1, <1>7 DEF ReaderInv
<1>15. /\ text' = spoken' /\ (provider' # "openai" => details' = {})
       /\ (terminal' => finish' # "none") /\ finish' \in {"none", "length", "error"}
       /\ connection' # "ended"
  BY <1>1 DEF ReaderInv
<1> QED
  BY <1>10, <1>12, <1>13, <1>14, <1>15 DEF ReaderInv

\* What an event changes in the pieces and the signature of one call.
LEMMA CallChanged ==
  ASSUME ReaderInv, provider # "google", NEW i \in DOMAIN calls, NEW e \in CallsRead,
         connection = "open", finish = "none", UNCHANGED <<provider, started, spoken, text>>,
         UNCHANGED <<finish, connection, terminal>>,
         e.index = i, e.pieces = told'[i], e.signed <=> i \in details',
         calls' = [calls EXCEPT ![i] = e],
         told' \in [Indices -> Nat], \A j \in Indices \ {i} : told'[j] = told[j],
         details' \subseteq Indices, \A j \in Indices \ {i} : j \in details' <=> j \in details,
         provider # "openai" => details' = {}, unmatched' = details' \ Began
  PROVE  ReaderInv'
<1>1. StreamTypes /\ CallsTold /\ Keyed
  BY DEF ReaderInv
<1>2. /\ DOMAIN calls' = DOMAIN calls /\ calls' = [k \in DOMAIN calls |-> calls'[k]]
      /\ calls'[i] = e /\ \A k \in DOMAIN calls \ {i} : calls'[k] = calls[k]
  BY <1>1 DEF StreamTypes
<1>3. Began' = Began
  BY DEF Began
<1>4. \A k \in DOMAIN calls : calls'[k] \in CallsRead
  BY <1>1, <1>2 DEF StreamTypes
<1>5. StreamTypes'
  <2>1. calls' \in [DOMAIN calls' -> CallsRead]
    BY <1>2, <1>4
  <2> QED
    BY <1>1, <1>2, <2>1 DEF StreamTypes
<1>6. \A k \in DOMAIN calls : calls[k].index = k /\ calls[k].index \in Indices
  BY <1>1 DEF Keyed, StreamTypes, CallsRead
<1>7. \A k \in DOMAIN calls : calls'[k].index = k
  BY <1>2, <1>6
<1>8. Keyed'
  BY <1>2, <1>7 DEF Keyed
<1>9. ASSUME NEW k \in DOMAIN calls
      PROVE  /\ k \in Began /\ calls'[k].pieces = told'[k]
             /\ calls'[k].signed <=> k \in details'
  <2>1. k \in Began /\ calls[k].pieces = told[k] /\ (calls[k].signed <=> k \in details)
        /\ k \in Indices
    <3>1. calls[k].index \in Began /\ calls[k].pieces = told[calls[k].index]
          /\ (calls[k].signed <=> calls[k].index \in details)
      BY <1>1 DEF CallsTold
    <3> QED
      BY <1>6, <3>1
  <2> QED
    BY <1>2, <2>1
<1>10. CallsTold'
  <2>1. \A j \in Began : j \in DOMAIN calls
    <3>1. \A j \in Began : \E k \in DOMAIN calls : calls[k].index = j
      BY <1>1 DEF CallsTold
    <3> QED
      BY <1>6, <3>1
  <2>2. \A k \in DOMAIN calls :
          /\ calls'[k].index \in Began /\ calls'[k].pieces = told'[calls'[k].index]
          /\ calls'[k].signed <=> calls'[k].index \in details'
    BY <1>7, <1>9
  <2>3. \A j \in Began : \E k \in DOMAIN calls : calls'[k].index = j
    BY <1>7, <2>1
  <2>4. \A k, l \in DOMAIN calls : calls'[k].index = calls'[l].index => k = l
    BY <1>7
  <2> QED
    BY <1>2, <1>3, <2>2, <2>3, <2>4 DEF CallsTold
<1> QED
  BY <1>3, <1>5, <1>8, <1>10 DEF ReaderInv

LEMMA CallEvents ==
  ASSUME ReaderInv, NEW i \in Indices,
         \/ provider \in {"openai", "responses", "anthropic", "pi", "bedrock"}
              /\ PartialArguments(i)
         \/ provider = "openai" /\ ReasoningDetail(i)
         \/ provider = "responses" /\ ArgumentsDone(i)
  PROVE  ReaderInv'
<1>1. StreamTypes /\ CallsTold /\ Keyed /\ provider # "google"
  BY DEF ReaderInv
<1>2. /\ told \in [Indices -> Nat] /\ details \subseteq Indices /\ Pieces \in Nat
      /\ \A k \in DOMAIN calls : calls[k] \in CallsRead
  BY <1>1, StreamAssumption DEF StreamTypes
<1>3. /\ \A j \in Began : j \in DOMAIN calls
      /\ \A k \in DOMAIN calls : k \in Began /\ calls[k].index = k /\ calls[k].pieces = told[k]
                                 /\ (calls[k].signed <=> k \in details)
  BY <1>1 DEF CallsTold, Keyed
<1>4. unmatched = details \ Began /\ (provider # "openai" => details = {})
  BY DEF ReaderInv
<1>5. ASSUME NEW n \in Nat, i \in Began, connection = "open", finish = "none",
             told' = [told EXCEPT ![i] = n], calls' = [calls EXCEPT ![i].pieces = n],
             UNCHANGED <<provider, spoken, started, details, finish, connection, text>>,
             UNCHANGED <<unmatched, terminal>>
      PROVE  ReaderInv'
  <2> DEFINE e == [calls[i] EXCEPT !.pieces = n]
  <2>1. i \in DOMAIN calls /\ calls[i] \in CallsRead
    BY <1>2, <1>3, <1>5
  <2>2. calls' = [calls EXCEPT ![i] = e]
    BY <1>5
  <2>3. told' \in [Indices -> Nat] /\ told'[i] = n /\ \A j \in Indices \ {i} : told'[j] = told[j]
    BY <1>2, <1>5
  <2>4. e \in CallsRead /\ e.index = i /\ e.pieces = n /\ (e.signed <=> i \in details)
    <3>1. calls[i].index = i /\ (calls[i].signed <=> i \in details)
      BY <1>3, <2>1
    <3> QED
      BY <2>1, <3>1 DEF CallsRead
  <2> HIDE DEF e
  <2>5. /\ details' \subseteq Indices /\ (provider # "openai" => details' = {})
        /\ unmatched' = details' \ Began /\ (e.signed <=> i \in details')
        /\ \A j \in Indices \ {i} : j \in details' <=> j \in details
    BY <1>2, <1>4, <1>5, <2>4
  <2>6. e.pieces = told'[i] /\ e.index = i /\ e \in CallsRead
    BY <2>3, <2>4
  <2> QED
    BY ONLY ZenonT(60), ReaderInv, <1>1, <1>5, <2>1, <2>2, <2>3, <2>5, <2>6, CallChanged
<1>8. ASSUME PartialArguments(i) \/ ArgumentsDone(i) PROVE ReaderInv'
  <2>1. CASE PartialArguments(i)
    <3>1. i \in Began /\ told[i] \in Nat /\ calls[i].pieces = told[i] /\ told[i] + 1 \in Nat
      BY <1>2, <1>3, <2>1 DEF PartialArguments
    <3>2. /\ calls' = [calls EXCEPT ![i].pieces = told[i] + 1]
          /\ told' = [told EXCEPT ![i] = told[i] + 1]
      BY <2>1, <3>1 DEF PartialArguments
    <3>3. /\ connection = "open" /\ finish = "none"
          /\ UNCHANGED <<provider, spoken, started, details, finish, connection, text>>
          /\ UNCHANGED <<unmatched, terminal>>
      BY <2>1 DEF PartialArguments, Sending
    <3> QED
      BY <1>5, <3>1, <3>2, <3>3
  <2>2. CASE ArgumentsDone(i)
    <3>1. i \in Began /\ calls' = [calls EXCEPT ![i].pieces = Pieces]
          /\ told' = [told EXCEPT ![i] = Pieces]
      BY <2>2 DEF ArgumentsDone
    <3>2. /\ connection = "open" /\ finish = "none"
          /\ UNCHANGED <<provider, spoken, started, details, finish, connection, text>>
          /\ UNCHANGED <<unmatched, terminal>>
      BY <2>2 DEF ArgumentsDone, Sending
    <3> QED
      BY <1>2, <1>5, <3>1, <3>2
  <2> QED
    BY <1>8, <2>1, <2>2
<1>6. CASE provider = "openai" /\ ReasoningDetail(i) /\ i \in DOMAIN calls
  <2> DEFINE e == [calls[i] EXCEPT !.signed = TRUE]
  <2>1. /\ connection = "open" /\ finish = "none" /\ details' = details \cup {i}
        /\ calls' = [calls EXCEPT ![i] = e]
        /\ UNCHANGED <<provider, spoken, started, told, finish, connection, text, unmatched,
                       terminal, completion>>
    BY <1>6 DEF ReasoningDetail, Sending
  <2>2. e \in CallsRead /\ e.index = i /\ e.pieces = told[i] /\ e.signed
    <3>1. calls[i] \in CallsRead /\ calls[i].index = i /\ calls[i].pieces = told[i]
      BY <1>2, <1>3, <1>6
    <3> QED
      BY <3>1 DEF CallsRead
  <2>3. i \in Began /\ provider = "openai"
    BY <1>3, <1>6
  <2> HIDE DEF e
  <2> QED
    BY <1>1, <1>2, <1>4, <1>6, <2>1, <2>2, <2>3, CallChanged
<1>7. CASE provider = "openai" /\ ReasoningDetail(i) /\ i \notin DOMAIN calls
  <2>1. /\ connection = "open" /\ finish = "none" /\ details' = details \cup {i}
        /\ unmatched' = unmatched \cup {i}
        /\ UNCHANGED <<provider, spoken, started, told, finish, connection, text, calls,
                       terminal, completion>>
    BY <1>7 DEF ReasoningDetail, Sending
  <2>2. i \notin Began
    BY <1>3, <1>7
  <2>3. Began' = Began
    BY <2>1 DEF Began
  <2>4. StreamTypes'
    BY <1>1, <2>1 DEF StreamTypes
  <2>5. CallsTold'
    BY <1>1, <2>1, <2>2, <2>3 DEF CallsTold
  <2>6. Keyed'
    BY <1>1, <2>1 DEF Keyed
  <2>7. unmatched' = details' \ Began'
    BY <1>4, <2>1, <2>2, <2>3
  <2> QED
    BY <1>7, <2>1, <2>3, <2>4, <2>5, <2>6, <2>7 DEF ReaderInv
<1> QED
  BY <1>6, <1>7, <1>8

\* What an event says of whole calls.
LEMMA WholeCalls ==
  ASSUME ReaderInv, provider \in {"responses", "pi"}, connection = "open",
         NEW S \in SUBSET Indices, Began' = Began \cup S, started' \in Seq(Indices),
         told' \in [Indices -> Nat], \A i \in S : told'[i] = Pieces,
         \A i \in Indices \ S : told'[i] = told[i],
         calls' = [k \in DOMAIN calls \cup S |-> IF k \in S THEN WholeCall(k) ELSE calls[k]],
         UNCHANGED <<provider, details, unmatched, connection>>,
         text' = spoken', terminal' => finish' # "none",
         finish' = "none" \/ Began' \subseteq S
  PROVE  ReaderInv'
<1>1. StreamTypes /\ CallsTold /\ Keyed /\ provider # "google"
  BY DEF ReaderInv
<1>2. details = {} /\ unmatched = details \ Began
  BY DEF ReaderInv
<1>3. /\ Indices \subseteq Nat /\ IsFiniteSet(S) /\ Pieces \in Nat
      /\ IsFiniteSet(DOMAIN calls) /\ DOMAIN calls \subseteq Nat
  BY <1>1, StreamAssumption, FS_Subset DEF StreamTypes
<1>4. /\ DOMAIN calls' = DOMAIN calls \cup S /\ calls' = [k \in DOMAIN calls' |-> calls'[k]]
      /\ \A k \in S : calls'[k] = WholeCall(k)
      /\ \A k \in DOMAIN calls \ S : calls'[k] = calls[k]
  OBVIOUS
<1>5. \A k \in S : WholeCall(k) \in CallsRead /\ WholeCall(k).index = k
                   /\ WholeCall(k).pieces = Pieces /\ ~WholeCall(k).signed
  BY <1>3 DEF WholeCall, CallsRead
<1>6. \A k \in DOMAIN calls :
        /\ calls[k] \in CallsRead /\ calls[k].index = k /\ k \in Indices /\ k \in Began
        /\ calls[k].pieces = told[k] /\ ~calls[k].signed
  <2>1. \A k \in DOMAIN calls : calls[k] \in CallsRead
    BY <1>1 DEF StreamTypes
  <2>2. \A k \in DOMAIN calls : calls[k].index = k
    BY <1>1 DEF Keyed
  <2>3. \A k \in DOMAIN calls :
          /\ calls[k].index \in Began /\ calls[k].pieces = told[calls[k].index]
          /\ calls[k].signed <=> calls[k].index \in details
    BY <1>1 DEF CallsTold
  <2> QED
    BY <1>2, <2>1, <2>2, <2>3 DEF CallsRead
<1>7. \A k \in DOMAIN calls' :
        /\ calls'[k] \in CallsRead /\ calls'[k].index = k /\ k \in Began'
        /\ calls'[k].pieces = told'[k] /\ ~calls'[k].signed
  <2> SUFFICES ASSUME NEW k \in DOMAIN calls'
               PROVE  /\ calls'[k] \in CallsRead /\ calls'[k].index = k /\ k \in Began'
                      /\ calls'[k].pieces = told'[k] /\ ~calls'[k].signed
    OBVIOUS
  <2>1. CASE k \in S
    BY <1>4, <1>5, <2>1
  <2>2. CASE k \in DOMAIN calls \ S
    BY <1>4, <1>6, <2>2
  <2> QED
    BY <1>4, <2>1, <2>2
<1>8. StreamTypes'
  <2>1. IsFiniteSet(DOMAIN calls') /\ DOMAIN calls' \subseteq Nat
    <3>1. IsFiniteSet(DOMAIN calls \cup S)
      BY <1>3, FS_Union
    <3> QED
      BY <1>3, <1>4, <3>1
  <2>2. calls' \in [DOMAIN calls' -> CallsRead]
    BY <1>4, <1>7
  <2> QED
    BY <1>1, <2>1, <2>2 DEF StreamTypes
<1>9. \A j \in Began' : j \in DOMAIN calls'
  <2>1. \A j \in Began : \E k \in DOMAIN calls : calls[k].index = j
    BY <1>1 DEF CallsTold
  <2> QED
    BY <1>4, <1>6, <2>1
<1>10. CallsTold' /\ Keyed'
  <2>1. \A k \in DOMAIN calls' :
          /\ calls'[k].index \in Began' /\ calls'[k].pieces = told'[calls'[k].index]
          /\ calls'[k].signed <=> calls'[k].index \in details'
    <3> SUFFICES ASSUME NEW k \in DOMAIN calls'
                 PROVE  /\ calls'[k].index \in Began' /\ calls'[k].pieces = told'[calls'[k].index]
                        /\ calls'[k].signed <=> calls'[k].index \in details'
      OBVIOUS
    <3>1. calls'[k].index = k /\ k \in Began' /\ calls'[k].pieces = told'[k] /\ ~calls'[k].signed
      BY <1>7
    <3> QED
      BY <1>2, <3>1
  <2>2. \A j \in Began' : \E k \in DOMAIN calls' : calls'[k].index = j
    BY <1>7, <1>9
  <2>3. \A k, l \in DOMAIN calls' : calls'[k].index = calls'[l].index => k = l
    <3>1. \A k \in DOMAIN calls' : calls'[k].index = k
      BY <1>7
    <3> QED
      BY ONLY <3>1
  <2>4. CallsTold'
    BY <2>1, <2>2, <2>3 DEF CallsTold
  <2>5. Keyed'
    BY <1>1, <1>7 DEF Keyed
  <2> QED
    BY <2>4, <2>5
<1>11. finish' = "none" \/ \A j \in Began' : told'[j] = Pieces
  OBVIOUS
<1> QED
  BY <1>1, <1>2, <1>8, <1>10, <1>11 DEF ReaderInv, Whole

\* A sequence of the elements of a set has all of them.
LEMMA ListsAll ==
  ASSUME NEW S, IsFiniteSet(S)
  PROVE  SetToSeq(S) \in Seq(S) /\ ToSet(SetToSeq(S)) = S
<1> DEFINE n == Cardinality(S)
           f == SetToSeq(S)
<1>1. n \in Nat /\ ExistsBijection(1..n, S)
  BY FS_CardinalityType
<1>2. \E g \in [1..n -> S] : IsInjective(g)
  BY <1>1 DEF ExistsBijection, Bijection, Injection
<1>3. f \in [1..n -> S] /\ IsInjective(f)
  BY <1>2 DEF SetToSeq
<1>4. f \in Injection(1..n, S)
  BY <1>3 DEF Injection
<1>5. IsFiniteSet(1..n) /\ Cardinality(1..n) = n
  BY <1>1, FS_Interval
<1> HIDE DEF f
<1>6. f \in Surjection(1..n, S)
  BY <1>4, <1>5, FS_Injection
<1>7. f \in Seq(S) /\ DOMAIN f = 1..n
  BY <1>1, <1>3
<1>8. ToSet(f) = S
  BY <1>3, <1>6, <1>7 DEF ToSet, Surjection
<1> QED
  BY <1>7, <1>8 DEF f

LEMMA WholeItems ==
  ASSUME ReaderInv, provider \in {"responses", "pi"},
         \/ \E i \in Indices : CallDone(i)
         \/ provider = "responses" /\ \E more \in SUBSET Indices : ResponseCompleted(more)
  PROVE  ReaderInv'
<1>1. StreamTypes /\ CallsTold /\ Keyed /\ provider # "google" /\ text = spoken
  BY DEF ReaderInv
<1>2. /\ started \in Seq(Indices) /\ told \in [Indices -> Nat] /\ Pieces \in Nat
      /\ IsFiniteSet(Indices)
  BY <1>1, StreamAssumption DEF StreamTypes
<1>3. DOMAIN calls = Began /\ Began \subseteq Indices
  <2>1. \A k \in DOMAIN calls : calls[k].index = k /\ calls[k].index \in Began
    BY <1>1 DEF CallsTold, Keyed
  <2>2. \A j \in Began : \E k \in DOMAIN calls : calls[k].index = j
    BY <1>1 DEF CallsTold
  <2>3. \A m \in DOMAIN started : started[m] \in Indices
    BY <1>2
  <2> QED
    BY <2>1, <2>2, <2>3 DEF Began, ToSet
<1>4. ASSUME NEW i \in Indices, CallDone(i) PROVE ReaderInv'
  <2>1. /\ connection = "open" /\ finish = "none"
        /\ started' = IF i \in Began THEN started ELSE Append(started, i)
        /\ told' = [told EXCEPT ![i] = Pieces]
        /\ calls' = [k \in DOMAIN calls \cup {i} |-> IF k = i THEN WholeCall(i) ELSE calls[k]]
        /\ UNCHANGED <<provider, spoken, details, finish, connection, text, unmatched, terminal>>
    BY <1>4 DEF CallDone, Sending
  <2>2. started' \in Seq(Indices) /\ Began' = Began \cup {i}
    <3>1. CASE i \in Began
      BY <1>2, <2>1, <3>1 DEF Began
    <3>2. CASE i \notin Began
      <4>1. started' = Append(started, i)
        BY <2>1, <3>2
      <4>2. /\ started' \in Seq(Indices) /\ DOMAIN started' = 1..(Len(started) + 1)
            /\ DOMAIN started = 1..Len(started) /\ Len(started) \in Nat
            /\ started'[Len(started) + 1] = i
            /\ \A m \in 1..Len(started) : started'[m] = started[m]
        BY ONLY <1>2, <4>1, i \in Indices
      <4>3. \A m \in 1..(Len(started) + 1) : m \in 1..Len(started) \/ m = Len(started) + 1
        BY <4>2
      <4>4. 1..Len(started) \subseteq 1..(Len(started) + 1)
            /\ Len(started) + 1 \in 1..(Len(started) + 1)
        BY <4>2
      <4> QED
        BY <4>2, <4>3, <4>4 DEF Began, ToSet
    <3> QED
      BY <3>1, <3>2
  <2>3. calls' = [k \in DOMAIN calls \cup {i} |-> IF k \in {i} THEN WholeCall(k) ELSE calls[k]]
    BY <2>1
  <2>4. told' \in [Indices -> Nat] /\ \A j \in {i} : told'[j] = Pieces
    BY <1>2, <2>1
  <2>5. \A j \in Indices \ {i} : told'[j] = told[j]
    BY <1>2, <2>1
  <2>6. {i} \in SUBSET Indices
    OBVIOUS
  <2>7. text' = spoken' /\ (terminal' => finish' # "none") /\ finish' = "none"
    BY <1>1, <2>1 DEF ReaderInv
  <2> QED
    BY <2>1, <2>2, <2>3, <2>4, <2>5, <2>6, <2>7, WholeCalls
<1>5. ASSUME provider = "responses", NEW more \in SUBSET Indices, ResponseCompleted(more)
      PROVE  ReaderInv'
  <2> DEFINE S == Began \cup more
  <2>1. /\ connection = "open" /\ finish' = "stop"
        /\ spoken' = Message /\ text' = Missing
        /\ started' = started \o SetToSeq(more)
        /\ told' = [i \in Indices |-> IF i \in S THEN Pieces ELSE told[i]]
        /\ calls' = [i \in S |-> WholeCall(i)]
        /\ UNCHANGED <<provider, details, connection, unmatched>>
    BY <1>5 DEF ResponseCompleted, Sending
  <2>2. started' \in Seq(Indices) /\ Began' = S
    <3>1. SetToSeq(more) \in Seq(more) /\ ToSet(SetToSeq(more)) = more
      BY <1>2, ListsAll, FS_Subset
    <3> DEFINE s == SetToSeq(more)
    <3> HIDE DEF s
    <3>2. s \in Seq(Indices) /\ {s[m] : m \in DOMAIN s} = more
      <4>1. s \in Seq(more) /\ ToSet(s) = more
        BY <3>1 DEF s
      <4> QED
        BY <4>1 DEF ToSet
    <3>3. started' = started \o s
      BY <2>1 DEF s
    <3>4. /\ started' \in Seq(Indices) /\ DOMAIN started' = 1..(Len(started) + Len(s))
          /\ DOMAIN started = 1..Len(started) /\ DOMAIN s = 1..Len(s)
          /\ Len(started) \in Nat /\ Len(s) \in Nat
          /\ \A m \in 1..Len(started) : started'[m] = started[m]
          /\ \A m \in 1..Len(s) : started'[Len(started) + m] = s[m]
      <4>1. started \in Seq(Indices) /\ s \in Seq(Indices)
        BY <1>2, <3>2
      <4> QED
        BY ONLY <3>3, <4>1
    <3>5. \A m \in 1..(Len(started) + Len(s)) :
            m \in 1..Len(started) \/ \E q \in 1..Len(s) : m = Len(started) + q
      <4> SUFFICES ASSUME NEW m \in 1..(Len(started) + Len(s)), m \notin 1..Len(started)
                   PROVE  m - Len(started) \in 1..Len(s) /\ m = Len(started) + (m - Len(started))
        OBVIOUS
      <4> QED
        BY <3>4
    <3>6. \A q \in 1..Len(s) : Len(started) + q \in DOMAIN started'
      BY <3>4
    <3>7. \A m \in 1..Len(started) : m \in DOMAIN started'
      BY <3>4
    <3>8. \A m \in DOMAIN started' : started'[m] \in S
      <4> SUFFICES ASSUME NEW m \in 1..(Len(started) + Len(s)) PROVE started'[m] \in S
        BY <3>4
      <4>1. CASE m \in 1..Len(started)
        BY <3>4, <4>1 DEF Began, ToSet
      <4>2. ASSUME NEW q \in 1..Len(s), m = Len(started) + q PROVE started'[m] \in S
        BY <3>2, <3>4, <4>2
      <4> QED
        BY <3>5, <4>1, <4>2
    <3>9. \A x \in S : x \in {started'[m] : m \in DOMAIN started'}
      BY <3>2, <3>4, <3>6, <3>7 DEF Began, ToSet
    <3> HIDE DEF S
    <3> QED
      BY <3>4, <3>8, <3>9 DEF Began, ToSet
  <2>3. S \in SUBSET Indices /\ Began' = Began \cup S
    BY <1>3, <2>2
  <2>4. calls' = [k \in DOMAIN calls \cup S |-> IF k \in S THEN WholeCall(k) ELSE calls[k]]
    BY <1>3, <2>1
  <2>5. told' \in [Indices -> Nat] /\ \A i \in S : told'[i] = Pieces
    BY <1>2, <2>1, <2>3
  <2>6. \A i \in Indices \ S : told'[i] = told[i]
    BY <2>1
  <2>7. text' = spoken'
    BY <1>1, <2>1 DEF Message, Missing
  <2> HIDE DEF S
  <2> QED
    BY <2>1, <2>2, <2>3, <2>4, <2>5, <2>6, <2>7, WholeCalls
<1> QED
  BY <1>4, <1>5

LEMMA StreamSteps == ReaderInv /\ [StreamNext]_streamVars => ReaderInv'
<1> SUFFICES ASSUME ReaderInv, [StreamNext]_streamVars PROVE ReaderInv'
  OBVIOUS
<1>1. CASE Text \/ MessageDone \/ Ending \/ MessageStop
  BY <1>1, TextAndReason
<1>2. ASSUME NEW i \in Indices, BeginCall(i) PROVE ReaderInv'
  BY <1>2, BeginCallKeeps
<1>3. ASSUME provider \in {"openai", "responses", "anthropic", "pi", "bedrock"},
             NEW i \in Indices, PartialArguments(i)
      PROVE  ReaderInv'
  BY <1>3, CallEvents
<1>4. ASSUME provider = "openai", NEW i \in Indices, ReasoningDetail(i) PROVE ReaderInv'
  BY <1>4, CallEvents
<1>5. ASSUME provider = "responses", NEW i \in Indices, ArgumentsDone(i) PROVE ReaderInv'
  BY <1>5, CallEvents
<1>6. CASE /\ provider \in {"responses", "pi"}
           /\ \/ \E i \in Indices : CallDone(i)
              \/ provider = "responses" /\ \E more \in SUBSET Indices : ResponseCompleted(more)
  BY <1>6, WholeItems
<1>7. CASE EndOfStream \/ Fail \/ UNCHANGED streamVars
  <2>1. UNCHANGED <<provider, spoken, started, told, details, finish, text, calls, unmatched,
                    terminal>>
    BY <1>7 DEF EndOfStream, Fail, streamVars
  <2>2. /\ StreamTypes' /\ CallsTold' /\ Keyed' /\ unmatched' = details' \ Began'
        /\ (provider' # "openai" => details' = {})
        /\ Began' = Began /\ \A i \in Began : Whole(i)' <=> Whole(i)
    BY <2>1, CallsRest
  <2>3. toolCallsFromAccumulators' = toolCallsFromAccumulators /\ Unmarked' = Unmarked
    BY <2>1 DEF toolCallsFromAccumulators, Unmarked
  <2>4. connection' = "ended" =>
          /\ (completion = Completion(completion.error))' /\ completion'.error \in BOOLEAN
          /\ ~completion'.error => Unmarked' \/ terminal'
    <3>1. ASSUME NEW b \in BOOLEAN, completion' = Completion(b)
          PROVE  (completion = Completion(completion.error))' /\ completion'.error = b
      BY <2>1, <2>3, <3>1 DEF Completion
    <3>2. CASE EndOfStream
      <4>1. completion' = Completion(StreamError)
        BY <3>2 DEF EndOfStream
      <4>2. (StreamError \in BOOLEAN) /\ (~StreamError => Unmarked \/ terminal)
        BY Zenon DEF StreamError
      <4>3. (completion = Completion(completion.error))' /\ completion'.error = StreamError
        BY <3>1, <4>1, <4>2
      <4> QED
        BY <2>1, <2>3, <4>1, <4>2, <4>3
    <3>3. CASE Fail
      BY <3>1, <3>3 DEF Fail
    <3>4. CASE UNCHANGED streamVars
      <4>1. connection' = connection /\ completion' = completion
        BY <3>4 DEF streamVars
      <4>2. connection = "ended" => completion = Completion(completion.error)
                                    /\ completion.error \in BOOLEAN
                                    /\ (~completion.error => Unmarked \/ terminal)
        BY DEF ReaderInv
      <4> QED
        BY <2>1, <2>3, <4>1, <4>2 DEF Completion
    <3> QED
      BY <1>7, <3>2, <3>3, <3>4
  <2>5. text' = spoken' /\ (terminal' => finish' # "none")
        /\ (finish' \notin {"none", "length", "error"} => \A i \in Began' : Whole(i)')
    BY <2>1, <2>2 DEF ReaderInv
  <2> QED
    BY <2>2, <2>4, <2>5 DEF ReaderInv
<1> QED
  BY <1>1, <1>2, <1>3, <1>4, <1>5, <1>6, <1>7
     DEF StreamNext, openAIProvider, anthropicProvider, googleProvider, consumeBedrockStream,
         piMessagesProvider, responsesProvider, Ending

\* A completion without an error is all that the provider said, whatever it
\* sends, in whatever order and pieces, and wherever the connection ends
\* (Stream and onData of the providers, toolCallsFromAccumulators).
THEOREM CompletionsWhole == StreamSpec => []CompletionWhole
  BY StreamStarts, StreamSteps, WholeInTheEnd, PTL DEF StreamSpec

-----------------------------------------------------------------------------
(* Todos: the list a session restores.                                     *)

TodoItems   == [id : Nat, done : BOOLEAN]
TodoEntries == [parent : Nat, ok : BOOLEAN, array : Nat, next : Nat, list : Seq(TodoItems),
                shown : Seq(TodoItems), execution : Nat]

\* The numbers of a list are different ones, and next is free.
Numbered(list, next) ==
  \A k \in DOMAIN list :
    /\ list[k].id < next
    /\ \A j \in 1..(k - 1) : list[j].id # list[k].id

\* The list that a call left in the session is the one it reported, but for
\* marks that a later call of its execution changed and reported.
Alike(list, shown) ==
  Len(list) = Len(shown) /\ \A k \in DOMAIN shown : list[k].id = shown[k].id
Marked(of, i, k) ==
  \/ of[i].list[k].done = of[i].shown[k].done
  \/ \E j \in (i + 1)..Len(of) :
       of[j].execution = of[i].execution /\ of[i].list[k] \in ToSet(of[j].shown)
KeptEntry(of, i) ==
  /\ of[i].parent < i
  /\ Alike(of[i].list, of[i].shown) /\ Numbered(of[i].shown, of[i].next)
  /\ \A k \in DOMAIN of[i].shown : Marked(of, i, k)
KeptEntries(of) == of \in Seq(TodoEntries) /\ \A i \in DOMAIN of : KeptEntry(of, i)

\* What shares the array of the list is a prefix of it, of this execution.
SharesPrefix(e) ==
  /\ e.array <= array
  /\ e.array = array =>
       /\ e.execution = executions
       /\ Len(e.list) <= Len(todos) /\ \A k \in DOMAIN e.list : e.list[k] = todos[k]

TodoInv ==
  /\ todos \in Seq(TodoItems) /\ {nextTodo, array, executions} \subseteq Nat
  /\ callLeaf \in 0..Len(callEntries) /\ savedLeaf \in 0..Len(savedCalls)
  /\ Numbered(todos, nextTodo)
  /\ KeptEntries(callEntries) /\ KeptEntries(savedCalls)
  /\ \A i \in DOMAIN callEntries : SharesPrefix(callEntries[i])

LEMMA TodosStart == TodosInit => TodoInv
  BY DEF TodosInit, TodoInv, Numbered, KeptEntries

-----------------------------------------------------------------------------
\* f tells the entries on the path to each of the first n entries.
Paths(of, n, f) ==
  f = [i \in 0..n |-> IF i = 0 THEN {} ELSE f[of[i].parent] \cup {i}]

LEMMA PathsExist ==
  ASSUME NEW of, NEW L \in Nat, \A i \in 1..L : of[i].parent \in Nat /\ of[i].parent < i
  PROVE  \E f : Paths(of, L, f)
<1> DEFINE Gaps == {n \in 0..L : \A f : ~Paths(of, n, f)}
<1>1. SUFFICES ASSUME Gaps # {} PROVE FALSE
  BY DEF Gaps
<1>2. PICK n \in Gaps : \A m \in Gaps : n <= m
  <2>1. Gaps \in SUBSET Nat
    OBVIOUS
  <2> HIDE DEF Gaps
  <2> QED
    BY <1>1, <2>1, LeastNat
<1>3. n \in 0..L /\ \A f : ~Paths(of, n, f)
  BY <1>2
<1>4. CASE n = 0
  <2> DEFINE f == [i \in 0..0 |-> {}]
  <2>1. f = [i \in 0..0 |-> IF i = 0 THEN {} ELSE f[of[i].parent] \cup {i}]
    OBVIOUS
  <2>2. Paths(of, 0, f)
    BY <2>1 DEF Paths
  <2> HIDE DEF f
  <2> QED
    BY <1>3, <1>4, <2>2
<1>5. CASE n # 0
  <2>1. n \in Nat /\ n > 0 /\ n - 1 \in 0..L /\ n - 1 \notin Gaps
    BY <1>2, <1>3, <1>5
  <2>2. PICK f : Paths(of, n - 1, f)
    BY <2>1
  <2> DEFINE g == [i \in 0..n |-> IF i = n THEN f[of[n].parent] \cup {n} ELSE f[i]]
  <2>3. ASSUME NEW i \in 0..n
        PROVE  g[i] = IF i = 0 THEN {} ELSE g[of[i].parent] \cup {i}
    <3>1. i # 0 => of[i].parent \in 0..(n - 1) /\ of[i].parent < i /\ of[i].parent \in 0..n
      BY <1>3, <2>1
    <3>2. i # 0 => g[of[i].parent] = f[of[i].parent]
      BY <3>1, <2>1
    <3>3. CASE i = n
      BY <2>1, <3>2, <3>3
    <3>4. CASE i # n
      <4>1. i \in 0..(n - 1)
        BY <2>1, <3>4
      <4>2. f[i] = IF i = 0 THEN {} ELSE f[of[i].parent] \cup {i}
        BY <2>2, <4>1 DEF Paths
      <4> QED
        BY <3>2, <3>4, <4>2
    <3> QED
      BY <3>3, <3>4
  <2>4. g = [i \in 0..n |-> IF i = 0 THEN {} ELSE g[of[i].parent] \cup {i}]
    <3>1. g = [i \in 0..n |-> g[i]]
      OBVIOUS
    <3> HIDE DEF g
    <3> QED
      BY <2>3, <3>1
  <2>5. Paths(of, n, g)
    <3> HIDE DEF g
    <3> QED
      BY <2>4 DEF Paths
  <2> QED
    BY <1>3, <2>5
<1> QED
  BY <1>4, <1>5

\* The path to an entry ends with it.
LEMMA PathEnds ==
  ASSUME NEW of, NEW L \in Nat, \A i \in 1..L : of[i].parent \in Nat /\ of[i].parent < i,
         NEW f, Paths(of, L, f), NEW tip \in 0..L
  PROVE  f[tip] \subseteq 1..tip /\ (tip # 0 => tip \in f[tip])
<1> DEFINE Gaps == {n \in 0..L : ~(f[n] \subseteq 1..n)}
<1>1. ASSUME Gaps # {} PROVE FALSE
  <2>1. PICK n \in Gaps : \A m \in Gaps : n <= m
    <3>1. Gaps \in SUBSET Nat
      OBVIOUS
    <3> HIDE DEF Gaps
    <3> QED
      BY <1>1, <3>1, LeastNat
  <2>2. n \in 0..L /\ ~(f[n] \subseteq 1..n)
    OBVIOUS
  <2>3. n # 0
    BY <2>2 DEF Paths
  <2>4. n \in 1..L /\ of[n].parent \in 0..L /\ of[n].parent < n /\ of[n].parent \notin Gaps
    BY <2>1, <2>2, <2>3
  <2>5. f[of[n].parent] \subseteq 1..of[n].parent
    BY <2>4
  <2>6. f[n] = f[of[n].parent] \cup {n}
    BY <2>2, <2>3 DEF Paths
  <2>7. 1..of[n].parent \subseteq 1..n /\ n \in 1..n
    BY <2>4
  <2> QED
    BY <2>2, <2>5, <2>6, <2>7
<1>2. tip # 0 => tip \in f[tip]
  BY DEF Paths
<1> QED
  BY <1>1, <1>2

\* Every branch of the session has a last call, and a call is the last of the
\* branch it ends.
LEMMA RestoresLast ==
  ASSUME NEW of, KeptEntries(of), NEW tip \in 0..Len(of)
  PROVE  /\ \/ restoreTodos(of, tip) = [list |-> <<>>, next |-> 1]
            \/ \E i \in DOMAIN of :
                 restoreTodos(of, tip) = [list |-> of[i].list, next |-> of[i].next]
         /\ tip # 0 /\ of[tip].ok =>
              restoreTodos(of, tip) = [list |-> of[tip].list, next |-> of[tip].next]
<1> DEFINE P(f) == [i \in 0..Len(of) |-> IF i = 0 THEN {} ELSE f[of[i].parent] \cup {i}]
           branch == CHOOSE f : f = P(f)
           held == {i \in branch[tip] : of[i].ok}
           last == CHOOSE i \in held : \A j \in held : j <= i
<1>1. Len(of) \in Nat /\ DOMAIN of = 1..Len(of)
      /\ \A i \in 1..Len(of) : of[i].parent \in Nat /\ of[i].parent < i
  <2>1. of \in Seq(TodoEntries)
    BY DEF KeptEntries
  <2>2. Len(of) \in Nat /\ DOMAIN of = 1..Len(of)
    BY <2>1
  <2>3. \A i \in 1..Len(of) : of[i] \in TodoEntries
    BY <2>1
  <2> QED
    BY <2>2, <2>3 DEF KeptEntries, KeptEntry, TodoEntries
<1>2. Branch(of, tip) = held
  BY DEF Branch
<1>3. branch = P(branch)
  <2>1. \E f : f = P(f)
    BY <1>1, PathsExist DEF Paths
  <2> HIDE DEF P
  <2> QED
    BY <2>1
<1> HIDE DEF branch
<1>4. held \subseteq 1..tip /\ (tip # 0 /\ of[tip].ok => tip \in held)
  <2>1. Paths(of, Len(of), branch)
    BY <1>3 DEF Paths
  <2> QED
    BY <1>1, <2>1, PathEnds
<1> HIDE DEF held
<1>5. held # {} => last \in held /\ \A j \in held : j <= last
  <2> SUFFICES ASSUME held # {} PROVE \E i \in held : \A j \in held : j <= i
    OBVIOUS
  <2> DEFINE Rest == {tip - j : j \in held}
  <2>1. Rest \in SUBSET Nat /\ Rest # {}
    <3>1. tip \in Nat
      BY <1>1
    <3>2. ASSUME NEW j \in held PROVE tip - j \in Nat
      BY <1>4, <3>1
    <3> QED
      BY <3>2
  <2>2. PICK n \in Rest : \A m \in Rest : n <= m
    <3> HIDE DEF Rest
    <3> QED
      BY <2>1, LeastNat
  <2>3. PICK i \in held : n = tip - i
    BY <2>2
  <2>4. \A j \in held : tip - i <= tip - j
    BY <2>2, <2>3
  <2> QED
    BY <1>4, <2>3, <2>4
<1> HIDE DEF last
<1>6. restoreTodos(of, tip) = IF held = {} THEN [list |-> <<>>, next |-> 1]
                              ELSE [list |-> of[last].list, next |-> of[last].next]
  BY <1>2 DEF restoreTodos, last
<1>7. held # {} => last \in 1..tip
  BY <1>4, <1>5
<1>8. 1..tip \subseteq DOMAIN of
  BY <1>1
<1>9. tip # 0 /\ of[tip].ok => held # {} /\ last = tip
  <2> SUFFICES ASSUME tip # 0, of[tip].ok PROVE held # {} /\ last = tip
    OBVIOUS
  <2>1. tip \in held
    BY <1>4
  <2>2. tip <= last
    BY <1>5, <2>1
  <2> QED
    BY <1>7, <2>1, <2>2
<1> QED
  BY <1>6, <1>7, <1>8, <1>9

\* What a call adds to the session, the marks it changed in earlier ones
\* included.
LEMMA EntryAdded ==
  ASSUME NEW s \in Seq(TodoEntries), NEW e \in TodoEntries, e.parent \in 0..Len(s),
         e.list = e.shown, Numbered(e.shown, e.next),
         \A i \in DOMAIN s :
           /\ s[i].parent < i /\ Alike(s[i].list, s[i].shown)
           /\ Numbered(s[i].shown, s[i].next)
           /\ \A k \in DOMAIN s[i].shown :
                \/ Marked(s, i, k)
                \/ e.execution = s[i].execution /\ s[i].list[k] \in ToSet(e.shown)
  PROVE  KeptEntries(Append(s, e)) /\ Len(Append(s, e)) = Len(s) + 1
<1> DEFINE of == Append(s, e)
           n == Len(s)
<1>1. /\ of \in Seq(TodoEntries) /\ Len(of) = n + 1 /\ DOMAIN of = 1..(n + 1) /\ n \in Nat
      /\ DOMAIN s = 1..n /\ of[n + 1] = e /\ \A i \in 1..n : of[i] = s[i]
  OBVIOUS
<1> HIDE DEF of, n
<1>2. KeptEntry(of, n + 1)
  <2>1. e.parent < n + 1
    BY <1>1 DEF n
  <2> QED
    BY <1>1, <2>1 DEF KeptEntry, Alike, Marked
<1>3. ASSUME NEW i \in 1..n PROVE KeptEntry(of, i)
  <2>1. ASSUME NEW k \in DOMAIN s[i].shown PROVE Marked(of, i, k)
    <3>1. CASE Marked(s, i, k)
      <4>1. CASE s[i].list[k].done = s[i].shown[k].done
        BY <1>1, <4>1 DEF Marked
      <4>2. ASSUME NEW j \in (i + 1)..Len(s), s[j].execution = s[i].execution,
                   s[i].list[k] \in ToSet(s[j].shown)
            PROVE  Marked(of, i, k)
        <5>1. j \in 1..n /\ j \in (i + 1)..Len(of)
          BY <1>1, <4>2 DEF n
        <5>2. of[j] = s[j] /\ of[i] = s[i]
          BY <1>1, <5>1
        <5> QED
          BY <4>2, <5>1, <5>2 DEF Marked
      <4> QED
        BY <3>1, <4>1, <4>2 DEF Marked
    <3>2. CASE e.execution = s[i].execution /\ s[i].list[k] \in ToSet(e.shown)
      <4>1. n + 1 \in (i + 1)..Len(of) /\ of[n + 1] = e /\ of[i] = s[i]
        BY <1>1
      <4> QED
        BY <3>2, <4>1 DEF Marked
    <3> QED
      BY <1>1, <3>1, <3>2
  <2>2. of[i] = s[i] /\ i \in DOMAIN s
    BY <1>1
  <2> QED
    BY <2>1, <2>2 DEF KeptEntry
<1>4. KeptEntries(of)
  <2>1. \A i \in 1..(n + 1) : i \in 1..n \/ i = n + 1
    BY <1>1
  <2> QED
    BY <1>1, <1>2, <1>3, <2>1 DEF KeptEntries
<1> QED
  BY <1>1, <1>4 DEF of, n

LEMMA TogglesMarks ==
  ASSUME NEW list \in Seq(TodoItems), NEW id
  PROVE  /\ Toggled(list, id) \in Seq(TodoItems) /\ Len(Toggled(list, id)) = Len(list)
         /\ DOMAIN Toggled(list, id) = DOMAIN list
         /\ \A k \in DOMAIN list : Toggled(list, id)[k].id = list[k].id
<1>1. \A k \in DOMAIN list : list[k] \in TodoItems
  OBVIOUS
<1>2. \A x \in TodoItems : [x EXCEPT !.done = ~@] \in TodoItems /\ [x EXCEPT !.done = ~@].id = x.id
  BY DEF TodoItems
<1>3. DOMAIN list = 1..Len(list) /\ Len(list) \in Nat
  OBVIOUS
<1>4. \A k \in 1..Len(list) : Toggled(list, id)[k] \in TodoItems
  BY <1>1, <1>2, <1>3 DEF Toggled
<1>5. Toggled(list, id) = [k \in 1..Len(list) |-> Toggled(list, id)[k]]
  BY <1>3 DEF Toggled
<1>6. Toggled(list, id) \in [1..Len(list) -> TodoItems]
  BY <1>4, <1>5
<1>7. Toggled(list, id) \in Seq(TodoItems) /\ Len(Toggled(list, id)) = Len(list)
  BY <1>3, <1>6
<1> QED
  BY <1>1, <1>2, <1>3, <1>7 DEF Toggled

-----------------------------------------------------------------------------
\* The actions that do not touch what calls left.
LEMMA RecordKeeps ==
  ASSUME TodoInv, NEW list, NEW ok \in BOOLEAN, Record(list, ok),
         todos' \in Seq(TodoItems), nextTodo' \in Nat, array' \in Nat, array <= array',
         Numbered(todos', nextTodo'),
         list = todos' \/ list = <<>>,
         array' = array =>
           Len(todos) <= Len(todos') /\ \A k \in DOMAIN todos : todos'[k] = todos[k]
  PROVE  TodoInv'
<1> DEFINE e == [parent |-> callLeaf, ok |-> ok, array |-> array', next |-> nextTodo',
                 list |-> list, shown |-> list, execution |-> executions]
<1>1. callEntries' = Append(callEntries, e) /\ callLeaf' = Len(callEntries')
      /\ UNCHANGED <<savedCalls, savedLeaf, executions>>
  BY DEF Record
<1>2. list \in Seq(TodoItems) /\ Numbered(list, nextTodo')
  <2>1. CASE list = <<>>
    <3>1. list \in Seq(TodoItems) /\ DOMAIN list = {}
      BY <2>1
    <3> QED
      BY <3>1 DEF Numbered
  <2> QED
    BY <2>1
<1>3. e \in TodoEntries /\ callEntries \in Seq(TodoEntries)
  BY <1>2 DEF TodoInv, KeptEntries, TodoEntries
<1>4. e.parent \in 0..Len(callEntries) /\ e.list = e.shown /\ Numbered(e.shown, e.next)
  BY <1>2 DEF TodoInv
<1>5. KeptEntries(callEntries') /\ Len(callEntries') = Len(callEntries) + 1
  <2> HIDE DEF e
  <2> QED
    BY <1>1, <1>3, <1>4, EntryAdded DEF TodoInv, KeptEntries, KeptEntry
<1>6. ASSUME NEW i \in DOMAIN callEntries' PROVE SharesPrefix(callEntries[i])'
  <2>1. CASE callEntries'[i] = e
    <3>1. Len(list) <= Len(todos') /\ \A k \in DOMAIN list : list[k] = todos'[k]
      BY <1>2
    <3>2. e.array = array' /\ e.list = list /\ e.execution = executions'
      BY <1>1
    <3> HIDE DEF e
    <3> QED
      BY <2>1, <3>1, <3>2 DEF SharesPrefix
  <2>2. CASE i \in DOMAIN callEntries /\ callEntries'[i] = callEntries[i]
    <3>1. callEntries[i] \in TodoEntries /\ callEntries[i].list \in Seq(TodoItems)
          /\ callEntries[i].array \in Nat
      <4>1. callEntries[i] \in TodoEntries
        BY <1>3, <2>2
      <4> QED
        BY <4>1 DEF TodoEntries
    <3>2. callEntries[i].array <= array /\ array \in Nat /\ todos \in Seq(TodoItems)
      BY <2>2 DEF TodoInv, SharesPrefix
    <3>3. CASE array' = array /\ callEntries[i].array = array
      <4>1. callEntries[i].execution = executions /\ Len(callEntries[i].list) <= Len(todos)
            /\ \A k \in DOMAIN callEntries[i].list : callEntries[i].list[k] = todos[k]
        BY <2>2, <3>3 DEF TodoInv, SharesPrefix
      <4>2. Len(todos) <= Len(todos') /\ \A k \in DOMAIN todos : todos'[k] = todos[k]
        BY <3>3
      <4>3. DOMAIN callEntries[i].list \subseteq DOMAIN todos
        BY <3>1, <3>2, <4>1
      <4>4. Len(callEntries[i].list) <= Len(todos')
        BY <3>1, <3>2, <4>1, <4>2
      <4>5. \A k \in DOMAIN callEntries[i].list : callEntries[i].list[k] = todos'[k]
        BY <4>1, <4>2, <4>3
      <4>6. callEntries[i].array <= array' /\ executions' = executions
        BY <1>1, <3>2, <3>3
      <4>7. callEntries'[i] = callEntries[i]
        BY <2>2
      <4> HIDE DEF e
      <4> QED
        BY <4>1, <4>4, <4>5, <4>6, <4>7 DEF SharesPrefix
    <3>4. CASE ~(array' = array /\ callEntries[i].array = array)
      <4>1. callEntries[i].array < array' \/ callEntries[i].array = array
        BY <3>1, <3>2
      <4>2. callEntries[i].array < array'
        BY <3>1, <3>2, <3>4
      <4> QED
        BY <2>2, <3>1, <4>2 DEF SharesPrefix
    <3> QED
      BY <3>3, <3>4
  <2>3. callEntries'[i] = e \/ (i \in DOMAIN callEntries /\ callEntries'[i] = callEntries[i])
    <3> HIDE DEF e
    <3> QED
      BY <1>1, <1>3
  <2> QED
    BY <2>1, <2>2, <2>3
<1>7. callLeaf' \in 0..Len(callEntries') /\ executions' \in Nat
  BY <1>1, <1>3, <1>5 DEF TodoInv
<1>8. KeptEntries(savedCalls)' /\ savedLeaf' \in 0..Len(savedCalls')
  BY <1>1 DEF TodoInv, KeptEntries, KeptEntry, Marked
<1> HIDE DEF e
<1> QED
  BY <1>5, <1>6, <1>7, <1>8 DEF TodoInv, KeptEntries, KeptEntry, Marked

LEMMA TogglePreserves ==
  ASSUME TodoInv, NEW id \in 1..MaxTodos, ToggleTodo(id)
  PROVE  TodoInv'
<1> DEFINE shares(i) == callEntries[i].array = array
           s == [i \in DOMAIN callEntries |->
                   IF callEntries[i].array = array
                   THEN [callEntries[i] EXCEPT !.list = Toggled(@, id)] ELSE callEntries[i]]
           e == [parent |-> callLeaf, ok |-> TRUE, array |-> array,
                 next |-> nextTodo, list |-> todos', shown |-> todos', execution |-> executions]
           n == Len(callEntries)
<1>1. /\ todos' = Toggled(todos, id) /\ callEntries' = Append(s, e)
      /\ callLeaf' = Len(callEntries')
      /\ UNCHANGED <<nextTodo, array, savedCalls, savedLeaf, executions>>
  BY DEF ToggleTodo
<1>2. /\ callEntries \in Seq(TodoEntries) /\ DOMAIN callEntries = 1..n /\ n \in Nat
      /\ todos \in Seq(TodoItems) /\ nextTodo \in Nat /\ array \in Nat /\ executions \in Nat
      /\ callLeaf \in 0..n
  <2>1. callEntries \in Seq(TodoEntries)
    BY DEF TodoInv, KeptEntries
  <2> QED
    BY <2>1 DEF TodoInv
<1>3. \A i \in 1..n : callEntries[i] \in TodoEntries /\ callEntries[i].list \in Seq(TodoItems)
  <2>1. \A x \in TodoEntries : x.list \in Seq(TodoItems)
    BY DEF TodoEntries
  <2> QED
    BY <1>2, <2>1
<1>4. \A i \in 1..n :
        /\ s[i] \in TodoEntries
        /\ s[i].list = IF shares(i) THEN Toggled(callEntries[i].list, id) ELSE callEntries[i].list
        /\ s[i].parent = callEntries[i].parent /\ s[i].shown = callEntries[i].shown
        /\ s[i].next = callEntries[i].next /\ s[i].execution = callEntries[i].execution
        /\ s[i].array = callEntries[i].array
  <2>1. \A x \in TodoEntries, l \in Seq(TodoItems) :
          LET y == [x EXCEPT !.list = l] IN
            /\ y \in TodoEntries /\ y.list = l /\ y.parent = x.parent /\ y.shown = x.shown
            /\ y.next = x.next /\ y.execution = x.execution /\ y.array = x.array
    BY DEF TodoEntries
  <2>2. \A i \in 1..n : Toggled(callEntries[i].list, id) \in Seq(TodoItems)
    BY <1>3, TogglesMarks
  <2>3. \A i \in 1..n : s[i] = IF shares(i)
                               THEN [callEntries[i] EXCEPT
                                       !.list = Toggled(callEntries[i].list, id)]
                               ELSE callEntries[i]
    BY <1>2
  <2> HIDE DEF s
  <2> SUFFICES ASSUME NEW i \in 1..n
               PROVE  /\ s[i] \in TodoEntries
                      /\ s[i].list = IF shares(i) THEN Toggled(callEntries[i].list, id)
                                     ELSE callEntries[i].list
                      /\ s[i].parent = callEntries[i].parent /\ s[i].shown = callEntries[i].shown
                      /\ s[i].next = callEntries[i].next
                      /\ s[i].execution = callEntries[i].execution
                      /\ s[i].array = callEntries[i].array
    OBVIOUS
  <2>4. CASE shares(i)
    <3>1. s[i] = [callEntries[i] EXCEPT !.list = Toggled(callEntries[i].list, id)]
      BY <2>3, <2>4
    <3>2. callEntries[i] \in TodoEntries /\ Toggled(callEntries[i].list, id) \in Seq(TodoItems)
      BY <1>3, <2>2
    <3> QED
      BY <2>1, <2>4, <3>1, <3>2
  <2>5. CASE ~shares(i)
    BY <1>3, <2>3, <2>5
  <2> QED
    BY <2>4, <2>5
<1>5. s \in Seq(TodoEntries) /\ Len(s) = n /\ DOMAIN s = 1..n
  <2>1. s = [i \in 1..n |-> s[i]]
    BY <1>2
  <2> HIDE DEF s
  <2>2. s \in [1..n -> TodoEntries]
    BY <1>4, <2>1
  <2> QED
    BY <1>2, <2>2
<1>6. todos' \in Seq(TodoItems) /\ Len(todos') = Len(todos) /\ DOMAIN todos' = DOMAIN todos
      /\ \A k \in DOMAIN todos : todos'[k].id = todos[k].id
  <2>1. todos \in Seq(TodoItems)
    BY <1>2
  <2> QED
    BY ONLY <1>1, <2>1, TogglesMarks
<1>7. Numbered(todos', nextTodo)
  <2>1. Numbered(todos, nextTodo)
    BY DEF TodoInv
  <2>2. \A k \in DOMAIN todos : \A j \in 1..(k - 1) : j \in DOMAIN todos
    BY <1>2
  <2> QED
    BY <1>6, <2>1, <2>2 DEF Numbered
<1> HIDE DEF s
<1>8. ASSUME NEW i \in 1..n
      PROVE  /\ s[i].parent < i /\ Alike(s[i].list, s[i].shown)
             /\ Numbered(s[i].shown, s[i].next)
             /\ \A k \in DOMAIN s[i].shown :
                  \/ Marked(s, i, k)
                  \/ executions = s[i].execution /\ s[i].list[k] \in ToSet(todos')
  <2>1. KeptEntry(callEntries, i) /\ SharesPrefix(callEntries[i])
    BY <1>2 DEF TodoInv, KeptEntries
  <2>2. /\ callEntries[i].list \in Seq(TodoItems) /\ callEntries[i].shown \in Seq(TodoItems)
        /\ Len(callEntries[i].list) = Len(callEntries[i].shown)
        /\ DOMAIN callEntries[i].list = DOMAIN callEntries[i].shown
    <3>1. callEntries[i].list \in Seq(TodoItems) /\ callEntries[i].shown \in Seq(TodoItems)
      BY <1>3 DEF TodoEntries
    <3> QED
      BY <2>1, <3>1 DEF KeptEntry, Alike
  <2>3. Alike(s[i].list, s[i].shown)
    <3>1. Len(Toggled(callEntries[i].list, id)) = Len(callEntries[i].list)
          /\ \A k \in DOMAIN callEntries[i].list :
               Toggled(callEntries[i].list, id)[k].id = callEntries[i].list[k].id
      BY ONLY <2>2, TogglesMarks
    <3> QED
      BY <1>4, <2>1, <2>2, <3>1 DEF KeptEntry, Alike
  <2>4. ASSUME NEW k \in DOMAIN s[i].shown
        PROVE  \/ Marked(s, i, k)
               \/ executions = s[i].execution /\ s[i].list[k] \in ToSet(todos')
    <3>1. k \in DOMAIN callEntries[i].list /\ k \in DOMAIN callEntries[i].shown
      BY <1>4, <2>2
    <3>2. CASE s[i].list[k] = callEntries[i].list[k]
      <4>1. Marked(callEntries, i, k)
        BY <2>1, <3>1 DEF KeptEntry
      <4>2. ASSUME NEW j \in (i + 1)..Len(callEntries) PROVE j \in 1..n /\ j \in (i + 1)..Len(s)
        BY <1>2, <1>5
      <4>3. \A j \in 1..n : s[j].execution = callEntries[j].execution
                             /\ s[j].shown = callEntries[j].shown
        BY <1>4
      <4> QED
        BY <3>2, <4>1, <4>2, <4>3 DEF Marked
    <3>3. CASE s[i].list[k] # callEntries[i].list[k]
      <4>1. shares(i) /\ s[i].list = Toggled(callEntries[i].list, id)
        BY <1>4, <3>3
      <4>3. callEntries[i].execution = executions
            /\ Len(callEntries[i].list) <= Len(todos) /\ callEntries[i].list[k] = todos[k]
        BY <2>1, <3>1, <4>1 DEF SharesPrefix
      <4>4. k \in DOMAIN todos
        BY <1>2, <2>2, <3>1, <4>3
      <4>5. todos'[k] = s[i].list[k]
        <5> DEFINE flip(x) == IF x.id = id THEN [x EXCEPT !.done = ~@] ELSE x
        <5>1. todos'[k] = flip(todos[k]) /\ s[i].list[k] = flip(callEntries[i].list[k])
          BY <1>1, <3>1, <4>1, <4>4 DEF Toggled
        <5> HIDE DEF flip
        <5> QED
          BY <4>3, <5>1
      <4>6. s[i].list[k] \in ToSet(todos')
        BY <1>6, <4>4, <4>5 DEF ToSet
      <4> QED
        BY <1>4, <4>3, <4>6
    <3> QED
      BY <3>2, <3>3
  <2> QED
    BY <1>4, <2>1, <2>3, <2>4 DEF KeptEntry
<1>9. e \in TodoEntries /\ e.parent \in 0..Len(s) /\ e.list = e.shown
      /\ Numbered(e.shown, e.next) /\ e.shown = todos' /\ e.execution = executions
      /\ e.array = array /\ e.list = todos'
  BY <1>2, <1>5, <1>6, <1>7 DEF TodoEntries
<1> HIDE DEF e
<1>10. KeptEntries(Append(s, e)) /\ Len(Append(s, e)) = n + 1
  BY <1>5, <1>8, <1>9, EntryAdded
<1>11. ASSUME NEW i \in DOMAIN callEntries' PROVE SharesPrefix(callEntries[i])'
  <2>1. CASE callEntries'[i] = e
    BY <1>1, <1>2, <1>6, <1>9, <2>1 DEF SharesPrefix
  <2>2. CASE i \in 1..n /\ callEntries'[i] = s[i]
    <3>1. /\ callEntries[i].list \in Seq(TodoItems)
          /\ s[i].array = callEntries[i].array /\ s[i].execution = callEntries[i].execution
          /\ SharesPrefix(callEntries[i])
      BY <1>2, <1>3, <1>4, <2>2 DEF TodoInv
    <3>2. CASE ~shares(i)
      BY <1>1, <2>2, <3>1, <3>2 DEF SharesPrefix
    <3>3. CASE shares(i)
      <4>1. s[i].list = Toggled(callEntries[i].list, id)
        BY <1>4, <2>2, <3>3
      <4>2. /\ callEntries[i].execution = executions
            /\ Len(callEntries[i].list) <= Len(todos)
            /\ \A k \in DOMAIN callEntries[i].list : callEntries[i].list[k] = todos[k]
        BY <3>1, <3>3 DEF SharesPrefix
      <4>3. Len(s[i].list) = Len(callEntries[i].list)
            /\ DOMAIN s[i].list = DOMAIN callEntries[i].list
        BY <3>1, <4>1, TogglesMarks
      <4>4. ASSUME NEW k \in DOMAIN callEntries[i].list PROVE s[i].list[k] = todos'[k]
        <5>1. k \in DOMAIN todos
          BY <1>2, <3>1, <4>2
        <5>2. callEntries[i].list[k] = todos[k]
          BY <4>2
        <5> QED
          BY ONLY <1>1, <4>1, <4>4, <5>1, <5>2 DEF Toggled
      <4> QED
        BY <1>1, <1>6, <2>2, <3>1, <3>3, <4>2, <4>3, <4>4 DEF SharesPrefix
    <3> QED
      BY <3>2, <3>3
  <2>3. callEntries'[i] = e \/ (i \in 1..n /\ callEntries'[i] = s[i])
    BY <1>1, <1>5, <1>9
  <2> QED
    BY <2>1, <2>2, <2>3
<1>12. KeptEntries(savedCalls)' /\ savedLeaf' \in 0..Len(savedCalls')
  BY <1>1 DEF TodoInv, KeptEntries, KeptEntry, Marked
<1>13. /\ todos' \in Seq(TodoItems) /\ {nextTodo', array', executions'} \subseteq Nat
       /\ callLeaf' \in 0..Len(callEntries') /\ KeptEntries(callEntries)'
       /\ Numbered(todos, nextTodo)'
  <2>1. callLeaf' \in 0..Len(callEntries')
    BY <1>1, <1>2, <1>10
  <2>2. KeptEntries(callEntries)'
    BY <1>1, <1>10 DEF KeptEntries, KeptEntry, Marked
  <2>3. Numbered(todos, nextTodo)'
    BY <1>1, <1>7 DEF Numbered
  <2> QED
    BY <1>1, <1>2, <1>6, <2>1, <2>2, <2>3
<1> QED
  BY <1>11, <1>12, <1>13 DEF TodoInv

LEMMA BeginRunPreserves ==
  ASSUME TodoInv, BeginRun
  PROVE  TodoInv'
<1> DEFINE restored == restoreTodos(savedCalls, savedLeaf)
           s == [i \in DOMAIN savedCalls |-> [savedCalls[i] EXCEPT !.array = 0]]
           n == Len(savedCalls)
<1>1. /\ executions' = executions + 1 /\ array' = 1
      /\ todos' = restored.list /\ nextTodo' = restored.next
      /\ callEntries' = s /\ callLeaf' = savedLeaf
      /\ UNCHANGED <<savedCalls, savedLeaf>>
  BY DEF BeginRun
<1>2. /\ savedCalls \in Seq(TodoEntries) /\ DOMAIN savedCalls = 1..n /\ n \in Nat
      /\ savedLeaf \in 0..n /\ executions \in Nat
      /\ \A i \in 1..n : savedCalls[i] \in TodoEntries /\ KeptEntry(savedCalls, i)
  <2>1. savedCalls \in Seq(TodoEntries)
    BY DEF TodoInv, KeptEntries
  <2> QED
    BY <2>1 DEF TodoInv, KeptEntries
<1>3. restored.list \in Seq(TodoItems) /\ restored.next \in Nat
      /\ Numbered(restored.list, restored.next)
  <2>1. CASE restored = [list |-> <<>>, next |-> 1]
    <3>1. restored.list = <<>> /\ restored.next = 1
      BY <2>1
    <3> HIDE DEF restored
    <3>2. restored.list \in Seq(TodoItems) /\ DOMAIN restored.list = {}
      BY <3>1
    <3> QED
      BY <3>1, <3>2 DEF Numbered
  <2>2. ASSUME NEW i \in 1..n, restored = [list |-> savedCalls[i].list, next |-> savedCalls[i].next]
        PROVE  restored.list \in Seq(TodoItems) /\ restored.next \in Nat
               /\ Numbered(restored.list, restored.next)
    <3>1. restored.list = savedCalls[i].list /\ restored.next = savedCalls[i].next
      BY <2>2
    <3> HIDE DEF restored
    <3>2. savedCalls[i].list \in Seq(TodoItems) /\ savedCalls[i].shown \in Seq(TodoItems)
          /\ savedCalls[i].next \in Nat
      BY <1>2 DEF TodoEntries
    <3>3. Alike(savedCalls[i].list, savedCalls[i].shown)
          /\ Numbered(savedCalls[i].shown, savedCalls[i].next)
      BY <1>2 DEF KeptEntry
    <3>4. DOMAIN savedCalls[i].list = DOMAIN savedCalls[i].shown
      BY <3>2, <3>3 DEF Alike
    <3>5. \A k \in DOMAIN savedCalls[i].shown :
                         \A j \in 1..(k - 1) : j \in DOMAIN savedCalls[i].shown
      BY <3>2
    <3> QED
      BY <3>1, <3>2, <3>3, <3>4, <3>5 DEF Alike, Numbered
  <2>3. KeptEntries(savedCalls)
    BY DEF TodoInv
  <2> HIDE DEF restored
  <2> QED
    BY <1>2, <2>1, <2>2, <2>3, RestoresLast DEF restored
<1>4. \A i \in 1..n :
        /\ s[i] \in TodoEntries /\ s[i].array = 0 /\ s[i].list = savedCalls[i].list
        /\ s[i].parent = savedCalls[i].parent /\ s[i].shown = savedCalls[i].shown
        /\ s[i].next = savedCalls[i].next /\ s[i].execution = savedCalls[i].execution
  <2> SUFFICES ASSUME NEW i \in 1..n, NEW x \in TodoEntries, x = savedCalls[i]
               PROVE  /\ s[i] \in TodoEntries /\ s[i].array = 0 /\ s[i].list = x.list
                      /\ s[i].parent = x.parent /\ s[i].shown = x.shown
                      /\ s[i].next = x.next /\ s[i].execution = x.execution
    BY <1>2
  <2>1. s[i] = [x EXCEPT !.array = 0]
    BY <1>2
  <2> HIDE DEF s
  <2> QED
    BY SMTT(30), <2>1 DEF TodoEntries
<1>5. s \in Seq(TodoEntries) /\ Len(s) = n /\ DOMAIN s = 1..n
  <2>1. s = [i \in 1..n |-> s[i]]
    BY <1>2
  <2> HIDE DEF s
  <2>2. s \in [1..n -> TodoEntries]
    BY <1>4, <2>1
  <2> QED
    BY <1>2, <2>2
<1> HIDE DEF s, restored
<1>6. KeptEntries(s)
  <2> SUFFICES ASSUME NEW i \in 1..n PROVE KeptEntry(s, i)
    BY <1>5 DEF KeptEntries
  <2>1. ASSUME NEW k \in DOMAIN s[i].shown PROVE Marked(s, i, k)
    <3>1. Marked(savedCalls, i, k)
      BY <1>2, <1>4 DEF KeptEntry
    <3>2. ASSUME NEW j \in (i + 1)..Len(savedCalls) PROVE j \in 1..n /\ j \in (i + 1)..Len(s)
      BY <1>2, <1>5
    <3> QED
      BY <1>4, <3>1, <3>2 DEF Marked
  <2> QED
    BY <1>2, <1>4, <2>1 DEF KeptEntry
<1>7. ASSUME NEW i \in DOMAIN callEntries' PROVE SharesPrefix(callEntries[i])'
  <2>1. callEntries'[i].array = 0 /\ array' = 1
    BY <1>1, <1>4, <1>5
  <2> QED
    BY <2>1 DEF SharesPrefix
<1>8. /\ KeptEntries(savedCalls)' /\ savedLeaf' \in 0..Len(savedCalls')
      /\ KeptEntries(callEntries)' /\ callLeaf' \in 0..Len(callEntries')
  <2>1. KeptEntries(savedCalls)'
    BY <1>1 DEF TodoInv, KeptEntries, KeptEntry, Marked
  <2>2. KeptEntries(callEntries)'
    BY <1>1, <1>6 DEF KeptEntries, KeptEntry, Marked
  <2> QED
    BY <1>1, <1>2, <1>5, <2>1, <2>2
<1>9. Numbered(todos, nextTodo)'
  BY <1>1, <1>3 DEF Numbered
<1> QED
  BY <1>1, <1>2, <1>3, <1>7, <1>8, <1>9 DEF TodoInv

LEMMA AddTodoPreserves ==
  ASSUME TodoInv, NEW moved \in BOOLEAN, AddTodo(moved)
  PROVE  TodoInv'
<1> DEFINE item == [id |-> nextTodo, done |-> FALSE]
<1>1. /\ todos' = Append(todos, item) /\ nextTodo' = nextTodo + 1
      /\ array' = (IF moved THEN array + 1 ELSE array) /\ Record(todos', TRUE)
  BY DEF AddTodo
<1>2. todos \in Seq(TodoItems) /\ nextTodo \in Nat /\ array \in Nat /\ item \in TodoItems
      /\ item.id = nextTodo
  BY DEF TodoInv, TodoItems
<1> HIDE DEF item
<1>3. /\ todos' \in Seq(TodoItems) /\ Len(todos') = Len(todos) + 1
      /\ DOMAIN todos' = 1..(Len(todos) + 1) /\ DOMAIN todos = 1..Len(todos) /\ Len(todos) \in Nat
      /\ todos'[Len(todos) + 1] = item /\ \A k \in DOMAIN todos : todos'[k] = todos[k]
  BY <1>1, <1>2
<1>4. \A k \in DOMAIN todos : todos[k].id \in Nat
  <2>1. \A k \in DOMAIN todos : todos[k] \in TodoItems
    BY <1>2
  <2> QED
    BY <2>1 DEF TodoItems
<1>5. Numbered(todos', nextTodo')
  <2>1. Numbered(todos, nextTodo)
    BY DEF TodoInv
  <2> SUFFICES ASSUME NEW k \in 1..(Len(todos) + 1)
               PROVE  /\ todos'[k].id < nextTodo'
                      /\ \A j \in 1..(k - 1) : todos'[j].id # todos'[k].id
    BY <1>3 DEF Numbered
  <2>2. CASE k = Len(todos) + 1
    <3>1. \A j \in 1..(k - 1) : j \in DOMAIN todos
      BY <1>3, <2>2
    <3>2. \A j \in DOMAIN todos : todos[j].id < nextTodo
      BY <2>1 DEF Numbered
    <3> QED
      BY <1>1, <1>2, <1>3, <1>4, <2>2, <3>1, <3>2
  <2>3. CASE k \in DOMAIN todos
    <3>1. todos[k].id < nextTodo /\ \A j \in 1..(k - 1) : todos[j].id # todos[k].id
      BY <2>1, <2>3 DEF Numbered
    <3>2. \A j \in 1..(k - 1) : j \in DOMAIN todos
      BY <1>3, <2>3
    <3> QED
      BY <1>1, <1>2, <1>3, <1>4, <2>3, <3>1, <3>2
  <2> QED
    BY <1>3, <2>2, <2>3
<1>6. array' \in Nat /\ array <= array' /\ nextTodo' \in Nat /\ Len(todos) <= Len(todos')
  BY <1>1, <1>2, <1>3
<1> QED
  BY <1>1, <1>3, <1>5, <1>6, RecordKeeps

LEMMA TodosStep == TodoInv /\ [TodosNext]_todoVars => TodoInv'
<1> SUFFICES ASSUME TodoInv, [TodosNext]_todoVars PROVE TodoInv'
  OBVIOUS
<1>1. todos \in Seq(TodoItems) /\ nextTodo \in Nat /\ array \in Nat /\ Numbered(todos, nextTodo)
      /\ Len(todos) \in Nat
  BY DEF TodoInv
<1>2. CASE BeginRun
  BY <1>2, BeginRunPreserves
<1>3. ASSUME NEW moved \in BOOLEAN, AddTodo(moved) PROVE TodoInv'
  BY <1>3, AddTodoPreserves
<1>4. ASSUME NEW id \in 1..MaxTodos, ToggleTodo(id) PROVE TodoInv'
  BY <1>4, TogglePreserves
<1>5. CASE ClearTodos
  <2>1. todos' = <<>> /\ nextTodo' = 1 /\ array' = array + 1 /\ Record(<<>>, TRUE)
    BY <1>5 DEF ClearTodos
  <2>2. todos' \in Seq(TodoItems) /\ DOMAIN todos' = {}
    BY <2>1
  <2>3. Numbered(todos', nextTodo')
    BY <2>2 DEF Numbered
  <2>4. array' \in Nat /\ array <= array' /\ array' # array /\ nextTodo' \in Nat
    BY <1>1, <2>1
  <2> QED
    BY <2>1, <2>2, <2>3, <2>4, RecordKeeps
<1>6. CASE ListTodos \/ FailCall
  <2>1. UNCHANGED <<todos, nextTodo, array>> /\ (Record(todos, TRUE) \/ Record(<<>>, FALSE))
    BY <1>6 DEF ListTodos, FailCall
  <2>2. /\ todos' \in Seq(TodoItems) /\ nextTodo' \in Nat /\ array' \in Nat /\ array <= array'
        /\ Numbered(todos', nextTodo') /\ Len(todos) <= Len(todos')
        /\ \A k \in DOMAIN todos : todos'[k] = todos[k]
    BY <1>1, <2>1
  <2>3. CASE Record(todos, TRUE)
    BY <2>1, <2>2, <2>3, RecordKeeps
  <2>4. CASE Record(<<>>, FALSE)
    BY <2>2, <2>4, RecordKeeps
  <2> QED
    BY <2>1, <2>3, <2>4
<1>7. CASE snapshot \/ EndRun
  <2>1. savedCalls' = callEntries /\ savedLeaf' = callLeaf
        /\ UNCHANGED <<todos, nextTodo, array, callEntries, callLeaf, executions>>
    BY <1>7 DEF snapshot, EndRun
  <2> QED
    BY <2>1 DEF TodoInv, Numbered, KeptEntries, KeptEntry, Marked, SharesPrefix
<1>8. CASE LoseRun \/ UNCHANGED todoVars
  <2>1. UNCHANGED <<todos, nextTodo, array, callEntries, callLeaf, savedCalls, savedLeaf,
                    executions>>
    BY <1>8 DEF LoseRun, todoVars
  <2> QED
    BY <2>1 DEF TodoInv, Numbered, KeptEntries, KeptEntry, Marked, SharesPrefix
<1>9. ASSUME NEW tip \in DOMAIN savedCalls, NavigateTo(tip) PROVE TodoInv'
  <2>1. savedLeaf' = tip
        /\ UNCHANGED <<todos, nextTodo, array, callEntries, callLeaf, savedCalls, executions>>
    BY <1>9 DEF NavigateTo
  <2>2. tip \in 0..Len(savedCalls)
    <3>1. savedCalls \in Seq(TodoEntries)
      BY DEF TodoInv, KeptEntries
    <3> QED
      BY <3>1
  <2> QED
    BY <2>1, <2>2 DEF TodoInv, Numbered, KeptEntries, KeptEntry, Marked, SharesPrefix
<1> QED
  BY <1>2, <1>3, <1>4, <1>5, <1>6, <1>7, <1>8, <1>9 DEF TodosNext

\* A run that goes on from any entry has the todos that the last call on its
\* branch reported, with free numbers for new ones, over any number of runs,
\* crashes and navigations in the tree (restoreTodos, applyTodo).
THEOREM TodosRestored == TodosSpec => []TodosReconstructed
<1>1. TodoInv => TodosReconstructed
  <2> SUFFICES ASSUME TodoInv, NEW i \in DOMAIN savedCalls, savedCalls[i].ok
               PROVE  LET restored == restoreTodos(savedCalls, i)
                          shown    == savedCalls[i].shown
                      IN  /\ Len(restored.list) = Len(shown)
                          /\ \A k \in DOMAIN shown :
                               /\ restored.list[k].id = shown[k].id
                               /\ shown[k].id < restored.next
                               /\ \A j \in 1..(k - 1) : shown[j].id # shown[k].id
                               /\ \/ restored.list[k].done = shown[k].done
                                  \/ \E j \in (i + 1)..Len(savedCalls) :
                                       /\ savedCalls[j].execution = savedCalls[i].execution
                                       /\ restored.list[k] \in ToSet(savedCalls[j].shown)
    BY DEF TodosReconstructed
  <2>1. KeptEntries(savedCalls) /\ i \in 0..Len(savedCalls) /\ i # 0
    <3>1. savedCalls \in Seq(TodoEntries)
      BY DEF TodoInv, KeptEntries
    <3> QED
      BY <3>1 DEF TodoInv
  <2>2. restoreTodos(savedCalls, i) = [list |-> savedCalls[i].list, next |-> savedCalls[i].next]
    BY <2>1, RestoresLast
  <2>3. KeptEntry(savedCalls, i)
    BY <2>1 DEF KeptEntries
  <2> QED
    BY <2>2, <2>3 DEF KeptEntry, Alike, Numbered, Marked
<1> QED
  BY <1>1, TodosStart, TodosStep, PTL DEF TodosSpec

-----------------------------------------------------------------------------
(* Settings: what a resumed run goes on with.                              *)

IsEntries(s) == \E S : s \in Seq(S)

LEMMA LastOfNone == \A kinds : LastOf(<<>>, kinds) = Unset
  BY DEF LastOf

\* An entry is the last one of its kinds.
LEMMA LastOfAppend ==
  ASSUME NEW s, IsEntries(s), NEW e, NEW kinds
  PROVE  /\ IsEntries(Append(s, e))
         /\ LastOf(Append(s, e), kinds) = IF e.kind \in kinds THEN e.value ELSE LastOf(s, kinds)
<1> DEFINE n == Len(s)
           t == Append(s, e)
           found(q) == {i \in DOMAIN q : q[i].kind \in kinds}
<1>1. PICK S : s \in Seq(S)
  BY DEF IsEntries
<1>2. s \in Seq(S \cup {e}) /\ e \in S \cup {e}
  BY <1>1
<1>3. /\ t \in Seq(S \cup {e}) /\ n \in Nat /\ DOMAIN s = 1..n /\ DOMAIN t = 1..(n + 1)
      /\ t[n + 1] = e /\ \A i \in 1..n : t[i] = s[i]
  BY <1>2
<1> HIDE DEF n, t
<1>4. LastOf(t, kinds) = IF found(t) = {} THEN Unset ELSE t[Max(found(t))].value
  BY DEF LastOf
<1>5. LastOf(s, kinds) = IF found(s) = {} THEN Unset ELSE s[Max(found(s))].value
  BY DEF LastOf
<1>6. e.kind \in kinds => LastOf(t, kinds) = e.value
  <2> SUFFICES ASSUME e.kind \in kinds PROVE LastOf(t, kinds) = e.value
    OBVIOUS
  <2>1. n + 1 \in found(t) /\ \A i \in found(t) : i \in Nat /\ i <= n + 1
    BY <1>3
  <2> HIDE DEF found
  <2>2. Max(found(t)) = n + 1
    <3>1. Max(found(t)) = CHOOSE x \in found(t) : \A y \in found(t) : x >= y
      BY DEF Max
    <3>2. \A x \in found(t) : (\A y \in found(t) : x >= y) => x = n + 1
      BY <1>3, <2>1
    <3>3. \A y \in found(t) : n + 1 >= y
      BY <1>3, <2>1
    <3> QED
      BY <2>1, <3>1, <3>2, <3>3
  <2> QED
    BY <1>3, <1>4, <2>1, <2>2
<1>7. e.kind \notin kinds => LastOf(t, kinds) = LastOf(s, kinds)
  <2> SUFFICES ASSUME e.kind \notin kinds PROVE LastOf(t, kinds) = LastOf(s, kinds)
    OBVIOUS
  <2>1. found(t) = found(s)
    BY <1>3
  <2>2. ASSUME found(s) # {} PROVE Max(found(s)) \in 1..n
    <3>1. found(s) \in SUBSET (1..n)
      BY <1>3
    <3> HIDE DEF found
    <3> DEFINE Rest == {n - i : i \in found(s)}
    <3>2. Rest \in SUBSET Nat /\ Rest # {}
      BY <1>3, <2>2, <3>1
    <3>3. PICK r \in Rest : \A q \in Rest : r <= q
      <4> HIDE DEF Rest
      <4> QED
        BY <3>2, LeastNat
    <3>4. PICK x \in found(s) : r = n - x
      BY <3>3
    <3>5. \A y \in found(s) : n - x <= n - y
      BY <3>3, <3>4
    <3>6. \A y \in found(s) : x >= y
      BY <1>3, <3>1, <3>5
    <3> QED
      BY <3>1, <3>4, <3>6 DEF Max
  <2> HIDE DEF found
  <2> QED
    BY <1>3, <1>4, <1>5, <2>1, <2>2
<1>8. IsEntries(t)
  BY <1>3 DEF IsEntries
<1> QED
  BY <1>6, <1>7, <1>8 DEF t

Resolved == [model |-> used.model, level |-> used.level, tools |-> used.tools, plan |-> used.plan]

SettingsTypes ==
  /\ override \in [model : Models \cup {Unset}, level : Levels \cup {Unset},
                   tools : Lists \cup {Unset}]
  /\ command.model \in Models
  /\ IsEntries(path) /\ IsEntries(savedPath)
  /\ restoreSettings(path).model \in Models \cup {Unset}
  /\ restoreSettings(savedPath).model \in Models \cup {Unset}
  /\ phase \in {"down", "starting", "between", "asking"}

\* What extensions set in this execution, its branch says too.
Said ==
  LET said == restoreSettings(path)
  IN  /\ override.level # Unset => said.level = override.level
      /\ override.tools # Unset => said.tools = override.tools
      /\ phase = "starting" /\ override.model # Unset => said.model = override.model

\* What the execution resolved agrees with its branch, where extensions left it
\* alone.
Agrees ==
  LET said == restoreSettings(path)
  IN  /\ used = Resolved /\ used.model \in Models
      /\ override.level = Unset =>
           used.level = First(said.level, First(command.level, Default.level))
      /\ used.plan = effectivePlanMode(path)
      /\ used.plan => "write" \notin used.tools
      /\ override.tools = Unset /\ command.tools = Unset =>
           used.tools = LET names == First(said.tools, Default.tools)
                        IN  IF used.plan THEN planTools(names) ELSE names
      /\ phase = "between" /\ ~late =>
           First(override.model, used.model) = First(said.model, command.model)
      /\ phase = "asking" =>
           /\ lastRequest.model = used.model
           /\ lastRequest.tools \subseteq used.tools

SettingsInv ==
  /\ SettingsTypes
  /\ phase \in {"down", "starting"} => ~late
  /\ phase = "down" => override = NothingSet
  /\ phase # "down" => Said
  /\ phase \in {"between", "asking"} => Agrees

LEMMA SettingsStart == SettingsInit => SettingsInv
<1> SUFFICES ASSUME SettingsInit PROVE SettingsInv
  OBVIOUS
<1>1. IsEntries(<<>>)
  BY DEF IsEntries
<1>2. command.model \in Models /\ override = NothingSet /\ path = <<>> /\ savedPath = <<>>
      /\ phase = "down" /\ ~late
  BY DEF SettingsInit
<1>3. restoreSettings(<<>>).model = Unset
  BY LastOfNone DEF restoreSettings
<1> QED
  BY <1>1, <1>2, <1>3 DEF SettingsInv, SettingsTypes, NothingSet

\* What a branch says after another entry.
LEMMA SaidAppend ==
  ASSUME NEW s, IsEntries(s), NEW kind, NEW value
  PROVE  LET t    == Append(s, SettingsEntry(kind, value))
             said == restoreSettings(s)
         IN  /\ IsEntries(t)
             /\ restoreSettings(t).model =
                  IF kind \in {"model_change", "answer"} THEN value ELSE said.model
             /\ restoreSettings(t).level =
                  IF kind = "thinking_level_change" THEN value ELSE said.level
             /\ restoreSettings(t).tools =
                  IF kind = "active_tools_change" THEN value ELSE said.tools
             /\ restoreSettings(t).plan = IF kind = "plan-mode" THEN value ELSE said.plan
<1> DEFINE e == SettingsEntry(kind, value)
<1>1. e.kind = kind /\ e.value = value
  BY DEF SettingsEntry
<1> HIDE DEF e
<1>2. \A kinds : LastOf(Append(s, e), kinds) = IF kind \in kinds THEN value ELSE LastOf(s, kinds)
  BY <1>1, LastOfAppend
<1>3. IsEntries(Append(s, e))
  BY LastOfAppend
<1> QED
  BY <1>2, <1>3 DEF e, restoreSettings

\* An extension says something while the execution starts or runs.
LEMMA ExtensionSets ==
  ASSUME SettingsInv,
         \/ \E m \in Models : SetModel(m)
         \/ \E l \in Levels : SetThinkingLevel(l)
         \/ \E names \in Lists : SetActiveTools(names)
  PROVE  SettingsInv'
<1> DEFINE said == restoreSettings(path)
           now == restoreSettings(path')
<1>1. /\ Unset \notin Models /\ Unset \notin Levels /\ Unset \notin Lists
  BY SettingsAssumption
<1>2. /\ phase # "down" /\ phase' = phase
      /\ UNCHANGED <<savedPath, command, used, lastRequest>>
  BY DEF SetModel, SetThinkingLevel, SetActiveTools, Sets
<1>3. /\ SettingsTypes /\ Said /\ (phase = "starting" => ~late)
      /\ (phase \in {"between", "asking"} => Agrees) /\ IsEntries(path)
  BY <1>2 DEF SettingsInv, SettingsTypes
<1>4. override \in [model : Models \cup {Unset}, level : Levels \cup {Unset},
                    tools : Lists \cup {Unset}]
  BY <1>3 DEF SettingsTypes
<1>5. ASSUME NEW m \in Models, SetModel(m) PROVE SettingsInv'
  <2>1. /\ path' = Append(path, SettingsEntry("model_change", m))
        /\ override' = [override EXCEPT !.model = m] /\ late' = (late /\ phase = "asking")
    BY <1>5 DEF SetModel, Sets
  <2>2. /\ IsEntries(path') /\ now.model = m /\ now.level = said.level /\ now.tools = said.tools
        /\ now.plan = said.plan
    BY <1>3, <2>1, SaidAppend
  <2>3. /\ override'.model = m /\ override'.level = override.level
        /\ override'.tools = override.tools
        /\ override' \in [model : Models \cup {Unset}, level : Levels \cup {Unset},
                          tools : Lists \cup {Unset}]
    BY <1>4, <2>1
  <2> HIDE DEF said, now
  <2>4. SettingsTypes'
    BY <1>2, <1>3, <2>2, <2>3 DEF SettingsTypes, now
  <2>5. Said'
    BY <1>2, <1>3, <2>2, <2>3 DEF Said, said, now
  <2>6. phase \in {"between", "asking"} => Agrees'
    BY <1>1, <1>2, <1>3, <2>1, <2>2, <2>3
       DEF Agrees, Resolved, First, effectivePlanMode, said, now
  <2> QED
    BY <1>2, <1>3, <2>1, <2>4, <2>5, <2>6 DEF SettingsInv
<1>6. ASSUME NEW l \in Levels, SetThinkingLevel(l) PROVE SettingsInv'
  <2>1. /\ path' = Append(path, SettingsEntry("thinking_level_change", l))
        /\ override' = [override EXCEPT !.level = l] /\ late' = late
    BY <1>6 DEF SetThinkingLevel, Sets
  <2>2. /\ IsEntries(path') /\ now.model = said.model /\ now.level = l /\ now.tools = said.tools
        /\ now.plan = said.plan
    BY <1>3, <2>1, SaidAppend
  <2>3. /\ override'.model = override.model /\ override'.level = l
        /\ override'.tools = override.tools
        /\ override' \in [model : Models \cup {Unset}, level : Levels \cup {Unset},
                          tools : Lists \cup {Unset}]
    BY <1>4, <2>1
  <2> HIDE DEF said, now
  <2>4. SettingsTypes'
    BY <1>2, <1>3, <2>2, <2>3 DEF SettingsTypes, said, now
  <2>5. Said'
    BY <1>2, <1>3, <2>2, <2>3 DEF Said, said, now
  <2>6. phase \in {"between", "asking"} => Agrees'
    BY <1>1, <1>2, <1>3, <2>1, <2>2, <2>3
       DEF Agrees, Resolved, First, effectivePlanMode, said, now
  <2> QED
    BY <1>2, <1>3, <2>1, <2>4, <2>5, <2>6 DEF SettingsInv
<1>7. ASSUME NEW names \in Lists, SetActiveTools(names) PROVE SettingsInv'
  <2>1. /\ path' = Append(path, SettingsEntry("active_tools_change", names))
        /\ override' = [override EXCEPT !.tools = names] /\ late' = late
    BY <1>7 DEF SetActiveTools, Sets
  <2>2. /\ IsEntries(path') /\ now.model = said.model /\ now.level = said.level
        /\ now.tools = names /\ now.plan = said.plan
    BY <1>3, <2>1, SaidAppend
  <2>3. /\ override'.model = override.model /\ override'.level = override.level
        /\ override'.tools = names
        /\ override' \in [model : Models \cup {Unset}, level : Levels \cup {Unset},
                          tools : Lists \cup {Unset}]
    BY <1>4, <2>1
  <2> HIDE DEF said, now
  <2>4. SettingsTypes'
    BY <1>2, <1>3, <2>2, <2>3 DEF SettingsTypes, said, now
  <2>5. Said'
    BY <1>2, <1>3, <2>2, <2>3 DEF Said, said, now
  <2>6. phase \in {"between", "asking"} => Agrees'
    BY <1>1, <1>2, <1>3, <2>1, <2>2, <2>3
       DEF Agrees, Resolved, First, effectivePlanMode, said, now
  <2> QED
    BY <1>2, <1>3, <2>1, <2>4, <2>5, <2>6 DEF SettingsInv
<1> QED
  BY <1>5, <1>6, <1>7

LEMMA ResolvesAndAnswers ==
  ASSUME SettingsInv, RunAgent \/ SendRequest \/ AnswerRequest
  PROVE  SettingsInv'
<1> DEFINE said == restoreSettings(path)
<1>1. /\ Unset \notin Models /\ SettingsTypes /\ command.model \in Models
      /\ (override.model # Unset => override.model \in Models)
      /\ (said.model # Unset => said.model \in Models)
      /\ IsEntries(path)
  <2>1. SettingsTypes /\ override.model \in Models \cup {Unset}
    BY DEF SettingsInv, SettingsTypes
  <2> QED
    BY <2>1, SettingsAssumption DEF SettingsTypes
<1>2. CASE RunAgent
  <2>1. /\ phase = "starting" /\ phase' = "between" /\ used' = Resolve(path, override)
        /\ UNCHANGED <<path, savedPath, command, override, lastRequest, late>>
    BY <1>2 DEF RunAgent
  <2>2. Said /\ ~late
    BY <2>1 DEF SettingsInv
  <2>3. SettingsTypes' /\ Said'
    BY <1>1, <2>1, <2>2 DEF SettingsTypes, Said
  <2> DEFINE names == First(override.tools, First(command.tools, First(said.tools, Default.tools)))
  <2>4. /\ used'.model = First(override.model, First(said.model, command.model))
        /\ used'.level =
             First(override.level, First(said.level, First(command.level, Default.level)))
        /\ used'.plan = effectivePlanMode(path)
        /\ used'.tools = IF used'.plan THEN planTools(names) ELSE names
        /\ used' = Resolved'
    BY <2>1 DEF Resolve, Resolved
  <2> HIDE DEF said
  <2>5. Agrees'
    <3>1. used'.model \in Models
      BY <1>1, <2>4 DEF First
    <3>2. used'.plan => "write" \notin used'.tools
      BY <2>4 DEF planTools
    <3>3. override.tools = Unset /\ command.tools = Unset =>
            names = First(said.tools, Default.tools)
      BY DEF First
    <3>4. override.level = Unset =>
            used'.level = First(said.level, First(command.level, Default.level))
      BY <2>4 DEF First
    <3>5. First(override.model, used'.model) = First(said.model, command.model)
      BY <1>1, <2>1, <2>2, <2>4 DEF First, Said, said
    <3> HIDE DEF names
    <3>6. effectivePlanMode(path)' = effectivePlanMode(path)
          /\ restoreSettings(path)' = said /\ Default' = Default
      BY <2>1 DEF effectivePlanMode, said
    <3> QED
      BY <2>1, <2>4, <3>1, <3>2, <3>3, <3>4, <3>5, <3>6 DEF Agrees
  <2> QED
    BY <2>1, <2>2, <2>3, <2>5 DEF SettingsInv
<1>3. CASE SendRequest
  <2>1. /\ phase = "between" /\ phase' = "asking" /\ lastRequest' = NextRequest
        /\ used' = [used EXCEPT !.model = lastRequest'.model, !.level = lastRequest'.level]
        /\ UNCHANGED <<path, savedPath, command, override, late>>
    BY <1>3 DEF SendRequest
  <2>2. Said /\ Agrees
    BY <2>1 DEF SettingsInv
  <2>3. SettingsTypes' /\ Said'
    BY <1>1, <2>1, <2>2 DEF SettingsTypes, Said
  <2>4. used = Resolved /\ used.model \in Models
    BY <2>2 DEF Agrees
  <2>5. /\ used'.model = lastRequest'.model /\ used'.level = lastRequest'.level
        /\ used'.tools = used.tools /\ used'.plan = used.plan /\ used' = Resolved'
    BY <2>1, <2>4 DEF Resolved
  <2>6. /\ lastRequest'.model = First(override.model, used.model)
        /\ lastRequest'.level = First(override.level, used.level)
        /\ lastRequest'.tools \subseteq used.tools
    BY <2>1 DEF NextRequest
  <2>7. lastRequest'.model \in Models
    BY <1>1, <2>4, <2>6 DEF First
  <2>8. effectivePlanMode(path)' = effectivePlanMode(path)
        /\ restoreSettings(path)' = said
    BY <2>1 DEF effectivePlanMode
  <2> HIDE DEF said
  <2>9. Agrees'
    <3>1. override.level = Unset =>
            used'.level = First(said.level, First(command.level, Default.level))
      BY <2>2, <2>5, <2>6 DEF Agrees, First, said
    <3> QED
      BY <2>1, <2>2, <2>5, <2>6, <2>7, <2>8, <3>1 DEF Agrees, said
  <2> QED
    BY <2>1, <2>3, <2>9 DEF SettingsInv
<1>4. CASE AnswerRequest
  <2>1. /\ phase = "asking" /\ phase' = "between"
        /\ path' = Append(path, SettingsEntry("answer", lastRequest.model))
        /\ late' = (override.model # Unset /\ override.model # lastRequest.model)
        /\ UNCHANGED <<savedPath, command, override, used, lastRequest>>
    BY <1>4 DEF AnswerRequest
  <2>2. Said /\ Agrees
    BY <2>1 DEF SettingsInv
  <2> DEFINE now == restoreSettings(path')
  <2>3. /\ IsEntries(path') /\ now.model = lastRequest.model /\ now.level = said.level
        /\ now.tools = said.tools /\ now.plan = said.plan
    BY <1>1, <2>1, SaidAppend
  <2>4. lastRequest.model = used.model /\ used.model \in Models
    BY <2>1, <2>2 DEF Agrees
  <2> HIDE DEF said, now
  <2>5. SettingsTypes'
    BY <1>1, <2>1, <2>3, <2>4 DEF SettingsTypes, now
  <2>6. Said'
    BY <2>1, <2>2, <2>3 DEF Said, said, now
  <2>7. Agrees'
    <3>1. ~late' => First(override.model, used.model) = First(now.model, command.model)
      BY <1>1, <2>1, <2>3, <2>4 DEF First
    <3>2. effectivePlanMode(path') = effectivePlanMode(path)
      BY <2>3 DEF effectivePlanMode, said, now
    <3>3. effectivePlanMode(path)' = effectivePlanMode(path)
      BY <2>1, <3>2 DEF effectivePlanMode
    <3> QED
      BY <2>1, <2>2, <2>3, <3>1, <3>3 DEF Agrees, Resolved, said, now
  <2> QED
    BY <2>1, <2>5, <2>6, <2>7 DEF SettingsInv
<1> QED
  BY <1>2, <1>3, <1>4

LEMMA SettingsPreserved == SettingsInv /\ [SettingsNext]_settingsVars => SettingsInv'
<1> SUFFICES ASSUME SettingsInv, [SettingsNext]_settingsVars PROVE SettingsInv'
  OBVIOUS
<1>1. SettingsTypes
  BY DEF SettingsInv
<1>2. CASE Start
  <2>1. /\ phase = "down" /\ phase' = "starting" /\ path' = savedPath
        /\ UNCHANGED <<savedPath, command, override, used, lastRequest, late>>
    BY <1>2 DEF Start
  <2>2. override = NothingSet /\ ~late
    BY <2>1 DEF SettingsInv
  <2>3. SettingsTypes' /\ Said'
    BY <1>1, <2>1, <2>2 DEF SettingsTypes, Said, NothingSet
  <2> QED
    BY <2>1, <2>2, <2>3 DEF SettingsInv
<1>3. CASE RunAgent \/ SendRequest \/ AnswerRequest
  BY <1>3, ResolvesAndAnswers
<1>4. CASE \/ \E m \in Models : SetModel(m)
           \/ \E l \in Levels : SetThinkingLevel(l)
           \/ \E names \in Lists : SetActiveTools(names)
  BY <1>4, ExtensionSets
<1>5. ASSUME NEW kind, NEW value, SetOperation(kind, value),
             kind = "model_change" => value \in Models, kind # "answer"
      PROVE  SettingsInv'
  <2>1. /\ savedPath' = Append(savedPath, SettingsEntry(kind, value)) /\ phase = "down"
        /\ UNCHANGED <<path, command, override, used, phase, lastRequest, late>>
    BY <1>5 DEF SetOperation
  <2>2. IsEntries(savedPath') /\ restoreSettings(savedPath').model \in Models \cup {Unset}
    <3>1. IsEntries(savedPath)
      BY <1>1 DEF SettingsTypes
    <3> QED
      BY <1>1, <1>5, <2>1, <3>1, SaidAppend DEF SettingsTypes
  <2>3. SettingsTypes'
    BY <1>1, <2>1, <2>2 DEF SettingsTypes
  <2> QED
    BY <2>1, <2>3 DEF SettingsInv
<1>6. CASE SaveBranch
  <2>1. /\ savedPath' = path /\ phase = "between"
        /\ UNCHANGED <<path, command, override, used, phase, lastRequest, late>>
    BY <1>6 DEF SaveBranch
  <2>2. SettingsTypes' /\ Said' /\ Agrees'
    BY <1>1, <2>1
       DEF SettingsInv, SettingsTypes, Said, Agrees, Resolved, effectivePlanMode
  <2> QED
    BY <2>1, <2>2 DEF SettingsInv
<1>7. ASSUME Ends, UNCHANGED command, IsEntries(savedPath'),
             restoreSettings(savedPath').model \in Models \cup {Unset}
      PROVE  SettingsInv'
  <2>1. /\ phase' = "down" /\ path' = <<>> /\ override' = NothingSet /\ ~late'
    BY <1>7 DEF Ends
  <2>2. IsEntries(path') /\ restoreSettings(path').model = Unset
    BY <2>1, LastOfNone DEF IsEntries, restoreSettings
  <2>3. SettingsTypes'
    BY <1>1, <1>7, <2>1, <2>2 DEF SettingsTypes, NothingSet
  <2> QED
    BY <2>1, <2>3 DEF SettingsInv
<1>8. CASE DropRun
  BY <1>1, <1>7, <1>8 DEF DropRun, SettingsTypes
<1>9. ASSUME NEW plans \in BOOLEAN, FinishRun(plans) PROVE SettingsInv'
  <2>1. /\ savedPath' = IF plans
                        THEN Append(path, SettingsEntry("plan-mode", effectivePlanMode(path)))
                        ELSE path
        /\ Ends /\ UNCHANGED command
    BY <1>9 DEF FinishRun
  <2>2. IsEntries(path) /\ restoreSettings(path).model \in Models \cup {Unset}
    BY <1>1 DEF SettingsTypes
  <2>3. CASE plans
    <3>1. savedPath' = Append(path, SettingsEntry("plan-mode", effectivePlanMode(path)))
      BY <2>1, <2>3
    <3>2. IsEntries(savedPath') /\ restoreSettings(savedPath').model = restoreSettings(path).model
      BY <2>2, <3>1, SaidAppend
    <3> QED
      BY <1>7, <2>1, <2>2, <3>2
  <2>4. CASE ~plans
    BY <1>7, <2>1, <2>2, <2>4
  <2> QED
    BY <2>3, <2>4
<1>10. CASE UNCHANGED settingsVars
  <2>1. UNCHANGED <<path, savedPath, command, override, used, phase, lastRequest, late>>
    BY <1>10 DEF settingsVars
  <2>2. SettingsTypes'
    BY <1>1, <2>1 DEF SettingsTypes
  <2>3. Said => Said'
    BY <2>1 DEF Said
  <2>4. Agrees => Agrees'
    BY <2>1 DEF Agrees, Resolved, effectivePlanMode
  <2> QED
    BY <2>1, <2>2, <2>3, <2>4 DEF SettingsInv
<1>11. /\ \A m \in Models : SetOperation("model_change", m) => SettingsInv'
       /\ \A l \in Levels : SetOperation("thinking_level_change", l) => SettingsInv'
       /\ \A names \in Lists : SetOperation("active_tools_change", names) => SettingsInv'
       /\ \A plan \in BOOLEAN : SetOperation("plan-mode", plan) => SettingsInv'
  BY <1>5
<1> QED
  BY <1>2, <1>3, <1>4, <1>6, <1>8, <1>9, <1>10, <1>11 DEF SettingsNext

\* What the entries of a session say agrees with what its execution does,
\* whatever users and extensions set and in whatever order, over any number of
\* executions, snapshots and crashes (restoreSettings, runAgent).
THEOREM SettingsKept == SettingsSpec => []SettingsResume
<1>1. SettingsInv => SettingsResume
  <2> SUFFICES ASSUME SettingsInv PROVE SettingsResume
    OBVIOUS
  <2> DEFINE said == restoreSettings(path)
             resumed == Resolve(path, NothingSet)
             names == First(command.tools, First(said.tools, Default.tools))
  <2>1. /\ resumed.model = First(said.model, command.model)
        /\ resumed.level = First(said.level, First(command.level, Default.level))
        /\ resumed.tools = IF effectivePlanMode(path) THEN planTools(names) ELSE names
    BY DEF Resolve, First, NothingSet
  <2>2. ASSUME phase = "between"
        PROVE  /\ ~late => resumed.model = NextRequest.model
               /\ resumed.level = NextRequest.level
               /\ command.tools = Unset => NextRequest.tools \subseteq resumed.tools
    <3>1. Said /\ Agrees
      BY <2>2 DEF SettingsInv
    <3>2. /\ NextRequest.model = First(override.model, used.model)
          /\ NextRequest.level = First(override.level, used.level)
          /\ NextRequest.tools = IF override.tools = Unset THEN used.tools
                                 ELSE used.tools \cap override.tools
      BY DEF NextRequest
    <3> HIDE DEF resumed
    <3>3. ~late => resumed.model = NextRequest.model
      BY <2>1, <2>2, <3>1, <3>2 DEF Agrees
    <3>4. resumed.level = NextRequest.level
      BY <2>1, <3>1, <3>2 DEF Said, Agrees, First
    <3>5. ASSUME command.tools = Unset PROVE NextRequest.tools \subseteq resumed.tools
      <4>1. names = First(said.tools, Default.tools)
        BY <3>5 DEF First
      <4>2. used.plan = effectivePlanMode(path) /\ (used.plan => "write" \notin used.tools)
        BY <3>1 DEF Agrees
      <4>3. CASE override.tools = Unset
        <5>1. used.tools = IF used.plan THEN planTools(names) ELSE names
          BY <3>1, <3>5, <4>1, <4>3 DEF Agrees
        <5> QED
          BY <2>1, <3>2, <4>2, <4>3, <5>1
      <4>4. CASE override.tools # Unset
        <5>1. said.tools = override.tools
          BY <3>1, <4>4 DEF Said
        <5>2. names = override.tools
          BY <4>1, <4>4, <5>1 DEF First
        <5> QED
          BY <2>1, <3>2, <4>2, <4>4, <5>2 DEF planTools
      <4> QED
        BY <4>3, <4>4
    <3> QED
      BY <3>3, <3>4, <3>5
  <2>3. phase = "asking" /\ used.plan => "write" \notin lastRequest.tools
    BY DEF SettingsInv, Agrees
  <2> QED
    BY <2>2, <2>3 DEF SettingsResume
<1> QED
  BY <1>1, SettingsStart, SettingsPreserved, PTL DEF SettingsSpec

================================================================================
