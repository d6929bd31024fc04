------------------------- MODULE ModuleInstall_proof -------------------------
(***************************************************************************)
(* ModuleInstall for every set of dependencies, every install list and any *)
(* number of versions and faults: a skipped binary is the expected one     *)
(* (SkipSound) and a known module has what it needs (KnownComplete).       *)
(*                                                                         *)
(* The argument is about Reached(d), the lowest version the next checksum  *)
(* of d can name.  It never goes down, no marker is above it, and a marker *)
(* that does not describe its binary is strictly below it: so the marker   *)
(* cannot match and the binary is written again.                           *)
(***************************************************************************)
EXTENDS ModuleInstall, TLAPS

Fetching == {"sum", "asset", "write", "written", "mark", "marked"}
Installing == run.pc \in Fetching \union {"yaml", "named"}
Removing == run.pc \in {"rmdest", "rmmarker"}

\* The command in progress works on an entry of its version's list.
RunOK ==
  /\ Installing \/ Removing \/ run.pc = "rmyaml" => run.v \in Versions /\ run.i \in Nat \ {0}
  /\ run.pc \in Fetching \/ Removing => run.i <= Len(List[run.v])
  /\ run.pc \in {"yaml", "named"} => run.i > Len(List[run.v])
  /\ Installing => run.v <= site.yaml
  /\ run.pc \in {"sum", "mark", "marked"} => Dep \notin Files

Reached(d) ==
  IF d \in Pinned THEN Pin[IF Installing THEN run.v ELSE site.yaml][d] ELSE site.sum[d]

Stale(d) == marker[d] \in Versions /\ bin[d] # None /\ bin[d] # marker[d] /\ d \notin hist.orphaned

\* Markers are versions already reached; one that does not describe its binary
\* is behind.
Outdated ==
  /\ \A d \in Deps : marker[d] \in Versions \union {None, Torn}
  /\ \A d \in Files : marker[d] = None
  /\ \A d \in Deps : marker[d] \in Versions =>
       /\ marker[d] <= Reached(d)
       /\ Stale(d) => marker[d] < Reached(d)

\* A marker without a binary is being removed, or was left by a cut removal.
NoLoneMarker ==
  \A d \in Deps : marker[d] \in Versions /\ bin[d] = None =>
    d \in hist.orphaned \/ (run.pc = "rmmarker" /\ Dep = d)

\* What the install in progress knows of the dependency it is at.
InHand ==
  /\ run.pc \in {"asset", "write", "written", "mark", "marked"} /\ Dep \notin Files =>
       /\ run.expected # Html => run.expected \in Versions /\ run.expected <= Reached(Dep)
       /\ Dep \in Pinned => run.expected = Pin[run.v][Dep]
       /\ run.expected \in Versions /\ marker[Dep] \in Versions /\ Dep \notin hist.orphaned =>
            marker[Dep] < run.expected
  /\ run.pc \in {"write", "written"} =>
       /\ Dep \in Pinned => run.data = Pin[run.v][Dep]
       /\ Dep \notin Pinned => run.data \in Versions \/ (Dep \in Files /\ run.data = Html)
       /\ Dep \notin Files => run.data = run.expected /\ run.expected \in Versions
  /\ run.pc = "written" => Dep \in hist.touched /\ bin[Dep] = Torn
  /\ run.pc \in {"mark", "marked"} =>
       bin[Dep] = run.expected /\ run.expected \in Versions /\ Dep \notin hist.wrong /\ Dep \in hist.touched

\* The dependencies it has passed are usable.
Passed ==
  Installing => \A j \in 1 .. run.i - 1 :
    LET d == List[run.v][j] IN
    \/ Fits(bin[d], d, run.v) \/ d \in hist.wrong
    \/ run.pc = "written" /\ d = Dep

IInv == TypeOK /\ RunOK /\ Outdated /\ NoLoneMarker /\ InHand /\ SkipSound
KInv == Passed /\ KnownComplete

-----------------------------------------------------------------------------
(* Facts about the constants and the operators                             *)

\* An entry of an install list is a dependency.
LEMMA ListEntry ==
  ASSUME NEW v \in Versions
  PROVE  /\ Len(List[v]) \in Nat
         /\ \A i \in Nat \ {0} : i <= Len(List[v]) => List[v][i] \in Deps
  BY InstallAssumption DEF Versions

\* The dependency in progress is one.
LEMMA DepType ==
  ASSUME RunOK, run.pc \in Fetching \/ Removing
  PROVE  Dep \in Deps
  BY ListEntry DEF RunOK, Dep, Installing, Removing

\* What a GET may return.
LEMMA ServedType ==
  ASSUME NEW newest \in [Deps -> 0 .. MaxVersion], NEW d \in Deps, NEW v \in Versions
  PROVE  /\ Served(newest, d, v) \in Versions \union {Html}
         /\ d \in Pinned /\ Served(newest, d, v) # Html => Served(newest, d, v) = Pin[v][d]
         /\ d \notin Pinned /\ Served(newest, d, v) # Html => Served(newest, d, v) = newest[d]
  <1>1. Pin[v][d] \in Versions
    BY InstallAssumption
  <1>2. newest[d] \in 0 .. MaxVersion /\ (newest[d] < 1 \/ newest[d] \in Versions)
    BY InstallAssumption DEF Versions
  <1>. QED
    BY <1>1, <1>2 DEF Served

RunType == [pc : Pcs, v : 0 .. MaxVersion, i : Nat, expected : Contents, data : Contents,
            attempt : 1 .. MaxAttempts]

\* A command is one, whatever its step.
LEMMA CommandType ==
  ASSUME NEW pc \in Pcs, NEW v \in 0 .. MaxVersion, NEW i \in Nat
  PROVE  /\ Command(pc, v, i) \in RunType
         /\ Command(pc, v, i).pc = pc /\ Command(pc, v, i).v = v /\ Command(pc, v, i).i = i
  <1>1. None \in Contents /\ 1 \in 1 .. MaxAttempts
    BY InstallAssumption DEF Contents
  <1>. QED
    BY <1>1 DEF Command, RunType

\* Where an install goes after a dependency.
LEMMA AtNext ==
  ASSUME NEW v \in Versions, NEW i \in Nat \ {0}
  PROVE  /\ At(v, i) \in RunType
         /\ At(v, i).v = v /\ At(v, i).i = i
         /\ At(v, i).pc \in {"yaml", "asset", "sum"}
         /\ (At(v, i).pc = "yaml") <=> i > Len(List[v])
         /\ At(v, i).pc = "sum" => List[v][i] \notin Files
         /\ At(v, i).pc = "asset" => List[v][i] \in Files
  <1>1. v \in 0 .. MaxVersion /\ {"yaml", "asset", "sum"} \subseteq Pcs
    BY InstallAssumption DEF Versions, Pcs
  <1>. QED
    BY <1>1, CommandType DEF At

\* Where a removal goes after a dependency.
LEMMA RemoveNext ==
  ASSUME NEW v \in Versions, NEW i \in Nat \ {0}
  PROVE  /\ RemoveAt(v, i) \in RunType
         /\ RemoveAt(v, i).v = v /\ RemoveAt(v, i).i = i
         /\ RemoveAt(v, i).pc \in {"rmdest", "rmyaml"}
         /\ (RemoveAt(v, i).pc = "rmyaml") <=> i > Len(List[v])
  <1>1. v \in 0 .. MaxVersion /\ {"rmdest", "rmyaml"} \subseteq Pcs
    BY InstallAssumption DEF Versions, Pcs
  <1>. QED
    BY <1>1, CommandType DEF RemoveAt

\* No command.
LEMMA IdleType == Idle \in RunType /\ Idle.pc = "idle"
  <1>1. "idle" \in Pcs /\ 0 \in 0 .. MaxVersion
    BY InstallAssumption DEF Pcs
  <1>. QED
    BY <1>1, CommandType DEF Idle

-----------------------------------------------------------------------------
(* The invariant                                                           *)

\* After the end of a command, or at the start of one.
LEMMA RunIdle ==
  ASSUME run' \in {Idle, Command("get", 0, 0)}
  PROVE  run' \in RunType /\ RunOK'
  <1>1. "get" \in Pcs /\ 0 \in 0 .. MaxVersion
    BY InstallAssumption DEF Pcs
  <1>2. run' \in RunType /\ run'.pc \in {"idle", "get"}
    BY <1>1, IdleType, CommandType
  <1>. QED
    BY <1>2 DEF RunOK, Installing, Removing, Fetching

\* At the next entry of an install.
LEMMA RunAt ==
  ASSUME NEW v \in Versions, NEW i \in Nat \ {0}, v <= site'.yaml, run' = At(v, i)
  PROVE  run' \in RunType /\ RunOK'
  <1>1. /\ run' \in RunType /\ run'.v = v /\ run'.i = i
        /\ run'.pc \in {"yaml", "asset", "sum"}
        /\ (run'.pc = "yaml") <=> i > Len(List[v])
        /\ run'.pc = "sum" => List[v][i] \notin Files
    BY AtNext
  <1>2. Len(List[v]) \in Nat
    BY ListEntry
  <1>. QED
    BY <1>1, <1>2 DEF RunOK, Installing, Removing, Fetching, Dep

\* At the next entry of a removal.
LEMMA RunRemove ==
  ASSUME NEW v \in Versions, NEW i \in Nat \ {0}, run' = RemoveAt(v, i)
  PROVE  run' \in RunType /\ RunOK'
  <1>1. /\ run' \in RunType /\ run'.v = v /\ run'.i = i
        /\ run'.pc \in {"rmdest", "rmyaml"}
        /\ (run'.pc = "rmyaml") <=> i > Len(List[v])
    BY RemoveNext
  <1>2. Len(List[v]) \in Nat
    BY ListEntry
  <1>. QED
    BY <1>1, <1>2 DEF RunOK, Installing, Removing, Fetching, Dep

\* At another step on the same entry.
LEMMA RunStays ==
  ASSUME RunOK, run' \in RunType, site.yaml \in Int, site'.yaml \in Int, site.yaml <= site'.yaml,
         run'.v = run.v, run'.i = run.i,
         \/ run.pc \in Fetching /\ run'.pc \in Fetching
         \/ run.pc = "yaml" /\ run'.pc = "named"
         \/ run.pc = "rmdest" /\ run'.pc = "rmmarker",
         run'.pc \in {"sum", "mark", "marked"} => Dep \notin Files
  PROVE  RunOK'
  <1>1. Dep' = Dep
    BY DEF Dep
  <1>2. Installing => run.v \in Int
    BY DEF RunOK, Versions
  <1>. QED
    BY <1>1, <1>2 DEF RunOK, Installing, Removing, Fetching

\* Publishing only adds.
LEMMA SiteGrows ==
  ASSUME TypeOK, [Next]_vars
  PROVE  /\ site' \in [yaml : Versions, asset : [Deps -> 0 .. MaxVersion], sum : [Deps -> 0 .. MaxVersion]]
         /\ site.yaml <= site'.yaml
         /\ \A d \in Deps : site.sum[d] <= site'.sum[d]
  <1>. USE DEF TypeOK, Versions
  <1>1. CASE UNCHANGED site
    BY <1>1
  <1>2. CASE PublishYAML
    <2>1. site' = [yaml |-> site.yaml + 1, asset |-> site.asset, sum |-> site.sum]
      BY <1>2 DEF PublishYAML
    <2>2. site.yaml + 1 \in Versions
      BY <1>2, InstallAssumption DEF PublishYAML
    <2>. QED
      BY <2>1, <2>2
  <1>5. \A d \in Deps : Releases[d] \in Versions /\ MaxVersion \in Nat
    BY InstallAssumption
  <1>3. ASSUME NEW d \in Deps, PublishAsset(d) \/ PublishSum(d)
        PROVE  /\ site' \in [yaml : Versions, asset : [Deps -> 0 .. MaxVersion], sum : [Deps -> 0 .. MaxVersion]]
               /\ site.yaml <= site'.yaml
               /\ \A e \in Deps : site.sum[e] <= site'.sum[e]
    <2>1. CASE PublishAsset(d)
      <3>1. site' = [yaml |-> site.yaml, sum |-> site.sum,
                     asset |-> [site.asset EXCEPT ![d] = site.asset[d] + 1]]
        BY <2>1 DEF PublishAsset
      <3>2. site.asset[d] + 1 \in 0 .. MaxVersion
        BY <2>1, <1>5 DEF PublishAsset
      <3>. QED
        BY <3>1, <3>2
    <2>2. CASE PublishSum(d)
      <3>1. site' = [yaml |-> site.yaml, asset |-> site.asset,
                     sum |-> [site.sum EXCEPT ![d] = site.sum[d] + 1]]
        BY <2>2 DEF PublishSum
      <3>2. site.sum[d] + 1 \in 0 .. MaxVersion
        BY <2>2, <1>5 DEF PublishSum
      <3>. QED
        BY <3>1, <3>2
    <2>. QED
      BY <1>3, <2>1, <2>2
  <1>4. UNCHANGED site \/ Publish
    BY DEF Next, vars, InstallStep, RemoveStep, Fetch, Install, GetYAML, FetchChecksum, FetchAsset,
       WriteDest, DestWritten, WriteMarker, MarkerWritten, WriteYAML, YAMLWritten, Remove, RemoveDest,
       RemoveMarker, RemoveYAML, Fail, NetworkError, RemoveFails
  <1>. QED
    BY <1>1, <1>2, <1>3, <1>4 DEF Publish

\* Every step keeps the command within its list.
LEMMA RunStep ==
  ASSUME TypeOK, RunOK, [Next]_vars
  PROVE  run' \in RunType /\ RunOK'
  <1>1. run \in RunType /\ site.yaml \in Versions /\ site.yaml \in Int
    BY DEF TypeOK, RunType, Versions
  <1>2. site'.yaml \in Versions /\ site'.yaml \in Int /\ site.yaml <= site'.yaml
    BY SiteGrows DEF Versions
  <1>3. ASSUME run' \in {Idle, Command("get", 0, 0)} PROVE run' \in RunType /\ RunOK'
    BY <1>3, RunIdle
  <1>4. ASSUME run' = At(run.v, run.i + 1), Installing PROVE run' \in RunType /\ RunOK'
    <2>1. run.v \in Versions /\ run.i + 1 \in Nat \ {0} /\ run.v <= site'.yaml
      BY <1>1, <1>2, <1>4 DEF RunOK, Versions
    <2>. QED
      BY <2>1, <1>4, RunAt
  <1>5. ASSUME run' = RemoveAt(run.v, run.i + 1), Removing PROVE run' \in RunType /\ RunOK'
    <2>1. run.v \in Versions /\ run.i + 1 \in Nat \ {0}
      BY <1>5 DEF RunOK
    <2>. QED
      BY <2>1, <1>5, RunRemove
  <1>6. ASSUME NEW a \in 1 .. MaxAttempts, run' = [run EXCEPT !.attempt = a],
               run.pc \in {"sum", "asset"}
        PROVE  run' \in RunType /\ RunOK'
    <2>1. /\ run' \in RunType /\ run'.v = run.v /\ run'.i = run.i /\ run'.pc = run.pc
          /\ run.pc \in Fetching
      BY <1>1, <1>6 DEF RunType, Fetching
    <2>2. run.pc = "sum" => Dep \notin Files
      BY DEF RunOK
    <2>. QED
      BY <2>1, <2>2, <1>1, <1>2, <1>6, RunStays
  <1>7. ASSUME Retry, run.pc \in {"sum", "asset"} PROVE run' \in RunType /\ RunOK'
    <2>1. CASE run.attempt >= MaxAttempts
      BY <2>1, <1>3, <1>7 DEF Retry
    <2>2. CASE ~(run.attempt >= MaxAttempts)
      <3>1. run.attempt + 1 \in 1 .. MaxAttempts
        BY <2>2, <1>1, InstallAssumption DEF RunType
      <3>2. run' = [run EXCEPT !.attempt = run.attempt + 1]
        BY <2>2, <1>7 DEF Retry
      <3>. QED
        BY <3>1, <3>2, <1>6, <1>7
    <2>. QED
      BY <2>1, <2>2
  <1>8. ASSUME NEW p \in Pcs, run' = [run EXCEPT !.pc = p],
               \/ run.pc \in Fetching /\ p \in Fetching
               \/ run.pc = "yaml" /\ p = "named"
               \/ run.pc = "rmdest" /\ p = "rmmarker",
               p \in {"mark", "marked", "sum"} => Dep \notin Files
        PROVE  run' \in RunType /\ RunOK'
    <2>1. run' \in RunType /\ run'.v = run.v /\ run'.i = run.i /\ run'.pc = p
      BY <1>1, <1>8 DEF RunType
    <2>. QED
      BY <2>1, <1>1, <1>2, <1>8, RunStays
  <1>9. CASE Fetch \/ Install
    BY <1>9, <1>3 DEF Fetch, Install
  <1>10. CASE GetYAML
    BY <1>10, <1>1, <1>2, <1>3, RunAt DEF GetYAML, Versions
  <1>11. CASE FetchChecksum
    <2>1. Dep \in Deps /\ run.v \in Versions /\ Installing
      BY <1>11, DepType DEF FetchChecksum, Running, RunOK, Fetching, Installing
    <2>2. CASE NotPublishedYet(Dep, Served(site.sum, Dep, run.v))
      BY <2>2, <1>11, <1>7 DEF FetchChecksum, Running
    <2>3. CASE /\ ~NotPublishedYet(Dep, Served(site.sum, Dep, run.v))
               /\ UpToDate(Dep, Served(site.sum, Dep, run.v))
      BY <2>1, <2>3, <1>11, <1>4 DEF FetchChecksum
    <2>4. CASE run' = [run EXCEPT !.pc = "asset", !.expected = Served(site.sum, Dep, run.v), !.attempt = 1]
      <3>1. Served(site.sum, Dep, run.v) \in Contents
        BY <2>1, ServedType DEF TypeOK, Contents
      <3>2. run' \in RunType /\ run'.v = run.v /\ run'.i = run.i /\ run'.pc = "asset"
        <4>1. run' = [pc |-> "asset", v |-> run.v, i |-> run.i, data |-> run.data, attempt |-> 1,
                      expected |-> Served(site.sum, Dep, run.v)]
          BY <2>4, <1>1 DEF RunType
        <4>2. "asset" \in Pcs /\ 1 \in 1 .. MaxAttempts
          BY InstallAssumption DEF Pcs
        <4>. QED
          BY <4>1, <4>2, <3>1, <1>1 DEF RunType
      <3>3. run.pc \in Fetching /\ "asset" \in Fetching
        BY <1>11 DEF FetchChecksum, Running, Fetching
      <3>. QED
        BY <3>2, <3>3, <1>1, <1>2, RunStays
    <2>. QED
      BY <2>2, <2>3, <2>4, <1>11 DEF FetchChecksum
  <1>12. CASE FetchAsset
    <2>1. Dep \in Deps /\ run.v \in Versions
      BY <1>12, DepType DEF FetchAsset, Running, RunOK, Fetching, Installing
    <2>2. CASE NotPublishedYet(Dep, Served(site.asset, Dep, run.v))
      BY <2>2, <1>12, <1>7 DEF FetchAsset, Running
    <2>3. CASE run' = [run EXCEPT !.pc = "write", !.data = Served(site.asset, Dep, run.v), !.attempt = 1]
      <3>1. Served(site.asset, Dep, run.v) \in Contents
        BY <2>1, ServedType DEF TypeOK, Contents
      <3>2. run' \in RunType /\ run'.v = run.v /\ run'.i = run.i /\ run'.pc = "write"
        <4>1. run' = [pc |-> "write", v |-> run.v, i |-> run.i, expected |-> run.expected, attempt |-> 1,
                      data |-> Served(site.asset, Dep, run.v)]
          BY <2>3, <1>1 DEF RunType
        <4>2. "write" \in Pcs /\ 1 \in 1 .. MaxAttempts
          BY InstallAssumption DEF Pcs
        <4>. QED
          BY <4>1, <4>2, <3>1, <1>1 DEF RunType
      <3>3. run.pc \in Fetching /\ "write" \in Fetching
        BY <1>12 DEF FetchAsset, Running, Fetching
      <3>. QED
        BY <3>2, <3>3, <1>1, <1>2, RunStays
    <2>. QED
      BY <2>2, <2>3, <1>12, <1>3 DEF FetchAsset
  <1>13. CASE WriteDest
    BY <1>13, <1>8 DEF WriteDest, Running, Goto, Fetching, Pcs
  <1>14. CASE DestWritten
    <2>1. CASE Dep \in Files
      BY <2>1, <1>14, <1>4 DEF DestWritten, Running, Installing, Fetching
    <2>2. CASE Dep \notin Files
      BY <2>2, <1>14, <1>8 DEF DestWritten, Running, Fetching, Pcs
    <2>. QED
      BY <2>1, <2>2
  <1>15. CASE WriteMarker
    <2>1. Dep \notin Files
      BY <1>15 DEF WriteMarker, Running, RunOK
    <2>. QED
      BY <2>1, <1>15, <1>8 DEF WriteMarker, Running, Goto, Fetching, Pcs
  <1>16. CASE MarkerWritten
    BY <1>16, <1>4 DEF MarkerWritten, Running, Installing, Fetching
  <1>17. CASE WriteYAML
    BY <1>17, <1>8 DEF WriteYAML, Running, Goto, Pcs
  <1>18. CASE YAMLWritten \/ RemoveYAML \/ Fail
    BY <1>18, <1>3 DEF YAMLWritten, RemoveYAML, Fail
  <1>19. CASE Remove
    BY <1>19, RunRemove DEF Remove
  <1>20. CASE RemoveDest
    BY <1>20, <1>8 DEF RemoveDest, Running, Goto, Pcs
  <1>21. CASE RemoveMarker
    BY <1>21, <1>5 DEF RemoveMarker, Running, Removing
  <1>22. CASE NetworkError
    BY <1>22, <1>7 DEF NetworkError
  <1>23. CASE RemoveFails
    <2>1. CASE run.pc = "rmdest"
      BY <2>1, <1>23, <1>8 DEF RemoveFails, Running, Pcs
    <2>2. CASE run.pc = "rmmarker"
      BY <2>2, <1>23, <1>5 DEF RemoveFails, Running, Removing
    <2>. QED
      BY <2>1, <2>2, <1>23 DEF RemoveFails
  <1>24. CASE UNCHANGED run
    BY <1>24, <1>1, <1>2 DEF RunOK, Installing, Removing, Dep, Versions
  <1>. QED
    BY <1>9, <1>10, <1>11, <1>12, <1>13, <1>14, <1>15, <1>16, <1>17, <1>18, <1>19, <1>20, <1>21,
       <1>22, <1>23, <1>24
    DEF Next, InstallStep, RemoveStep, Publish, PublishYAML, PublishAsset, PublishSum, vars

\* Every step keeps the types.
LEMMA TypeStep ==
  ASSUME TypeOK, RunOK, [Next]_vars
  PROVE  TypeOK'
  <1>1. run' \in RunType
    BY RunStep
  <1>2. yaml' \in Versions \union {None, Torn}
    <2>1. yaml \in Versions \union {None, Torn}
      BY DEF TypeOK
    <2>2. Running("named") => run.v \in Versions
      BY DEF Running, RunOK, Installing
    <2>. QED
      BY <2>1, <2>2 DEF Next, vars, disk, InstallStep, RemoveStep, Fetch, Install, GetYAML, FetchChecksum,
       FetchAsset, WriteDest, DestWritten, WriteMarker, MarkerWritten, WriteYAML, YAMLWritten, Remove,
       RemoveDest, RemoveMarker, RemoveYAML, Fail, NetworkError, RemoveFails, Publish, PublishYAML,
       PublishAsset, PublishSum
  <1>3. bin' \in [Deps -> Contents]
    <2>1. bin \in [Deps -> Contents] /\ run.data \in Contents /\ None \in Contents /\ Torn \in Contents
      BY DEF TypeOK, Contents
    <2>. QED
      BY <2>1 DEF Next, vars, disk, InstallStep, RemoveStep, Fetch, Install, GetYAML, FetchChecksum,
       FetchAsset, WriteDest, DestWritten, WriteMarker, MarkerWritten, WriteYAML, YAMLWritten, Remove,
       RemoveDest, RemoveMarker, RemoveYAML, Fail, NetworkError, RemoveFails, Publish, PublishYAML,
       PublishAsset, PublishSum
  <1>4. marker' \in [Deps -> Contents]
    <2>1. marker \in [Deps -> Contents] /\ run.expected \in Contents /\ None \in Contents /\ Torn \in Contents
      BY DEF TypeOK, Contents
    <2>. QED
      BY <2>1 DEF Next, vars, disk, InstallStep, RemoveStep, Fetch, Install, GetYAML, FetchChecksum,
       FetchAsset, WriteDest, DestWritten, WriteMarker, MarkerWritten, WriteYAML, YAMLWritten, Remove,
       RemoveDest, RemoveMarker, RemoveYAML, Fail, NetworkError, RemoveFails, Publish, PublishYAML,
       PublishAsset, PublishSum
  <1>5. faults' \in 0 .. MaxFaults
    <2>1. faults \in 0 .. MaxFaults
      BY DEF TypeOK
    <2>2. faults' = faults \/ Fault
      BY DEF Next, vars, disk, InstallStep, RemoveStep, Fetch, Install, GetYAML, FetchChecksum,
       FetchAsset, WriteDest, DestWritten, WriteMarker, MarkerWritten, WriteYAML, YAMLWritten, Remove,
       RemoveDest, RemoveMarker, RemoveYAML, Fail, NetworkError, RemoveFails, Publish, PublishYAML,
       PublishAsset, PublishSum
    <2>. QED
      BY <2>1, <2>2, InstallAssumption DEF Fault
  <1>6. hist' \in [touched : SUBSET Deps, orphaned : SUBSET Deps, wrong : SUBSET Deps]
    <2>. DEFINE HistType == [touched : SUBSET Deps, orphaned : SUBSET Deps, wrong : SUBSET Deps]
    <2>1. hist \in HistType
      BY DEF TypeOK
    <2>2. run.pc \in Fetching \/ Removing => Dep \in Deps
      BY DepType
    <2>3. CASE UNCHANGED hist
      BY <2>3, <2>1
    <2>4. CASE FetchChecksum \/ WriteDest \/ DestWritten \/ MarkerWritten \/ YAMLWritten
      BY <2>4, <2>1, <2>2 DEF FetchChecksum, WriteDest, DestWritten, MarkerWritten, YAMLWritten, Running, Fetching
    <2>5. CASE RemoveDest \/ RemoveMarker
      BY <2>5, <2>1, <2>2 DEF RemoveDest, RemoveMarker, Running, Removing
    <2>6. CASE Fail \/ RemoveFails
      BY <2>6, <2>1, <2>2 DEF Fail, RemoveFails, Running, Removing, Orphaning
    <2>. QED
      BY <2>3, <2>4, <2>5, <2>6 DEF Next, vars, InstallStep, RemoveStep, Fetch, Install, GetYAML,
       FetchAsset, WriteMarker, WriteYAML, Remove, RemoveYAML, NetworkError, Publish, PublishYAML,
       PublishAsset, PublishSum
  <1>. QED
    BY <1>1, <1>2, <1>3, <1>4, <1>5, <1>6, SiteGrows DEF TypeOK, RunType

\* An install keeps the version it started with, the site's newest.
LEMMA InstallVersion ==
  ASSUME TypeOK, RunOK, [Next]_vars, Installing'
  PROVE  run'.v = IF Installing THEN run.v ELSE site.yaml
  <1>1. run \in RunType /\ site.yaml \in Versions /\ Idle.pc = "idle"
    BY IdleType DEF TypeOK, RunType
  <1>2. CASE GetYAML
    BY <1>1, <1>2, AtNext DEF GetYAML, Running, Installing, Fetching
  <1>3. CASE FetchChecksum \/ DestWritten \/ MarkerWritten
    <2>1. run.v \in Versions /\ run.i + 1 \in Nat \ {0} /\ Installing
      BY <1>3 DEF FetchChecksum, DestWritten, MarkerWritten, Running, RunOK, Installing, Fetching
    <2>2. At(run.v, run.i + 1).v = run.v
      BY <2>1, AtNext
    <2>. QED
      BY <1>1, <1>3, <2>1, <2>2 DEF FetchChecksum, DestWritten, MarkerWritten, Retry, Installing, Fetching, RunType
  <1>4. CASE FetchAsset \/ NetworkError \/ WriteDest \/ WriteMarker \/ WriteYAML
    BY <1>1, <1>4 DEF FetchAsset, NetworkError, WriteDest, WriteMarker, WriteYAML, Retry, Goto, Running,
       Installing, Fetching, RunType
  <1>5. CASE UNCHANGED run
    BY <1>5 DEF Installing
  <1>6. CASE Remove \/ RemoveMarker \/ RemoveFails \/ RemoveDest
    <2>1. (run.v \in Versions /\ run.i + 1 \in Nat \ {0}) \/ Remove
      BY <1>6 DEF Remove, RemoveMarker, RemoveFails, RemoveDest, Running, Removing, RunOK
    <2>2. run'.pc \in {"rmdest", "rmyaml", "rmmarker"}
      BY <1>1, <1>6, <2>1, RemoveNext DEF Remove, RemoveMarker, RemoveFails, RemoveDest, Running, Goto, RunType
    <2>. QED
      BY <2>2 DEF Installing, Fetching
  <1>7. CASE Fetch \/ Install \/ YAMLWritten \/ RemoveYAML \/ Fail
    BY <1>1, <1>7 DEF Fetch, Install, YAMLWritten, RemoveYAML, Fail, Installing, Fetching, Command
  <1>. QED
    BY <1>2, <1>3, <1>4, <1>5, <1>6, <1>7 DEF Next, vars, InstallStep, RemoveStep, Publish, PublishYAML,
       PublishAsset, PublishSum

\* What the next checksum of a dependency can name never goes down.
LEMMA ReachedGrows ==
  ASSUME TypeOK, RunOK, [Next]_vars, NEW d \in Deps
  PROVE  Reached(d) \in Int /\ Reached(d)' \in Int /\ Reached(d) <= Reached(d)'
  <1>1. /\ site.yaml \in Int /\ site'.yaml \in Int /\ site.yaml <= site'.yaml
        /\ site.sum[d] \in Int /\ site'.sum[d] \in Int /\ site.sum[d] <= site'.sum[d]
    BY SiteGrows DEF TypeOK, Versions
  <1>2. Installing => run.v \in Int /\ run.v <= site.yaml
    BY DEF RunOK, Versions
  <1>3. Installing' => run'.v = IF Installing THEN run.v ELSE site.yaml
    BY InstallVersion
  <1>. DEFINE v == IF Installing THEN run.v ELSE site.yaml
              w == IF Installing' THEN run'.v ELSE site'.yaml
  <1>4. v \in Versions /\ w \in Versions /\ v <= w
    <2>1. site.yaml \in Versions /\ site'.yaml \in Versions
      BY SiteGrows DEF TypeOK
    <2>2. Installing => run.v \in Versions
      BY DEF RunOK
    <2>3. v \in Versions /\ v \in Int /\ v <= site.yaml
      BY <1>1, <1>2, <2>1, <2>2
    <2>4. w = v \/ w = site'.yaml
      BY <1>3
    <2>. HIDE DEF v, w
    <2>. QED
      BY <1>1, <2>1, <2>3, <2>4
  <1>5. d \in Pinned => Pin[v][d] \in Int /\ Pin[w][d] \in Int /\ Pin[v][d] <= Pin[w][d]
    <2>. HIDE DEF v, w
    <2>1. \A x \in Versions : x \in Int
      BY DEF Versions
    <2>2. Pin[v][d] \in Versions /\ Pin[w][d] \in Versions
      BY <1>4, InstallAssumption
    <2>3. d \in Pinned => Pin[v][d] <= Pin[w][d]
      BY <1>4, InstallAssumption
    <2>. QED
      BY <2>1, <2>2, <2>3
  <1>6. /\ Reached(d) = IF d \in Pinned THEN Pin[v][d] ELSE site.sum[d]
        /\ Reached(d)' = IF d \in Pinned THEN Pin[w][d] ELSE site'.sum[d]
    BY DEF Reached
  <1>. HIDE DEF v, w
  <1>. QED
    BY <1>1, <1>5, <1>6

\* The steps that leave the files and the orphans alone, and those that do not.
LEMMA FileSteps ==
  ASSUME TypeOK, [Next]_vars
  PROVE  \/ UNCHANGED <<bin, marker>> /\ hist.orphaned \subseteq hist'.orphaned
         \/ WriteDest \/ DestWritten \/ WriteMarker \/ MarkerWritten \/ RemoveDest \/ RemoveMarker
  <1>1. CASE FetchChecksum \/ YAMLWritten \/ Fail \/ RemoveFails
    BY <1>1 DEF FetchChecksum, YAMLWritten, Fail, RemoveFails, disk, TypeOK
  <1>. QED
    BY <1>1 DEF Next, vars, disk, InstallStep, RemoveStep, Fetch, Install, GetYAML, FetchAsset, WriteYAML,
       Remove, RemoveYAML, NetworkError, Publish, PublishYAML, PublishAsset, PublishSum

\* A marker stays behind what is reached, and strictly so when it is stale.
LEMMA OutdatedStep ==
  ASSUME IInv, [Next]_vars
  PROVE  Outdated'
  <1>1. TypeOK /\ RunOK /\ Outdated /\ InHand
    BY DEF IInv
  <1>2. \A d \in Deps : Reached(d) \in Int /\ Reached(d)' \in Int /\ Reached(d) <= Reached(d)'
    BY <1>1, ReachedGrows
  <1>3. bin \in [Deps -> Contents] /\ marker \in [Deps -> Contents] /\ hist.orphaned \subseteq Deps
    BY <1>1 DEF TypeOK
  <1>4. \A d \in Deps : marker[d] \in Versions => marker[d] \in Int
    BY DEF Versions
  <1>5. CASE UNCHANGED <<bin, marker>> /\ hist.orphaned \subseteq hist'.orphaned
    <2>1. \A d \in Deps : Stale(d)' => Stale(d)
      BY <1>5 DEF Stale
    <2>. QED
      BY <1>1, <1>2, <1>4, <1>5, <2>1 DEF Outdated
  <1>6. CASE WriteDest \/ DestWritten
    <2>1. Dep \in Deps
      BY <1>1, <1>6, DepType DEF WriteDest, DestWritten, Running, Fetching
    <2>2. marker' = marker /\ hist'.orphaned = hist.orphaned
      BY <1>6, <1>1 DEF WriteDest, DestWritten, TypeOK
    <2>3. \A d \in Deps : d # Dep => (Stale(d)' => Stale(d))
      BY <1>3, <1>6, <2>2 DEF WriteDest, DestWritten, Stale
    <2>4. marker[Dep] \in Versions /\ Dep \notin hist.orphaned => marker[Dep] < Reached(Dep)
      <3>1. CASE Dep \in Files
        BY <3>1, <1>1 DEF Outdated, Versions, None
      <3>2. CASE Dep \notin Files
        <4>1. run.expected \in Versions /\ run.expected <= Reached(Dep)
          BY <3>2, <1>1, <1>6 DEF InHand, WriteDest, DestWritten, Running, Versions, Html
        <4>2. marker[Dep] \in Versions /\ Dep \notin hist.orphaned => marker[Dep] < run.expected
          BY <4>1, <3>2, <1>1, <1>6 DEF InHand, WriteDest, DestWritten, Running
        <4>3. run.expected \in Int
          BY <4>1 DEF Versions
        <4>. QED
          BY <4>1, <4>2, <4>3, <1>2, <1>4, <2>1
      <3>. QED
        BY <3>1, <3>2
    <2>5. ASSUME NEW d \in Deps, marker'[d] \in Versions
          PROVE  marker'[d] <= Reached(d)' /\ (Stale(d)' => marker'[d] < Reached(d)')
      <3>1. marker[d] <= Reached(d) /\ marker[d] \in Int
        BY <1>1, <1>4, <2>2, <2>5 DEF Outdated
      <3>2. Stale(d)' => marker[d] < Reached(d)
        <4>1. CASE d = Dep
          <5>1. Stale(d)' => marker[d] \in Versions /\ d \notin hist.orphaned
            BY <2>2 DEF Stale
          <5>. QED
            BY <4>1, <5>1, <2>4
        <4>2. CASE d # Dep
          BY <4>2, <2>3, <2>2, <2>5, <1>1 DEF Outdated
        <4>. QED
          BY <4>1, <4>2
      <3>. QED
        BY <3>1, <3>2, <1>2, <2>2
    <2>. QED
      BY <1>1, <2>2, <2>5 DEF Outdated
  <1>7. CASE WriteMarker \/ RemoveMarker
    <2>1. Dep \in Deps
      BY <1>1, <1>7, DepType DEF WriteMarker, RemoveMarker, Running, Fetching, Removing
    <2>2. /\ marker'[Dep] \in {None, Torn} /\ marker'[Dep] \notin Versions /\ bin' = bin
          /\ \A d \in Deps : d # Dep => marker'[d] = marker[d]
      BY <1>3, <1>7, <2>1 DEF WriteMarker, RemoveMarker, Versions, None, Torn
    <2>3. \A d \in Files : marker'[d] = None
      <3>1. WriteMarker => Dep \notin Files
        BY <1>1 DEF WriteMarker, Running, RunOK
      <3>2. RemoveMarker => marker'[Dep] = None
        BY <1>3, <2>1 DEF RemoveMarker
      <3>. QED
        BY <3>1, <3>2, <1>1, <1>7, <2>2, InstallAssumption DEF Outdated
    <2>4. \A d \in Deps : d # Dep /\ d \notin hist'.orphaned => d \notin hist.orphaned
      <3>1. CASE WriteMarker
        BY <3>1 DEF WriteMarker
      <3>2. CASE RemoveMarker
        <4>1. hist'.orphaned = hist.orphaned \ {Dep}
          BY <3>2, <1>1 DEF RemoveMarker, TypeOK
        <4>. QED
          BY <4>1
      <3>. QED
        BY <1>7, <3>1, <3>2
    <2>5. \A d \in Deps : d # Dep => (Stale(d)' => Stale(d))
      BY <2>2, <2>4 DEF Stale
    <2>. QED
      BY <1>1, <1>2, <1>4, <2>2, <2>3, <2>5 DEF Outdated
  <1>8. CASE MarkerWritten
    <2>1. Dep \in Deps /\ Dep \notin Files
      BY <1>1, <1>8, DepType DEF MarkerWritten, Running, Fetching, RunOK
    <2>2. run.expected \in Versions /\ bin[Dep] = run.expected
      BY <1>1, <1>8 DEF InHand, MarkerWritten, Running
    <2>3. run.expected <= Reached(Dep) /\ run.expected \in Int
      BY <1>1, <1>8, <2>1, <2>2 DEF InHand, MarkerWritten, Running, Versions, Html
    <2>4. /\ marker'[Dep] = run.expected /\ bin' = bin
          /\ \A d \in Deps : d # Dep => marker'[d] = marker[d]
      BY <1>3, <1>8, <2>1 DEF MarkerWritten
    <2>5. \A d \in Deps : d # Dep /\ d \notin hist'.orphaned => d \notin hist.orphaned
      BY <1>1, <1>8 DEF MarkerWritten, TypeOK
    <2>6. \A d \in Deps : d # Dep => (Stale(d)' => Stale(d))
      BY <2>4, <2>5 DEF Stale
    <2>7. \A d \in Deps : d = Dep => ~Stale(d)'
      BY <2>2, <2>4 DEF Stale
    <2>8. ASSUME NEW d \in Deps
          PROVE  /\ marker'[d] \in Versions \union {None, Torn}
                 /\ d \in Files => marker'[d] = None
                 /\ marker'[d] \in Versions =>
                      marker'[d] <= Reached(d)' /\ (Stale(d)' => marker'[d] < Reached(d)')
      <3>1. CASE d = Dep
        <4>1. Reached(d)' \in Int /\ Reached(d) \in Int /\ Reached(d) <= Reached(d)' /\ ~Stale(d)'
          BY <3>1, <1>2, <2>7
        <4>2. marker'[d] = run.expected /\ d \notin Files /\ run.expected <= Reached(d)
          BY <3>1, <2>1, <2>3, <2>4
        <4>. QED
          BY <4>1, <4>2, <2>2, <2>3
      <3>2. CASE d # Dep
        BY <3>2, <1>1, <1>2, <1>4, <2>4, <2>6 DEF Outdated
      <3>. QED
        BY <3>1, <3>2
    <2>. QED
      BY <2>8, InstallAssumption DEF Outdated
  <1>9. CASE RemoveDest
    <2>1. Dep \in Deps
      BY <1>1, <1>9, DepType DEF RemoveDest, Running, Removing
    <2>2. /\ marker' = marker /\ bin'[Dep] = None /\ hist'.orphaned = hist.orphaned
          /\ \A d \in Deps : d # Dep => bin'[d] = bin[d]
      BY <1>1, <1>3, <1>9, <2>1 DEF RemoveDest, TypeOK
    <2>3. \A d \in Deps : Stale(d)' => Stale(d)
      BY <2>2 DEF Stale
    <2>. QED
      BY <1>1, <1>2, <1>4, <2>2, <2>3 DEF Outdated
  <1>. QED
    BY <1>5, <1>6, <1>7, <1>8, <1>9, <1>1, FileSteps

\* A marker is not left without its binary unseen.
LEMMA NoLoneMarkerStep ==
  ASSUME IInv, [Next]_vars
  PROVE  NoLoneMarker'
  <1>1. TypeOK /\ RunOK /\ NoLoneMarker /\ InHand
    BY DEF IInv
  <1>2. bin \in [Deps -> Contents] /\ marker \in [Deps -> Contents] /\ run \in RunType
    BY <1>1 DEF TypeOK, RunType
  <1>3. CASE UNCHANGED <<bin, marker>> /\ hist.orphaned \subseteq hist'.orphaned
    <2>1. ASSUME NEW d \in Deps, run.pc = "rmmarker", Dep = d
          PROVE  d \in hist'.orphaned \/ (run'.pc = "rmmarker" /\ Dep' = d) \/ RemoveMarker
      <3>1. CASE Fail \/ RemoveFails
        <4>1. Orphaning = {d}
          BY <2>1 DEF Orphaning, Running
        <4>. QED
          BY <3>1, <4>1, <1>1 DEF Fail, RemoveFails, TypeOK
      <3>2. CASE UNCHANGED run
        BY <3>2, <2>1 DEF Dep
      <3>. QED
        BY <2>1, <3>1, <3>2 DEF Next, vars, InstallStep, RemoveStep, Fetch, Install, GetYAML,
          FetchChecksum, FetchAsset, WriteDest, DestWritten, WriteMarker, MarkerWritten, WriteYAML,
          YAMLWritten, Remove, RemoveDest, RemoveYAML, NetworkError, Publish, PublishYAML, PublishAsset,
          PublishSum, Running
    <2>2. RemoveMarker => \A d \in Deps : Dep = d => marker'[d] = None
      BY <1>2 DEF RemoveMarker
    <2>3. None \notin Versions
      BY DEF Versions, None
    <2>. QED
      BY <1>1, <1>3, <2>1, <2>2, <2>3 DEF NoLoneMarker
  <1>4. CASE WriteDest \/ DestWritten
    <2>1. Dep \in Deps /\ run.pc # "rmmarker"
      BY <1>1, <1>4, DepType DEF WriteDest, DestWritten, Running, Fetching
    <2>2. bin'[Dep] # None
      <3>1. WriteDest => bin'[Dep] = Torn
        BY <1>2, <2>1 DEF WriteDest
      <3>2. DestWritten => run.data \in Versions \union {Html}
        <4>1. DestWritten => run.v \in Versions /\ run.pc = "written"
          BY <1>1 DEF DestWritten, Running, RunOK, Installing, Fetching
        <4>2. run.v \in Versions => Pin[run.v][Dep] \in Versions
          BY <2>1, InstallAssumption
        <4>. QED
          BY <1>1, <4>1, <4>2 DEF InHand
      <3>3. DestWritten => bin'[Dep] = run.data
        BY <1>2, <2>1 DEF DestWritten
      <3>. QED
        BY <1>4, <3>1, <3>2, <3>3 DEF Versions, Html, None, Torn
    <2>3. marker' = marker /\ hist'.orphaned = hist.orphaned /\ \A d \in Deps : d # Dep => bin'[d] = bin[d]
      BY <1>1, <1>2, <1>4 DEF WriteDest, DestWritten, TypeOK
    <2>. QED
      BY <1>1, <2>1, <2>2, <2>3 DEF NoLoneMarker
  <1>5. CASE WriteMarker \/ MarkerWritten
    <2>1. Dep \in Deps /\ run.pc # "rmmarker" /\ bin[Dep] # None
      BY <1>1, <1>5, DepType DEF WriteMarker, MarkerWritten, Running, Fetching, InHand, Versions, None
    <2>2. bin' = bin /\ \A d \in Deps : d # Dep => marker'[d] = marker[d]
      BY <1>2, <1>5 DEF WriteMarker, MarkerWritten
    <2>3. \A d \in Deps : d # Dep /\ d \in hist.orphaned => d \in hist'.orphaned
      BY <1>1, <1>5 DEF WriteMarker, MarkerWritten, TypeOK
    <2>. QED
      BY <1>1, <2>1, <2>2, <2>3 DEF NoLoneMarker
  <1>6. CASE RemoveDest
    <2>1. run'.pc = "rmmarker" /\ Dep' = Dep /\ run.pc # "rmmarker"
      BY <1>2, <1>6 DEF RemoveDest, Goto, Running, RunType, Dep
    <2>2. marker' = marker /\ hist'.orphaned = hist.orphaned /\ \A d \in Deps : d # Dep => bin'[d] = bin[d]
      BY <1>1, <1>2, <1>6 DEF RemoveDest, TypeOK
    <2>. QED
      BY <1>1, <2>1, <2>2 DEF NoLoneMarker
  <1>7. CASE RemoveMarker
    <2>1. hist'.orphaned = hist.orphaned \ {Dep}
      BY <1>1, <1>7 DEF RemoveMarker, TypeOK
    <2>2. bin' = bin /\ \A d \in Deps : marker'[d] = IF d = Dep THEN None ELSE marker[d]
      BY <1>2, <1>7 DEF RemoveMarker
    <2>3. None \notin Versions
      BY DEF Versions, None
    <2>. QED
      BY <1>1, <2>1, <2>2, <2>3 DEF NoLoneMarker
  <1>. QED
    BY <1>1, <1>3, <1>4, <1>5, <1>6, <1>7, FileSteps

\* Only a binary whose marker a removal left behind is ever skipped wrongly.
LEMMA SkipStep ==
  ASSUME IInv, [Next]_vars
  PROVE  SkipSound'
  <1>1. TypeOK /\ RunOK /\ Outdated /\ InHand /\ SkipSound
    BY DEF IInv
  <1>2. CASE UNCHANGED hist.wrong /\ hist.orphaned \subseteq hist'.orphaned
    BY <1>1, <1>2 DEF SkipSound
  <1>3. CASE FetchChecksum
    <2>. DEFINE got == Served(site.sum, Dep, run.v)
    <2>1. hist'.orphaned = hist.orphaned
      BY <1>1, <1>3 DEF FetchChecksum, TypeOK
    <2>2. CASE hist'.wrong = hist.wrong
      BY <1>1, <2>1, <2>2 DEF SkipSound
    <2>3. CASE UpToDate(Dep, got) /\ bin[Dep] # got /\ hist'.wrong = hist.wrong \union {Dep}
      <3>1. Dep \in Deps /\ run.v \in Versions /\ Installing
        BY <1>1, <1>3, DepType DEF FetchChecksum, Running, Fetching, RunOK, Installing
      <3>2. /\ got \in Versions \union {Html}
            /\ Dep \in Pinned /\ got # Html => got = Pin[run.v][Dep]
            /\ Dep \notin Pinned /\ got # Html => got = site.sum[Dep]
        BY <1>1, <3>1, ServedType DEF TypeOK
      <3>3. marker[Dep] = got /\ bin[Dep] # None /\ got # Html
        BY <1>1, <2>3, <3>1 DEF UpToDate, Outdated, Versions, None, Torn, Html
      <3>4. got = Reached(Dep)
        BY <3>1, <3>2, <3>3 DEF Reached
      <3>5. marker[Dep] \in Versions /\ ~(marker[Dep] < Reached(Dep))
        BY <3>2, <3>3, <3>4 DEF Versions
      <3>6. ~Stale(Dep)
        BY <3>1, <3>5, <1>1 DEF Outdated
      <3>7. Dep \in hist.orphaned
        BY <3>3, <3>5, <3>6, <2>3 DEF Stale
      <3>. QED
        BY <1>1, <2>1, <2>3, <3>7 DEF SkipSound
    <2>. QED
      BY <1>1, <1>3, <2>2, <2>3 DEF FetchChecksum, TypeOK
  <1>4. CASE DestWritten \/ RemoveDest
    <2>1. hist'.orphaned = hist.orphaned /\ hist'.wrong \subseteq hist.wrong
      BY <1>1, <1>4 DEF DestWritten, RemoveDest, TypeOK
    <2>. QED
      BY <1>1, <2>1 DEF SkipSound
  <1>5. CASE MarkerWritten
    <2>1. hist'.orphaned = hist.orphaned \ {Dep} /\ hist'.wrong = hist.wrong /\ Dep \notin hist.wrong
      BY <1>1, <1>5 DEF MarkerWritten, TypeOK, InHand, Running
    <2>. QED
      BY <1>1, <2>1 DEF SkipSound
  <1>6. CASE RemoveMarker
    <2>1. hist'.orphaned = hist.orphaned \ {Dep} /\ hist'.wrong = hist.wrong \ {Dep}
      BY <1>1, <1>6 DEF RemoveMarker, TypeOK
    <2>. QED
      BY <1>1, <2>1 DEF SkipSound
  <1>7. CASE WriteDest \/ YAMLWritten \/ Fail \/ RemoveFails
    BY <1>1, <1>2, <1>7 DEF WriteDest, YAMLWritten, Fail, RemoveFails, TypeOK
  <1>. QED
    BY <1>2, <1>3, <1>4, <1>5, <1>6, <1>7 DEF Next, vars, InstallStep, RemoveStep, Fetch, Install, GetYAML,
       FetchAsset, WriteMarker, WriteYAML, Remove, RemoveYAML, NetworkError, Publish, PublishYAML,
       PublishAsset, PublishSum

\* A command that has just turned to an entry, or ended, has nothing in hand.
LEMMA EmptyHanded ==
  ASSUME run'.pc \notin {"write", "written", "mark", "marked"}, run'.pc = "asset" => Dep' \in Files
  PROVE  InHand'
  BY DEF InHand

\* Another attempt, or a new release, leaves what is in hand as it was.
LEMMA HandKept ==
  ASSUME IInv, [Next]_vars, UNCHANGED <<bin, marker, hist>>,
         run'.pc = run.pc, run'.v = run.v, run'.i = run.i,
         run'.expected = run.expected, run'.data = run.data
  PROVE  InHand'
  <1>1. TypeOK /\ RunOK /\ InHand
    BY DEF IInv
  <1>2. Dep' = Dep
    BY DEF Dep
  <1>3. run.pc \in Fetching =>
          Dep \in Deps /\ Reached(Dep) \in Int /\ Reached(Dep)' \in Int /\ Reached(Dep) <= Reached(Dep)'
    <2>1. SUFFICES ASSUME run.pc \in Fetching
                   PROVE  Dep \in Deps /\ Reached(Dep) \in Int /\ Reached(Dep)' \in Int
                          /\ Reached(Dep) <= Reached(Dep)'
      OBVIOUS
    <2>2. Dep \in Deps
      BY <1>1, <2>1, DepType
    <2>3. PICK d \in Deps : d = Dep
      BY <2>2
    <2>4. Reached(d) \in Int /\ Reached(d)' \in Int /\ Reached(d) <= Reached(d)'
      BY <1>1, ReachedGrows
    <2>5. Reached(Dep)' = Reached(d)'
      BY <1>2, <2>3 DEF Reached
    <2>. QED
      BY <2>2, <2>3, <2>4, <2>5
  <1>4. run.expected \in Versions => run.expected \in Int
    BY DEF Versions
  <1>. QED
    BY <1>1, <1>2, <1>3, <1>4 DEF InHand, Fetching

\* The hand of an install holds the content its checksum promised.
LEMMA InHandStep ==
  ASSUME IInv, [Next]_vars
  PROVE  InHand'
  <1>1. TypeOK /\ RunOK /\ Outdated /\ NoLoneMarker /\ InHand /\ SkipSound /\ run \in RunType
    BY DEF IInv, TypeOK, RunType
  <1>2. ASSUME run' = Idle PROVE InHand'
    BY <1>2, IdleType, EmptyHanded
  <1>3. ASSUME NEW v \in Versions, NEW j \in Nat \ {0}, run' = At(v, j) PROVE InHand'
    BY <1>3, AtNext, EmptyHanded DEF Dep
  <1>4. ASSUME run'.pc \in {"idle", "get", "sum", "yaml", "named", "rmdest", "rmmarker", "rmyaml"}
        PROVE  InHand'
    BY <1>4, EmptyHanded
  <1>5. ASSUME Retry, run.pc \in {"sum", "asset"}, UNCHANGED <<bin, marker, hist>> PROVE InHand'
    BY <1>1, <1>2, <1>5, HandKept DEF Retry, RunType
  <1>6. ASSUME Installing PROVE run.v \in Versions /\ run.i + 1 \in Nat \ {0}
    BY <1>1, <1>6 DEF RunOK
  <1>7. CASE Fetch \/ Install \/ WriteYAML \/ RemoveDest
    BY <1>1, <1>4, <1>7 DEF Fetch, Install, WriteYAML, RemoveDest, Goto, RunType, Command
  <1>8. CASE GetYAML
    BY <1>1, <1>2, <1>3, <1>8 DEF GetYAML, TypeOK
  <1>9. CASE YAMLWritten \/ RemoveYAML \/ Fail
    BY <1>2, <1>9 DEF YAMLWritten, RemoveYAML, Fail
  <1>10. CASE Remove \/ RemoveMarker \/ RemoveFails
    <2>1. Remove \/ (run.v \in Versions /\ run.i + 1 \in Nat \ {0})
      BY <1>1, <1>10 DEF RemoveMarker, RemoveFails, Running, Removing, RunOK
    <2>2. run'.pc \in {"rmdest", "rmyaml", "rmmarker"}
      BY <1>1, <1>10, <2>1, RemoveNext DEF Remove, RemoveMarker, RemoveFails, Running, RunType
    <2>. QED
      BY <2>2, <1>4
  <1>11. CASE NetworkError
    BY <1>5, <1>11 DEF NetworkError, disk
  <1>12. CASE MarkerWritten
    BY <1>3, <1>6, <1>12 DEF MarkerWritten, Running, Installing, Fetching
  <1>13. CASE UNCHANGED run /\ UNCHANGED <<bin, marker, hist>>
    BY <1>13, HandKept
  <1>14. CASE FetchChecksum
    <2>. DEFINE got == Served(site.sum, Dep, run.v)
    <2>1. Dep \in Deps /\ run.v \in Versions /\ Installing /\ Dep \notin Files /\ run.pc # "rmmarker"
      BY <1>1, <1>14, DepType DEF FetchChecksum, Running, Fetching, RunOK, Installing
    <2>2. CASE NotPublishedYet(Dep, got)
      BY <2>2, <1>5, <1>14 DEF FetchChecksum, Running, disk
    <2>3. CASE ~NotPublishedYet(Dep, got) /\ UpToDate(Dep, got)
      BY <2>1, <2>3, <1>3, <1>6, <1>14 DEF FetchChecksum
    <2>4. CASE ~NotPublishedYet(Dep, got) /\ ~UpToDate(Dep, got)
      <3>1. /\ run'.pc = "asset" /\ run'.expected = got /\ run'.v = run.v /\ run'.i = run.i
            /\ UNCHANGED <<site, bin, marker, hist>>
        BY <1>1, <1>14, <2>4 DEF FetchChecksum, RunType, disk
      <3>2. /\ got \in Versions \union {Html}
            /\ Dep \in Pinned => got = Pin[run.v][Dep]
            /\ Dep \notin Pinned /\ got # Html => got = site.sum[Dep]
        BY <1>1, <2>1, <2>4, ServedType DEF TypeOK, NotPublishedYet
      <3>3. Dep' = Dep /\ Reached(Dep)' = Reached(Dep)
        BY <3>1, <2>1 DEF Dep, Reached, Installing, Fetching
      <3>4. got # Html => got = Reached(Dep)
        BY <2>1, <3>2 DEF Reached
      <3>5. got # Html => got \in Versions /\ got <= Reached(Dep)
        BY <3>2, <3>4 DEF Versions
      <3>6. ASSUME got \in Versions, marker[Dep] \in Versions, Dep \notin hist.orphaned
            PROVE  marker[Dep] < got
        <4>1. bin[Dep] # None
          BY <1>1, <2>1, <3>6 DEF NoLoneMarker
        <4>2. marker[Dep] # got
          BY <4>1, <2>4 DEF UpToDate
        <4>3. marker[Dep] <= Reached(Dep) /\ got = Reached(Dep)
          BY <1>1, <2>1, <3>4, <3>6 DEF Outdated, Versions, Html
        <4>. QED
          BY <4>2, <4>3, <3>6 DEF Versions
      <3>. QED
        BY <3>1, <3>2, <3>3, <3>5, <3>6 DEF InHand
    <2>. QED
      BY <2>2, <2>3, <2>4
  <1>15. CASE FetchAsset
    <2>. DEFINE got == Served(site.asset, Dep, run.v)
    <2>1. Dep \in Deps /\ run.v \in Versions /\ Installing
      BY <1>1, <1>15, DepType DEF FetchAsset, Running, Fetching, RunOK, Installing
    <2>2. CASE NotPublishedYet(Dep, got)
      BY <2>2, <1>5, <1>15 DEF FetchAsset, Running, disk
    <2>3. CASE ~NotPublishedYet(Dep, got) /\ ~Verified(got)
      BY <2>3, <1>2, <1>15 DEF FetchAsset
    <2>4. CASE ~NotPublishedYet(Dep, got) /\ Verified(got)
      <3>1. /\ run'.pc = "write" /\ run'.data = got /\ run'.expected = run.expected
            /\ run'.v = run.v /\ run'.i = run.i /\ UNCHANGED <<site, bin, marker, hist>>
        BY <1>1, <1>15, <2>4 DEF FetchAsset, RunType, disk
      <3>2. /\ got \in Versions \union {Html}
            /\ Dep \in Pinned => got = Pin[run.v][Dep]
        BY <1>1, <2>1, <2>4, ServedType DEF TypeOK, NotPublishedYet
      <3>3. Dep' = Dep /\ Reached(Dep)' = Reached(Dep)
        BY <3>1, <2>1 DEF Dep, Reached, Installing, Fetching
      <3>4. Dep \notin Files => got = run.expected /\ got \in Versions
        BY <2>4, <3>2 DEF Verified
      <3>5. run.pc = "asset"
        BY <1>15 DEF FetchAsset, Running
      <3>. QED
        BY <1>1, <3>1, <3>2, <3>3, <3>4, <3>5 DEF InHand
    <2>. QED
      BY <2>2, <2>3, <2>4
  <1>16. CASE WriteDest
    <2>1. Dep \in Deps /\ run.pc = "write"
      BY <1>1, <1>16, DepType DEF WriteDest, Running, Fetching
    <2>2. /\ run'.pc = "written" /\ run'.data = run.data /\ run'.expected = run.expected
          /\ run'.v = run.v /\ run'.i = run.i /\ UNCHANGED <<site, marker>>
      BY <1>1, <1>16 DEF WriteDest, Goto, RunType
    <2>3. /\ bin'[Dep] = Torn /\ hist'.orphaned = hist.orphaned /\ Dep \in hist'.touched
      BY <1>1, <1>16, <2>1 DEF WriteDest, TypeOK
    <2>4. Dep' = Dep /\ Reached(Dep)' = Reached(Dep)
      BY <2>1, <2>2 DEF Dep, Reached, Installing, Fetching
    <2>. QED
      BY <1>1, <2>1, <2>2, <2>3, <2>4 DEF InHand
  <1>17. CASE DestWritten
    <2>1. Dep \in Deps /\ run.pc = "written" /\ Installing
      BY <1>1, <1>17, DepType DEF DestWritten, Running, Fetching, Installing
    <2>2. CASE Dep \in Files
      BY <2>1, <2>2, <1>3, <1>6, <1>17 DEF DestWritten
    <2>3. CASE Dep \notin Files
      <3>1. /\ run'.pc = "mark" /\ run'.expected = run.expected
            /\ run'.v = run.v /\ run'.i = run.i /\ UNCHANGED <<site, marker>>
        BY <1>1, <1>17, <2>3 DEF DestWritten, RunType
      <3>2. /\ bin'[Dep] = run.data /\ hist'.orphaned = hist.orphaned /\ Dep \notin hist'.wrong
            /\ hist'.touched = hist.touched
        BY <1>1, <1>17, <2>1 DEF DestWritten, TypeOK
      <3>3. Dep' = Dep /\ Reached(Dep)' = Reached(Dep)
        BY <2>1, <3>1 DEF Dep, Reached, Installing, Fetching
      <3>. QED
        BY <1>1, <2>1, <2>3, <3>1, <3>2, <3>3 DEF InHand
    <2>. QED
      BY <2>2, <2>3
  <1>18. CASE WriteMarker
    <2>1. Dep \in Deps /\ run.pc = "mark"
      BY <1>1, <1>18, DepType DEF WriteMarker, Running, Fetching
    <2>2. /\ run'.pc = "marked" /\ run'.expected = run.expected
          /\ run'.v = run.v /\ run'.i = run.i /\ UNCHANGED <<site, bin, hist>>
      BY <1>1, <1>18 DEF WriteMarker, Goto, RunType
    <2>3. marker'[Dep] \notin Versions
      BY <1>1, <1>18, <2>1 DEF WriteMarker, TypeOK, Versions, Torn
    <2>4. Dep' = Dep /\ Reached(Dep)' = Reached(Dep)
      BY <2>1, <2>2 DEF Dep, Reached, Installing, Fetching
    <2>. QED
      BY <1>1, <2>1, <2>2, <2>3, <2>4 DEF InHand
  <1>. QED
    BY <1>7, <1>8, <1>9, <1>10, <1>11, <1>12, <1>13, <1>14, <1>15, <1>16, <1>17, <1>18
    DEF Next, vars, disk, InstallStep, RemoveStep, Publish, PublishYAML, PublishAsset, PublishSum

\* Entries already passed are usable, or were skipped wrongly.
LEMMA PassedStep ==
  ASSUME IInv, Passed, [Next]_vars
  PROVE  Passed'
  <1>1. TypeOK /\ RunOK /\ Outdated /\ InHand /\ run \in RunType
    BY DEF IInv, TypeOK, RunType
  <1>2. ASSUME run'.pc \in {"idle", "get", "rmdest", "rmmarker", "rmyaml"} PROVE Passed'
    BY <1>2 DEF Passed, Installing, Fetching
  <1>3. ASSUME Installing, run'.v = run.v, run'.i = run.i, UNCHANGED <<bin, hist>>, run.pc # "written"
        PROVE  Passed'
    BY <1>3 DEF Passed
  <1>4. ASSUME Installing, run' = At(run.v, run.i + 1), run.pc \in Fetching,
               \A d \in Deps : d # Dep => bin'[d] = bin[d] /\ (d \in hist.wrong => d \in hist'.wrong),
               NEW e \in Deps, e = Dep, Fits(bin'[e], e, run.v) \/ e \in hist'.wrong
        PROVE  Passed'
    <2>1. run.v \in Versions /\ run.i \in Nat \ {0} /\ run.i <= Len(List[run.v])
      BY <1>1, <1>4 DEF RunOK
    <2>2. run'.v = run.v /\ run'.i = run.i + 1 /\ Len(List[run.v]) \in Nat
      BY <1>4, <2>1, AtNext, ListEntry
    <2>3. ASSUME NEW j \in 1 .. run.i
          PROVE  LET d == List[run.v][j] IN Fits(bin'[d], d, run.v) \/ d \in hist'.wrong
      <3>1. PICK d \in Deps : d = List[run.v][j]
        BY <2>1, <2>2, <2>3, ListEntry
      <3>2. CASE d = e
        BY <3>1, <3>2, <1>4
      <3>3. CASE d # e
        <4>1. j \in 1 .. run.i - 1
          BY <2>1, <2>3, <3>1, <3>3, <1>4 DEF Dep
        <4>2. Fits(bin[d], d, run.v) \/ d \in hist.wrong
          BY <4>1, <3>1, <3>3, <1>4 DEF Passed
        <4>. QED
          BY <4>2, <3>1, <3>3, <1>4
      <3>. QED
        BY <3>2, <3>3
    <2>4. 1 .. run'.i - 1 = 1 .. run.i
      BY <2>1, <2>2
    <2>. QED
      BY <2>2, <2>3, <2>4 DEF Passed
  <1>5. ASSUME Installing PROVE run.v \in Versions
    BY <1>1, <1>5 DEF RunOK
  <1>6. CASE Fetch \/ Install \/ YAMLWritten \/ RemoveYAML \/ Fail \/ RemoveDest
    BY <1>1, <1>2, <1>6, IdleType DEF Fetch, Install, YAMLWritten, RemoveYAML, Fail, RemoveDest, Goto,
       RunType, Command
  <1>7. CASE Remove \/ RemoveMarker \/ RemoveFails
    <2>1. Remove \/ (run.v \in Versions /\ run.i + 1 \in Nat \ {0})
      BY <1>1, <1>7 DEF RemoveMarker, RemoveFails, Running, Removing, RunOK
    <2>2. run'.pc \in {"rmdest", "rmyaml", "rmmarker"}
      BY <1>1, <1>7, <2>1, RemoveNext DEF Remove, RemoveMarker, RemoveFails, Running, RunType
    <2>. QED
      BY <2>2, <1>2
  <1>8. CASE GetYAML
    <2>1. CASE run' = Idle
      BY <2>1, <1>2, IdleType
    <2>2. CASE run' = At(site.yaml, 1)
      <3>1. run'.i = 1 /\ 1 .. run'.i - 1 = {}
        BY <2>2, <1>1, AtNext DEF TypeOK
      <3>. QED
        BY <3>1 DEF Passed
    <2>. QED
      BY <1>8, <2>1, <2>2 DEF GetYAML
  <1>9. ASSUME Retry, run.pc \in {"sum", "asset"}, UNCHANGED <<bin, hist>> PROVE Passed'
    <2>1. CASE run' = Idle
      BY <2>1, <1>2, IdleType
    <2>2. CASE run' # Idle
      <3>1. run'.v = run.v /\ run'.i = run.i /\ Installing /\ run.pc # "written"
        BY <2>2, <1>1, <1>9 DEF Retry, RunType, Installing, Fetching
      <3>. QED
        BY <3>1, <1>3, <1>9
    <2>. QED
      BY <2>1, <2>2
  <1>10. CASE NetworkError
    BY <1>9, <1>10 DEF NetworkError, disk
  <1>11. CASE FetchChecksum
    <2>. DEFINE got == Served(site.sum, Dep, run.v)
    <2>1. Dep \in Deps /\ run.v \in Versions /\ Installing /\ run.pc = "sum" /\ run.pc \in Fetching
      BY <1>1, <1>11, DepType DEF FetchChecksum, Running, Fetching, RunOK, Installing
    <2>2. CASE NotPublishedYet(Dep, got)
      BY <2>2, <1>9, <1>11 DEF FetchChecksum, Running, disk
    <2>3. CASE ~NotPublishedYet(Dep, got) /\ UpToDate(Dep, got)
      <3>1. run' = At(run.v, run.i + 1) /\ bin' = bin
        BY <1>11, <2>3 DEF FetchChecksum, disk
      <3>2. hist.wrong \subseteq hist'.wrong /\ (bin[Dep] # got => Dep \in hist'.wrong)
        BY <1>1, <1>11, <2>3 DEF FetchChecksum, TypeOK
      <3>3. got \in Versions \union {Html} /\ (Dep \in Pinned /\ got # Html => got = Pin[run.v][Dep])
        BY <1>1, <2>1, ServedType DEF TypeOK
      <3>4. got # Html
        BY <1>1, <2>1, <2>3 DEF UpToDate, Outdated, Versions, None, Torn, Html
      <3>5. Fits(got, Dep, run.v)
        BY <3>3, <3>4 DEF Fits
      <3>. QED
        BY <3>1, <3>2, <3>5, <2>1, <1>4
    <2>4. CASE ~NotPublishedYet(Dep, got) /\ ~UpToDate(Dep, got)
      <3>1. run'.v = run.v /\ run'.i = run.i /\ UNCHANGED <<bin, hist>>
        BY <2>4, <1>1, <1>11 DEF FetchChecksum, RunType, disk
      <3>. QED
        BY <2>1, <3>1, <1>3
    <2>. QED
      BY <2>2, <2>3, <2>4
  <1>12. CASE FetchAsset
    <2>. DEFINE got == Served(site.asset, Dep, run.v)
    <2>1. Installing /\ run.pc = "asset" /\ UNCHANGED <<bin, hist>>
      BY <1>12 DEF FetchAsset, Running, Fetching, Installing, disk
    <2>2. CASE NotPublishedYet(Dep, got)
      BY <2>1, <2>2, <1>9, <1>12 DEF FetchAsset
    <2>3. CASE ~NotPublishedYet(Dep, got) /\ ~Verified(got)
      BY <2>3, <1>2, <1>12, IdleType DEF FetchAsset
    <2>4. CASE ~NotPublishedYet(Dep, got) /\ Verified(got)
      <3>1. run'.v = run.v /\ run'.i = run.i
        BY <2>4, <1>1, <1>12 DEF FetchAsset, RunType
      <3>. QED
        BY <2>1, <3>1, <1>3
    <2>. QED
      BY <2>2, <2>3, <2>4
  <1>13. CASE WriteDest
    <2>1. Installing /\ run.pc = "write" /\ Dep \in Deps /\ run.v \in Versions
      BY <1>1, <1>5, <1>13, DepType DEF WriteDest, Running, Fetching, Installing
    <2>2. /\ run'.pc = "written" /\ run'.v = run.v /\ run'.i = run.i /\ hist'.wrong = hist.wrong
          /\ \A d \in Deps : d # Dep => bin'[d] = bin[d]
      BY <1>1, <1>13 DEF WriteDest, Goto, RunType, TypeOK
    <2>3. Dep' = Dep
      BY <2>2 DEF Dep
    <2>4. \A j \in 1 .. run.i - 1 : List[run.v][j] \in Deps
      <3>1. run.i \in Nat \ {0} /\ run.i <= Len(List[run.v]) /\ Len(List[run.v]) \in Nat
        BY <1>1, <2>1, ListEntry DEF RunOK, Fetching
      <3>. QED
        BY <3>1, <2>1, ListEntry
    <2>. QED
      BY <2>1, <2>2, <2>3, <2>4 DEF Passed
  <1>14. CASE DestWritten
    <2>1. Installing /\ run.pc = "written" /\ run.pc \in Fetching /\ Dep \in Deps /\ run.v \in Versions
      BY <1>1, <1>5, <1>14, DepType DEF DestWritten, Running, Fetching, Installing
    <2>2. /\ hist'.wrong = hist.wrong \ {Dep} /\ bin'[Dep] = run.data
          /\ \A d \in Deps : d # Dep => bin'[d] = bin[d]
      BY <1>1, <1>14, <2>1 DEF DestWritten, TypeOK
    <2>3. Fits(run.data, Dep, run.v)
      BY <1>1, <2>1 DEF Fits, InHand
    <2>4. CASE Dep \in Files
      <3>1. run' = At(run.v, run.i + 1)
        BY <1>14, <2>4 DEF DestWritten
      <3>2. PICK e \in Deps : e = Dep
        BY <2>1
      <3>. QED
        BY <1>4, <2>1, <2>2, <2>3, <3>1, <3>2
    <2>5. CASE Dep \notin Files
      <3>1. run'.pc = "mark" /\ run'.v = run.v /\ run'.i = run.i
        BY <1>1, <1>14, <2>5 DEF DestWritten, RunType
      <3>2. \A j \in 1 .. run.i - 1 : List[run.v][j] \in Deps
        <4>1. run.i \in Nat \ {0} /\ run.i <= Len(List[run.v]) /\ Len(List[run.v]) \in Nat
          BY <1>1, <2>1, ListEntry DEF RunOK
        <4>. QED
          BY <4>1, <2>1, ListEntry
      <3>. QED
        BY <2>1, <2>2, <2>3, <3>1, <3>2 DEF Passed
    <2>. QED
      BY <2>4, <2>5
  <1>15. CASE WriteMarker \/ WriteYAML
    <2>1. Installing /\ run.pc # "written" /\ run'.v = run.v /\ run'.i = run.i /\ UNCHANGED <<bin, hist>>
      BY <1>1, <1>15 DEF WriteMarker, WriteYAML, Running, Goto, RunType, Installing, Fetching
    <2>. QED
      BY <2>1, <1>3
  <1>16. CASE MarkerWritten
    <2>1. Installing /\ run.pc = "marked" /\ run.pc \in Fetching /\ Dep \in Deps /\ run.v \in Versions
      BY <1>1, <1>5, <1>16, DepType DEF MarkerWritten, Running, Fetching, Installing
    <2>2. hist'.wrong = hist.wrong /\ bin' = bin /\ run' = At(run.v, run.i + 1)
      BY <1>1, <1>16 DEF MarkerWritten, TypeOK
    <2>3. Dep \notin Files
      BY <1>1, <2>1 DEF RunOK
    <2>4. Fits(bin[Dep], Dep, run.v)
      BY <1>1, <2>1, <2>3 DEF Fits, InHand
    <2>5. PICK e \in Deps : e = Dep
      BY <2>1
    <2>. QED
      BY <1>4, <2>1, <2>2, <2>4, <2>5
  <1>17. CASE UNCHANGED <<run, bin, hist>>
    <2>1. Dep' = Dep
      BY <1>17 DEF Dep
    <2>. QED
      BY <2>1, <1>17 DEF Passed, Installing
  <1>. QED
    BY <1>6, <1>7, <1>8, <1>10, <1>11, <1>12, <1>13, <1>14, <1>15, <1>16, <1>17
    DEF Next, vars, disk, InstallStep, RemoveStep, Publish, PublishYAML, PublishAsset, PublishSum

\* The YAML is written last, and what overwrites a file afterwards is noted.
LEMMA KnownStep ==
  ASSUME IInv, Passed, KnownComplete, [Next]_vars
  PROVE  KnownComplete'
  <1>1. TypeOK /\ RunOK /\ run \in RunType
    BY DEF IInv, TypeOK, RunType
  <1>2. CASE YAMLWritten
    <2>1. /\ Installing /\ run.pc = "named" /\ run.v \in Versions /\ run.i \in Nat
          /\ run.i > Len(List[run.v]) /\ Len(List[run.v]) \in Nat
      BY <1>1, <1>2, ListEntry DEF YAMLWritten, Running, Installing, RunOK
    <2>2. yaml' = run.v /\ bin' = bin /\ hist'.wrong = hist.wrong
      BY <1>1, <1>2 DEF YAMLWritten, TypeOK
    <2>3. ASSUME NEW d \in Listed(run.v), d \notin hist.wrong PROVE Fits(bin[d], d, run.v)
      <3>1. PICK j \in DOMAIN List[run.v] : d = List[run.v][j]
        BY <2>3 DEF Listed
      <3>2. List[run.v] \in Seq(Deps)
        BY <2>1, InstallAssumption
      <3>3. j \in 1 .. run.i - 1
        BY <2>1, <3>1, <3>2
      <3>. QED
        BY <2>1, <2>3, <3>1, <3>3 DEF Passed
    <2>. QED
      BY <2>2, <2>3 DEF KnownComplete, Usable
  <1>3. CASE yaml' \notin Versions
    BY <1>3 DEF KnownComplete
  <1>4. ASSUME yaml' = yaml,
               \A d \in Deps : bin'[d] = bin[d] \/ d \in hist'.touched \union hist'.wrong,
               \A d \in Deps : d \in hist.touched \union hist.wrong => d \in hist'.touched \union hist'.wrong
        PROVE  KnownComplete'
    <2>1. SUFFICES ASSUME yaml \in Versions, NEW d \in Listed(yaml), d \notin hist'.touched \union hist'.wrong
                   PROVE  Fits(bin'[d], d, yaml)
      BY <1>4 DEF KnownComplete, Usable
    <2>2. d \in Deps
      BY <2>1, InstallAssumption DEF Listed
    <2>3. bin'[d] = bin[d] /\ d \notin hist.touched \union hist.wrong
      BY <1>4, <2>1, <2>2
    <2>. QED
      BY <2>1, <2>3 DEF KnownComplete, Usable
  <1>5. CASE WriteYAML \/ RemoveYAML
    BY <1>3, <1>5 DEF WriteYAML, RemoveYAML, Versions, Torn, None
  <1>6. CASE WriteDest \/ RemoveDest \/ RemoveMarker
    <2>1. Dep \in Deps
      BY <1>1, <1>6, DepType DEF WriteDest, RemoveDest, RemoveMarker, Running, Fetching, Removing
    <2>2. /\ yaml' = yaml /\ hist'.touched = hist.touched \union {Dep}
          /\ hist'.wrong \in {hist.wrong, hist.wrong \ {Dep}}
          /\ \A d \in Deps : d # Dep => bin'[d] = bin[d]
      BY <1>1, <1>6 DEF WriteDest, RemoveDest, RemoveMarker, TypeOK
    <2>. QED
      BY <1>4, <2>1, <2>2
  <1>7. CASE DestWritten
    <2>1. Dep \in Deps /\ Dep \in hist.touched
      BY <1>1, <1>7, DepType DEF DestWritten, Running, Fetching, IInv, InHand
    <2>2. /\ yaml' = yaml /\ hist'.touched = hist.touched /\ hist'.wrong = hist.wrong \ {Dep}
          /\ \A d \in Deps : d # Dep => bin'[d] = bin[d]
      BY <1>1, <1>7 DEF DestWritten, TypeOK
    <2>. QED
      BY <1>4, <2>1, <2>2
  <1>8. CASE FetchChecksum \/ MarkerWritten \/ Fail \/ RemoveFails
    <2>1. /\ yaml' = yaml /\ bin' = bin /\ hist'.touched = hist.touched
          /\ hist.wrong \subseteq hist'.wrong
      BY <1>1, <1>8 DEF FetchChecksum, MarkerWritten, Fail, RemoveFails, TypeOK, disk
    <2>. QED
      BY <1>4, <2>1
  <1>9. CASE UNCHANGED <<yaml, bin, hist>>
    BY <1>4, <1>9
  <1>. QED
    BY <1>2, <1>5, <1>6, <1>7, <1>8, <1>9
    DEF Next, vars, disk, InstallStep, RemoveStep, Publish, PublishYAML, PublishAsset, PublishSum, Fetch,
        Install, GetYAML, FetchAsset, WriteMarker, Remove, NetworkError

-----------------------------------------------------------------------------
(* Theorems                                                                *)

\* Nothing is installed, no command runs.
LEMMA InitInv ==
  ASSUME Init
  PROVE  IInv /\ KInv
  <1>. USE DEF Init, NoHistory
  <1>1. run \in RunType /\ run.pc = "idle"
    BY IdleType
  <1>2. TypeOK
    <2>1. 1 \in Versions /\ 0 \in 0 .. MaxVersion /\ None \in Contents /\ 0 \in 0 .. MaxFaults
      BY InstallAssumption DEF Versions, Contents
    <2>. QED
      BY <1>1, <2>1 DEF TypeOK, RunType
  <1>3. RunOK /\ InHand /\ Passed /\ SkipSound
    BY <1>1 DEF RunOK, InHand, Passed, Installing, Removing, Fetching, SkipSound
  <1>4. None \notin Versions
    BY DEF None, Versions
  <1>5. Outdated /\ NoLoneMarker /\ KnownComplete
    BY <1>4, InstallAssumption DEF Outdated, NoLoneMarker, KnownComplete
  <1>. QED
    BY <1>2, <1>3, <1>5 DEF IInv, KInv

\* Every step keeps the invariant.
LEMMA InvStep ==
  ASSUME IInv, KInv, [Next]_vars
  PROVE  IInv' /\ KInv'
  <1>1. TypeOK /\ RunOK /\ Outdated /\ NoLoneMarker /\ InHand /\ SkipSound /\ Passed /\ KnownComplete
    BY DEF IInv, KInv
  <1>2. TypeOK' /\ RunOK'
    BY <1>1, TypeStep, RunStep
  <1>3. Outdated' /\ NoLoneMarker'
    BY OutdatedStep, NoLoneMarkerStep
  <1>4. SkipSound' /\ InHand'
    BY SkipStep, InHandStep
  <1>5. Passed' /\ KnownComplete'
    BY <1>1, PassedStep, KnownStep
  <1>. QED
    BY <1>2, <1>3, <1>4, <1>5 DEF IInv, KInv

\* The files, the site and the command keep their shape.
THEOREM TypeCorrect == Spec => []TypeOK
  <1>1. IInv => TypeOK
    BY DEF IInv
  <1>. QED
    BY <1>1, InitInv, InvStep, PTL DEF Spec

\* A binary taken for up to date is the expected one, unless a removal left its
\* marker behind: installDependency's shortcut for any lists, versions, faults.
THEOREM SkipsAreSound == Spec => []SkipSound
  <1>1. IInv => SkipSound
    BY DEF IInv
  <1>. QED
    BY <1>1, InitInv, InvStep, PTL DEF Spec

\* A known module has the files it needs, of the versions pinned, but for those
\* a command has begun to replace or delete since the YAML was written and those
\* a marker left by a cut removal has hidden: Fetch's order of writes, for any
\* lists, pins, versions and faults.
THEOREM KnownModulesComplete == Spec => []KnownComplete
  <1>1. KInv => KnownComplete
    BY DEF KInv
  <1>. QED
    BY <1>1, InitInv, InvStep, PTL DEF Spec

=============================================================================
