---------------------------- MODULE ModuleInstall ----------------------------
(***************************************************************************)
(* fetch-module, install-module and remove-module                          *)
(* (internal/moduleinstall): a module's YAML and the binaries and files it *)
(* lists are fetched from a release site one after the other and written   *)
(* in place, a checksum marker beside each binary, the YAML last.          *)
(*                                                                         *)
(* A content is the version it belongs to.  os.WriteFile truncates and     *)
(* then writes, so a command that dies or runs out of disk between the two *)
(* leaves the file Torn.  The site publishes while commands run; versions  *)
(* only go up.  One command runs at a time.                                *)
(***************************************************************************)
EXTENDS Integers, Sequences

CONSTANTS
  Deps,        \* install: entries, by destination path
  Files,       \* those of kind "file": no checksum, no archive
  Pinned,      \* those with a version: of their own, embedded in their URL
  Pin,         \* that version in each version of the module: kept, or raised
  List,        \* the install: list of each version of the module
  Supported,   \* versions whose os/arch lists admit this platform
  MaxVersion,  \* bound: versions of the module published
  Releases,    \* bound: releases of each dependency published
  MaxAttempts, \* maxAttempts of fetchAssetWithRetry
  MaxFaults    \* bound: deaths, write errors, network errors, failed removals

Versions == 1 .. MaxVersion

ASSUME InstallAssumption ==
  /\ Files \subseteq Deps /\ Pinned \subseteq Deps
  /\ MaxVersion \in Nat \ {0} /\ MaxAttempts \in Nat \ {0} /\ MaxFaults \in Nat
  /\ List \in [Versions -> Seq(Deps)]
  /\ Pin \in [Versions -> [Deps -> Versions]] /\ Releases \in [Deps -> Versions]
  /\ \A v, w \in Versions : v <= w => \A d \in Pinned : Pin[v][d] <= Pin[w][d]
  /\ Supported \subseteq Versions

VARIABLES
  site,        \* what the release site serves: newest YAML, assets, checksums
  yaml,        \* ModulesDir/<name>.yaml
  bin,         \* the file at each dependency's path
  marker,      \* the .checksum file beside it
  run,         \* the command in progress
  faults,      \* faults so far
  hist         \* history: see NoHistory

disk == <<yaml, bin, marker>>
vars == <<site, disk, run, faults, hist>>

None == 0      \* no such file
Torn == -1     \* truncated, or written in part
Html == -2     \* the site's fallback page, served with status 200
Contents == Versions \union {None, Torn, Html}

\* touched: files a command has begun to overwrite or delete since the YAML was
\* written; orphaned: a removal that stopped halfway left the marker without
\* its binary; wrong: taken for up to date when it was not.
NoHistory == [touched |-> {}, orphaned |-> {}, wrong |-> {}]

\* A command about to take a step on entry i of version v's list.
Command(pc, v, i) ==
  [pc |-> pc, v |-> v, i |-> i, expected |-> None, data |-> None, attempt |-> 1]

Idle == Command("idle", 0, 0)

Init ==
  /\ site = [yaml |-> 1, asset |-> [d \in Deps |-> 0], sum |-> [d \in Deps |-> 0]]
  /\ yaml = None
  /\ bin = [d \in Deps |-> None]
  /\ marker = [d \in Deps |-> None]
  /\ run = Idle
  /\ faults = 0
  /\ hist = NoHistory

-----------------------------------------------------------------------------
(* The release site                                                        *)

PublishYAML ==
  /\ site.yaml < MaxVersion
  /\ site' = [site EXCEPT !.yaml = @ + 1]
  /\ UNCHANGED <<disk, run, faults, hist>>

\* An asset and its .checksum.txt appear one after the other, in either order.
PublishAsset(d) ==
  /\ site.asset[d] < Releases[d]
  /\ site' = [site EXCEPT !.asset[d] = @ + 1]
  /\ UNCHANGED <<disk, run, faults, hist>>

PublishSum(d) ==
  /\ d \notin Files /\ site.sum[d] < Releases[d]
  /\ site' = [site EXCEPT !.sum[d] = @ + 1]
  /\ UNCHANGED <<disk, run, faults, hist>>

\* What a GET for version v of the module returns: pinned URLs are immutable,
\* the others serve the newest; a path that is not there yet is answered with
\* the fallback page.
Served(newest, d, v) ==
  IF newest[d] < (IF d \in Pinned THEN Pin[v][d] ELSE 1) THEN Html
  ELSE IF d \in Pinned THEN Pin[v][d] ELSE newest[d]

-----------------------------------------------------------------------------
(* Fetch and Install                                                       *)

Dep == List[run.v][run.i]

\* The command with its i-th dependency next, or the YAML after the last one.
At(v, i) ==
  Command(IF i > Len(List[v]) THEN "yaml" ELSE IF List[v][i] \in Files THEN "asset" ELSE "sum", v, i)

Running(pc) == run.pc = pc
Goto(pc) == run' = [run EXCEPT !.pc = pc]

\* fetch-module <url>
Fetch ==
  /\ Running("idle")
  /\ run' = Command("get", 0, 0)
  /\ UNCHANGED <<site, disk, faults, hist>>

\* install-module <name>: the local YAML must parse, its url is fetched.
Install ==
  /\ yaml \in Versions
  /\ Fetch

\* Mutant: nothing to do when the YAML is the one already installed.
GetYAMLUnchanged ==
  /\ Running("get")
  /\ run' = IF site.yaml \in Supported /\ site.yaml # yaml THEN At(site.yaml, 1) ELSE Idle
  /\ UNCHANGED <<site, disk, faults, hist>>

\* The YAML is fetched and parsed, the platform checked.
GetYAML ==
  /\ Running("get")
  /\ run' = IF site.yaml \in Supported THEN At(site.yaml, 1) ELSE Idle
  /\ UNCHANGED <<site, disk, faults, hist>>

\* fetchAssetWithRetry: try again, or give the whole command up.
Retry ==
  run' = IF run.attempt >= MaxAttempts THEN Idle ELSE [run EXCEPT !.attempt = @ + 1]

NotPublishedYet(d, got) == d \in Pinned /\ got = Html

\* Mutant: a marker of any version will do.
UpToDateAny(d, expected) == marker[d] \in Versions /\ bin[d] # None

\* The marker names the expected archive and the binary is there.
UpToDate(d, expected) == marker[d] = expected /\ bin[d] # None

\* The checksum first; a dependency that is up to date is left alone.
FetchChecksum ==
  LET got == Served(site.sum, Dep, run.v) IN
  /\ Running("sum")
  /\ IF NotPublishedYet(Dep, got) THEN Retry /\ UNCHANGED hist
     ELSE IF UpToDate(Dep, got)
       THEN /\ run' = At(run.v, run.i + 1)
            /\ hist' = IF bin[Dep] = got THEN hist ELSE [hist EXCEPT !.wrong = @ \union {Dep}]
     ELSE /\ run' = [run EXCEPT !.pc = "asset", !.expected = got, !.attempt = 1]
          /\ UNCHANGED hist
  /\ UNCHANGED <<site, disk, faults>>

\* Mutant: whatever the archive holds is installed.
VerifiedAny(got) == TRUE

\* A binary must match the checksum and hold the named file; no page does.
Verified(got) == Dep \in Files \/ (got = run.expected /\ got # Html)

FetchAsset ==
  LET got == Served(site.asset, Dep, run.v) IN
  /\ Running("asset")
  /\ IF NotPublishedYet(Dep, got) THEN Retry
     ELSE run' = IF Verified(got) THEN [run EXCEPT !.pc = "write", !.data = got, !.attempt = 1]
                 ELSE Idle
  /\ UNCHANGED <<site, disk, faults, hist>>

\* os.WriteFile(destPath): truncated here ...
WriteDest ==
  /\ Running("write")
  /\ bin' = [bin EXCEPT ![Dep] = Torn]
  /\ Goto("written")
  /\ hist' = [hist EXCEPT !.touched = @ \union {Dep}]
  /\ UNCHANGED <<site, yaml, marker, faults>>

\* ... and complete here.  A file has no marker.
DestWritten ==
  /\ Running("written")
  /\ bin' = [bin EXCEPT ![Dep] = run.data]
  /\ run' = IF Dep \in Files THEN At(run.v, run.i + 1) ELSE [run EXCEPT !.pc = "mark"]
  /\ hist' = [hist EXCEPT !.wrong = @ \ {Dep}]
  /\ UNCHANGED <<site, yaml, marker, faults>>

WriteMarker ==
  /\ Running("mark")
  /\ marker' = [marker EXCEPT ![Dep] = Torn]
  /\ Goto("marked")
  /\ UNCHANGED <<site, yaml, bin, faults, hist>>

MarkerWritten ==
  /\ Running("marked")
  /\ marker' = [marker EXCEPT ![Dep] = run.expected]
  /\ run' = At(run.v, run.i + 1)
  /\ hist' = [hist EXCEPT !.orphaned = @ \ {Dep}]
  /\ UNCHANGED <<site, yaml, bin, faults>>

WriteYAML ==
  /\ Running("yaml")
  /\ yaml' = Torn
  /\ Goto("named")
  /\ UNCHANGED <<site, bin, marker, faults, hist>>

YAMLWritten ==
  /\ Running("named")
  /\ yaml' = run.v
  /\ run' = Idle
  /\ hist' = [hist EXCEPT !.touched = {}]
  /\ UNCHANGED <<site, bin, marker, faults>>

-----------------------------------------------------------------------------
(* Remove: the files of the local YAML's list, best effort, then the YAML  *)

RemoveAt(v, i) == Command(IF i > Len(List[v]) THEN "rmyaml" ELSE "rmdest", v, i)

Remove ==
  /\ Running("idle") /\ yaml \in Versions
  /\ run' = RemoveAt(yaml, 1)
  /\ UNCHANGED <<site, disk, faults, hist>>

RemoveDest ==
  /\ Running("rmdest")
  /\ bin' = [bin EXCEPT ![Dep] = None]
  /\ Goto("rmmarker")
  /\ hist' = [hist EXCEPT !.touched = @ \union {Dep}, !.wrong = @ \ {Dep}]
  /\ UNCHANGED <<site, yaml, marker, faults>>

RemoveMarker ==
  /\ Running("rmmarker")
  /\ marker' = [marker EXCEPT ![Dep] = None]
  /\ run' = RemoveAt(run.v, run.i + 1)
  /\ hist' = [hist EXCEPT !.touched = @ \union {Dep}, !.orphaned = @ \ {Dep}, !.wrong = @ \ {Dep}]
  /\ UNCHANGED <<site, yaml, bin, faults>>

RemoveYAML ==
  /\ Running("rmyaml")
  /\ yaml' = None
  /\ run' = Idle
  /\ UNCHANGED <<site, bin, marker, faults, hist>>

-----------------------------------------------------------------------------
(* Faults                                                                  *)

Fault ==
  /\ faults < MaxFaults
  /\ faults' = faults + 1

\* A removal stopped, or failed, between a binary and its marker.
Orphaning == IF Running("rmmarker") THEN {Dep} ELSE {}

\* The command dies, a write fails, or the YAML cannot be fetched.
Fail ==
  /\ ~Running("idle") /\ Fault
  /\ run' = Idle
  /\ hist' = [hist EXCEPT !.orphaned = @ \union Orphaning]
  /\ UNCHANGED <<site, disk>>

NetworkError ==
  /\ run.pc \in {"sum", "asset"} /\ Fault
  /\ Retry
  /\ UNCHANGED <<site, disk, hist>>

\* os.Remove fails and the error is dropped: the binary or the marker stays.
RemoveFails ==
  /\ run.pc \in {"rmdest", "rmmarker"} /\ Fault
  /\ run' = IF Running("rmdest") THEN [run EXCEPT !.pc = "rmmarker"] ELSE RemoveAt(run.v, run.i + 1)
  /\ hist' = [hist EXCEPT !.orphaned = @ \union Orphaning]
  /\ UNCHANGED <<site, disk>>

-----------------------------------------------------------------------------
InstallStep ==
  \/ GetYAML \/ FetchChecksum \/ FetchAsset
  \/ WriteDest \/ DestWritten \/ WriteMarker \/ MarkerWritten \/ WriteYAML \/ YAMLWritten

RemoveStep == RemoveDest \/ RemoveMarker \/ RemoveYAML

Publish == PublishYAML \/ \E d \in Deps : PublishAsset(d) \/ PublishSum(d)

Next ==
  \/ Fetch \/ Install \/ InstallStep
  \/ Remove \/ RemoveStep
  \/ Fail \/ NetworkError \/ RemoveFails
  \/ Publish

\* install.sh's fetch_or_update_module, which every re-run calls again.
FetchOrUpdate == IF yaml = None THEN Fetch ELSE Install

\* Commands run to their end, installation is requested again and again, and
\* the site finishes what it publishes.
Spec ==
  /\ Init /\ [][Next]_vars
  /\ WF_vars(InstallStep) /\ WF_vars(RemoveStep) /\ SF_vars(FetchOrUpdate)
  /\ WF_vars(Publish)

-----------------------------------------------------------------------------
(* Properties                                                              *)

Pcs == {"idle", "get", "sum", "asset", "write", "written", "mark", "marked", "yaml", "named",
        "rmdest", "rmmarker", "rmyaml"}

\* The shape of the site, of the files and of the command in progress.
TypeOK ==
  /\ site \in [yaml : Versions, asset : [Deps -> 0 .. MaxVersion], sum : [Deps -> 0 .. MaxVersion]]
  /\ yaml \in Versions \union {None, Torn}
  /\ bin \in [Deps -> Contents] /\ marker \in [Deps -> Contents]
  /\ run \in [pc : Pcs, v : 0 .. MaxVersion, i : Nat, expected : Contents, data : Contents,
              attempt : 1 .. MaxAttempts]
  /\ faults \in 0 .. MaxFaults
  /\ hist \in [touched : SUBSET Deps, orphaned : SUBSET Deps, wrong : SUBSET Deps]

\* "A match here, with the binary still actually present, means this exact
\* version is already correctly installed" (installDependency): however
\* installs, removals and releases interleave and wherever they stop, a binary
\* taken for up to date is the expected one, unless a removal left its marker
\* behind.
SkipSound == hist.wrong \subseteq hist.orphaned

\* Content c serves as dependency d of version v.
Fits(c, d, v) ==
  IF d \in Pinned THEN c = Pin[v][d] ELSE c \in Versions \/ (d \in Files /\ c = Html)

Usable(d, v) == Fits(bin[d], d, v)

Listed(v) == {List[v][i] : i \in DOMAIN List[v]}

\* "a failure partway through never leaves a module locally known without the
\* actual binaries/files it needs" (Fetch): the files of a known module are
\* complete, and of the very version pinned, but for those a later command has
\* begun to overwrite or delete in place and those SkipSound exempts.  An
\* unpinned file may be the fallback page.
KnownComplete ==
  yaml \in Versions => \A d \in Listed(yaml) \ (hist.touched \union hist.wrong) : Usable(d, yaml)

\* What Fetch's comment says without the exemption of KnownComplete: "Nothing is
\* written until every dependency has been downloaded and checksum-verified",
\* so a command that failed partway has left no known module with a torn file
\* or a file of another version.  A missing one is the doing of Remove.
KnownUsable ==
  yaml \in Versions /\ Running("idle") =>
    \A d \in Listed(yaml) : Usable(d, yaml) \/ bin[d] = None \/ d \in hist.wrong

\* "a bare re-run" repairs: as long as installation is requested, the newest
\* module is complete again and again, whatever was interrupted before.  Out
\* of its reach are a marker left by a cut removal and a YAML an earlier
\* command has left torn, which install-module cannot parse.
ReinstallHeals ==
  []<>(\/ yaml = site.yaml /\ \A d \in Listed(yaml) : Usable(d, yaml)
       \/ Running("idle") /\ yaml = Torn
       \/ hist.orphaned # {})
=============================================================================
