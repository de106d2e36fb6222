------------------------------ MODULE Sandbox ------------------------------
(***************************************************************************)
(* The package sandbox: a handle of createSandbox() over one specification *)
(* and the executions started through it.  Each builds an environment and  *)
(* a boundary for the platform's backend (Seatbelt, bubblewrap or the      *)
(* Windows runner), stages what the backend reads, spawns it and answers   *)
(* when the child errs or closes.  A path is the sequence of its names;    *)
(* what a command may execute, devices and signals are left out.           *)
(***************************************************************************)
EXTENDS Naturals, Sequences, FiniteSetsExt, SequencesExt, Functions

CONSTANTS Disk,            \* path -> [real, directory], for every path that exists
          Paths,           \* the real paths a boundary is asked about
          Workspace, Tmp,  \* the handle's workspace and the system's directory of temporary files
          SystemDirs,      \* platform -> what its backend lets every command read
          Platforms, SandboxSpecs,
          HostNames,       \* the variables the host's environment has
          SecretShaped,    \* names that SECRET_NAME_PATTERN matches
          Folded,          \* name -> the name in lower case
          ExtraNames,      \* the sequences of names an execution may pass as extraEnv
          Executions

ASSUME SandboxConstants ==
    /\ <<>> \in DOMAIN Disk
    /\ {Workspace, Tmp} \subseteq DOMAIN Disk
    /\ \A p \in DOMAIN Disk : Disk[p].directory => Disk[p].real \in Paths
    /\ \A spec \in SandboxSpecs : spec.allow \in Seq(DOMAIN Folded)
    /\ ExtraNames \subseteq Seq(DOMAIN Folded)

VARIABLES handle,     \* [platform, spec]
          probe,      \* _capabilityCache of bwrap: "unknown", "able" or "unable"
          executions  \* execution -> what became of it

sandboxVars == <<handle, probe, executions>>

Unanswered == [given |-> FALSE, success |-> FALSE, sandboxed |-> FALSE, verified |-> FALSE]
Answer(success, sandboxed, verified) ==
    [given |-> TRUE, success |-> success, sandboxed |-> sandboxed, verified |-> verified]
Unbounded == [confined |-> FALSE, readable |-> {}, writable |-> {}]
NotStarted == [phase |-> "idle", plain |-> FALSE, ran |-> "no", staged |-> FALSE,
               environment |-> {}, boundary |-> Unbounded, answer |-> Unanswered]

SandboxInit ==
    /\ handle \in [platform : Platforms, spec : SandboxSpecs]
    /\ probe = "unknown"
    /\ executions = [e \in Executions |-> NotStarted]

-----------------------------------------------------------------------------
(* Paths and the allowlist, path.ts. *)

Canonical(path) ==
    IF path \in DOMAIN Disk THEN Disk[path].real
    ELSE IF Front(path) \in DOMAIN Disk THEN Append(Disk[Front(path)].real, Last(path))
    ELSE path

ASSUME PathsAreReal == \A p \in Paths : Canonical(p) = p

IsWithin(path, dir, recursive) ==
    \/ path = dir
    \/ recursive /\ IsStrictPrefix(dir, path)
    \/ ~recursive /\ path # <<>> /\ Front(path) = dir
WithinSome(path, dirs) == \E d \in dirs : IsWithin(path, d, TRUE)

IsPathAllowed(path, allowlist, op) ==
    \E entry \in allowlist :
        /\ IsWithin(Canonical(path), Canonical(entry.path), entry.recursive)
        /\ op \in entry.ops

\* The allowlist every backend makes of the specification: what may be written
\* may be read.
Allowlist(spec) ==
    {[path |-> p, ops |-> {"read"}, recursive |-> TRUE] : p \in spec.read}
      \cup {[path |-> p, ops |-> {"read", "write"}, recursive |-> TRUE] : p \in spec.write}

\* flattenAllowlist()
Dirs(spec, op) == {Canonical(entry.path) : entry \in {x \in Allowlist(spec) : op \in x.ops}}
ReadOnlyDirs(spec) == Dirs(spec, "read") \ Dirs(spec, "write")

\* validateAllowlistPaths(), and the network every backend asks for.
Enforceable(spec) ==
    /\ spec.network = "none"
    /\ \A entry \in Allowlist(spec) : entry.path \in DOMAIN Disk /\ Disk[entry.path].directory

-----------------------------------------------------------------------------
(* The environment, env.ts: the assignments to an object, each at its place in *)
(* their order; a variable is [name, value].                                  *)

DefaultSafeKeys == <<"PATH", "HOME", "TMPDIR">>  \* of eleven, which are treated alike but for two

\* dedupe(): of names equal but for case the first spelling, with the value of
\* the last.  An object's key stays where it was first assigned.
Deduped(env) ==
    LET Named(name) == {j \in DOMAIN env : env[j].name = name}
        Alike(i) == {j \in DOMAIN env : Folded[env[j].name] = Folded[env[i].name]}
        LastKey(i) == Max({j \in Alike(i) : j = Min(Named(env[j].name))})
    IN  {[name |-> env[Min(Alike(i))].name,
          value |-> env[Max(Named(env[LastKey(i)].name))].value] : i \in DOMAIN env}

AllowedKeys(spec) == ToSet(DefaultSafeKeys) \cup ToSet(spec.allow)

\* Mutant: a denied name is looked for as it is spelled.
ConsideredAsSpelled(spec, name) == name \notin spec.deny /\ name \notin SecretShaped
Considered(spec, name) ==
    /\ Folded[name] \notin {Folded[d] : d \in spec.deny}
    /\ name \notin SecretShaped

\* HOME and TMPDIR are set whatever was denied, then overridden like the others.
BuildEnvironment(spec, extra) ==
    LET keys == DefaultSafeKeys \o spec.allow
        names == keys \o <<"HOME", "TMPDIR">> \o extra
        settled == Len(keys) + 1 .. Len(keys) + 2
        inherited == {i \in DOMAIN keys : Considered(spec, names[i]) /\ names[i] \in HostNames}
        overridden == {i \in DOMAIN names \ (DOMAIN keys \cup settled) :
                          Considered(spec, names[i]) /\ names[i] \in AllowedKeys(spec)}
        Value(i) == IF i \in overridden THEN "extra"
                    ELSE IF names[i] \in HostNames THEN "host" ELSE "default"
    IN  Deduped([i \in inherited \cup settled \cup overridden |->
                    [name |-> names[i], value |-> Value(i)]])

\* describeEnvironmentDrops()
Drops(spec, extra) ==
    {name \in ToSet(extra) : name \notin AllowedKeys(spec) \/ name \in SecretShaped}
      \cup {name \in spec.deny : name \in HostNames \cup ToSet(extra)}

-----------------------------------------------------------------------------
(* The boundary of each backend, as what of Paths a command can read and write. *)

\* Mutant: every directory that is only to be read is denied to writers.
CarveOutsAll(spec) == ReadOnlyDirs(spec)
\* generateSeatbeltProfile(): the read-only directories whose writing is denied.
CarveOuts(spec) ==
    {d \in ReadOnlyDirs(spec) : ~\E w \in Dirs(spec, "write") : IsStrictPrefix(d, w)}

SeatbeltProfile(spec) ==
    [confined |-> TRUE,
     readable |-> {p \in Paths : WithinSome(p, SystemDirs["darwin"] \cup {Canonical(Workspace)}
                                                 \cup Dirs(spec, "read"))},
     writable |-> {p \in Paths : /\ WithinSome(p, {Canonical(Workspace), Canonical(Tmp)}
                                                    \cup Dirs(spec, "write"))
                                 /\ ~WithinSome(p, CarveOuts(spec))}]

\* buildBubblewrapArgs(): the mounts in their order; the last that covers a path
\* decides, and what lies under the private /tmp is not the host's.
Mounts(spec) ==
    <<[dirs |-> SystemDirs["linux"], mode |-> "readOnly"],
      [dirs |-> {Tmp}, mode |-> "private"],
      [dirs |-> Dirs(spec, "write"), mode |-> "bound"],
      [dirs |-> ReadOnlyDirs(spec), mode |-> "readOnly"],
      [dirs |-> {Canonical(Workspace)}, mode |-> "bound"]>>
ModeOf(spec, path) ==
    LET covering == {i \in DOMAIN Mounts(spec) : WithinSome(path, Mounts(spec)[i].dirs)}
    IN  IF covering = {} THEN "absent" ELSE Mounts(spec)[Max(covering)].mode
BubblewrapMounts(spec) ==
    [confined |-> TRUE,
     readable |-> {p \in Paths : ModeOf(spec, p) \in {"readOnly", "bound"}},
     writable |-> {p \in Paths : ModeOf(spec, p) = "bound"}]

\* windows-runner.ps1 prepares an AppContainer, but creates the command's process
\* with CREATE_NO_WINDOW where the flag that makes CreateProcessW read the attribute
\* list should stand: the command is in a job that ends with the runner, and in no
\* container.
Boundary(platform, spec) ==
    CASE platform = "darwin" -> SeatbeltProfile(spec)
      [] platform = "linux" -> BubblewrapMounts(spec)
      [] OTHER -> Unbounded

\* The temporary files a boundary leaves open beside the workspace.
Scratch(platform) ==
    {Canonical(Workspace)} \cup IF platform = "darwin" THEN {Canonical(Tmp)} ELSE {}

-----------------------------------------------------------------------------
(* execute(), the spawned child and its answer, index.ts. *)

Started(extra, plain) ==
    [NotStarted EXCEPT !.plain = plain, !.environment = BuildEnvironment(handle.spec, extra)]

\* spawn() may throw: nothing is cleaned up then.
Spawned(execution, verified) ==
    {[execution EXCEPT !.phase = "running"],
     [execution EXCEPT !.phase = "over", !.answer = Answer(FALSE, FALSE, verified)]}

ExecutePlain(e, extra) ==
    /\ executions[e].phase = "idle"
    /\ \E x \in Spawned(Started(extra, TRUE), FALSE) : executions' = [executions EXCEPT ![e] = x]
    /\ UNCHANGED <<handle, probe>>

\* checkBwrapCapability(): probed once, whatever came of it.
Probed(able) == IF probe # "unknown" THEN probe ELSE IF able THEN "able" ELSE "unable"

\* createDarwinSandbox(): sandbox-exec is there, and takes the staged profile; one
\* it refuses is removed again.
SeatbeltReady(installed, able) == installed /\ able
\* Mutant: bwrap is trusted for being there.
BubblewrapInstalled(installed, able) == installed
\* createLinuxSandbox(): bwrap is there, and can make the namespaces.
BubblewrapReady(installed, able) == installed /\ Probed(able) = "able"
\* createWindowsSandbox(): the script is there, and it and the payload were
\* staged; what could be is removed when one fails.
RunnerReady(installed, able) == installed /\ able

Ready(platform, installed, able) ==
    CASE platform = "darwin" -> SeatbeltReady(installed, able)
      [] platform = "linux" -> BubblewrapReady(installed, able)
      [] platform = "win32" -> RunnerReady(installed, able)
      [] OTHER -> FALSE

\* What cannot be confined is answered before anything is spawned.
ExecuteSandboxed(e, extra, installed, able) ==
    LET onLinux == handle.platform = "linux"
        config == [Started(extra, FALSE) EXCEPT
                      !.staged = ~onLinux, !.boundary = Boundary(handle.platform, handle.spec)]
        refused == [Started(extra, FALSE) EXCEPT
                      !.phase = "over", !.answer = Answer(FALSE, FALSE, FALSE)]
    IN  /\ executions[e].phase = "idle"
        /\ probe' = IF onLinux /\ installed THEN Probed(able) ELSE probe
        /\ \E x \in IF Ready(handle.platform, installed, able) /\ Enforceable(handle.spec)
                      THEN Spawned(config, TRUE) ELSE {refused} :
              executions' = [executions EXCEPT ![e] = x]
        /\ UNCHANGED handle

\* The spawned program starts the command: the backend within its boundary.  The
\* Windows runner may fail before it does, and does not look whether the process it
\* made was resumed.
CommandStarts(e) ==
    /\ executions[e].phase = "running" /\ executions[e].ran = "no"
    /\ executions' = [executions EXCEPT
                        ![e].ran = IF executions[e].boundary.confined THEN "inside" ELSE "outside"]
    /\ UNCHANGED <<handle, probe>>

\* finish(): the first answer counts.
Finish(execution, answer) ==
    IF execution.answer.given THEN execution ELSE [execution EXCEPT !.answer = answer]

ChildErrs(e) ==
    /\ executions[e].phase = "running"
    /\ executions' = [executions EXCEPT
                        ![e] = Finish(@, Answer(FALSE, FALSE, ~@.plain))]
    /\ UNCHANGED <<handle, probe>>

\* What the Windows runner printed last.  A call of its setup that fails is reported
\* before the command runs; past the setup its report names the sandbox whatever
\* happened, a command that timed out or never ran included; and it may be killed
\* or die without a report.
RunnerOutputs(ran) == {"none", "garbled", "ran"} \cup IF ran = "no" THEN {"failed"} ELSE {}
\* parseWindowsRunnerOutput()
SaysSandboxed(output) == output = "ran"

\* zero: the exit code is 0, which takes a command that ran.
ChildCloses(e, zero, output) ==
    LET x == executions[e]
        told == SaysSandboxed(output)
        answer == IF x.plain THEN Answer(zero, FALSE, FALSE)
                  ELSE IF handle.platform # "win32" THEN Answer(zero, TRUE, TRUE)
                  ELSE Answer(told /\ zero, told, told)
    IN  /\ x.phase = "running"
        /\ zero => x.ran # "no"
        /\ executions' = [executions EXCEPT
                            ![e] = [Finish(x, answer) EXCEPT !.phase = "over", !.staged = FALSE]]
        /\ UNCHANGED <<handle, probe>>

SandboxNext ==
    \E e \in Executions :
        \/ \E extra \in ExtraNames :
              \/ ExecutePlain(e, extra)
              \/ \E installed, able \in BOOLEAN : ExecuteSandboxed(e, extra, installed, able)
        \/ CommandStarts(e)
        \/ ChildErrs(e)
        \/ \E zero \in BOOLEAN, output \in RunnerOutputs(executions[e].ran) :
              ChildCloses(e, zero, output)

SandboxSpec == SandboxInit /\ [][SandboxNext]_sandboxVars

-----------------------------------------------------------------------------
(* Properties *)

\* There is no fallback under Seatbelt and bubblewrap: a command runs outside a
\* sandbox only when the caller asked for that, none is spawned under bubblewrap
\* before its namespaces were seen to work, and an answer says sandboxed only of a
\* command that was given a boundary and did not run outside it.  Windows is left
\* out: its runner confines nothing and reports a sandbox all the same.
NeverFallsBack ==
    handle.platform # "win32" =>
      \A e \in Executions :
        LET x == executions[e]
        IN  /\ x.ran = "outside" => x.plain
            /\ x.boundary.confined /\ handle.platform = "linux" => probe = "able"
            /\ x.answer.sandboxed => x.boundary.confined /\ x.ran # "outside"

\* Seatbelt and bubblewrap hold to one reading of the specification: what a command
\* can read or write the policy layer allows, the system's directories and
\* the scratch space excepted; what was granted for writing can be written, unless
\* bubblewrap mounts a read-only directory over it; and a directory only to be
\* read, with nothing to write beneath, is not written even inside one that is,
\* except under bubblewrap's workspace.  On Windows nothing is confined.
BoundaryIsAsGranted ==
    LET spec == handle.spec
        platform == handle.platform
        open == Scratch(platform)
    IN  \A e \in Executions : executions[e].boundary.confined =>
          LET b == executions[e].boundary
          IN  /\ \A p \in b.writable : WithinSome(p, open) \/ IsPathAllowed(p, Allowlist(spec), "write")
              /\ \A p \in b.readable : \/ WithinSome(p, open \cup SystemDirs[platform])
                                       \/ IsPathAllowed(p, Allowlist(spec), "read")
              /\ \A w \in Dirs(spec, "write") :
                    \/ w \in b.writable
                    \/ platform = "linux" /\ WithinSome(w, ReadOnlyDirs(spec))
              /\ \A r \in CarveOutsAll(spec) \cap b.writable :
                    \/ \E w \in Dirs(spec, "write") : IsStrictPrefix(r, w)
                    \/ platform = "linux" /\ IsWithin(r, Canonical(Workspace), TRUE)

\* The environment a backend is handed has no secret-shaped name and, in any
\* spelling, no denied one, HOME and TMPDIR excepted; what describeEnvironmentDrops()
\* reports as dropped is not in it, with the same exception.
EnvironmentIsClean ==
    \A e \in Executions :
        LET names == {v.name : v \in executions[e].environment} \ {"HOME", "TMPDIR"}
            denied == {Folded[d] : d \in handle.spec.deny}
        IN  /\ names \cap SecretShaped = {}
            /\ {Folded[n] : n \in names} \cap denied = {}
            /\ \A extra \in ExtraNames :
                  executions[e].environment = BuildEnvironment(handle.spec, extra)
                    => names \cap Drops(handle.spec, extra) = {}

\* What runs is confined as its specification says, in its files (under Seatbelt and
\* bubblewrap) and its variables.
ConfinedAsGranted == BoundaryIsAsGranted /\ EnvironmentIsClean
=============================================================================
