------------------------------ MODULE Packaging ------------------------------
(***************************************************************************)
(* Signed releases: keys and packages of scripts/ota_controller.py, the    *)
(* single-file packages of scripts/dmota_package.py.  A release is three   *)
(* files in a directory; several packagers run and may be killed, builds   *)
(* replace the image, files are copied about, the channel link is moved,   *)
(* and a loader reads one file after the other.                            *)
(*                                                                         *)
(* SHA-256 is injective and only the holder of a key signs with it.        *)
(***************************************************************************)
EXTENDS Integers, Sequences, FiniteSets

CONSTANTS
    SigningKey, NoHeader,
    Identity,           \* what is compiled in: version, build, updater tag
    Directory, Name,    \* release directories, single-file packages
    Packager,
    Absent, Torn,       \* a file that is not there, or a part of one
    MaxBuilds, MaxSignings, MaxSwaps

FileOrder == <<"firmware.bin", "manifest.bin", "release.json">>
ReadOrder == <<"release.json", "manifest.bin", "firmware.bin">>
File == {FileOrder[i] : i \in DOMAIN FileOrder}
AtRest == [at |-> "idle"]

ASSUME PackagingAssumption ==
    /\ NoHeader \notin SigningKey /\ Directory # {}
    /\ \A i \in Identity : DOMAIN i = {"version", "build", "updater"} /\ i.updater \in BOOLEAN
    /\ {MaxBuilds, MaxSignings, MaxSwaps} \subseteq Nat

VARIABLES
    header,         \* the key in the identity header
    builds, built,  \* how many builds there were; the last one
    directories, singles,
    channel,        \* the directory the channel link names
    edited,         \* how often somebody has intervened
    signings,
    job,            \* packager -> what it does
    load,           \* what the loader has read, or ended with
    made            \* history: what was signed

packagingVars == <<header, builds, built, directories, singles, channel, edited, signings, job, load, made>>

PackagingInit ==
    /\ header = NoHeader
    /\ builds = 0 /\ built = Absent
    /\ directories = [d \in Directory |-> <<>>] /\ singles = [n \in Name |-> Absent]
    /\ channel = CHOOSE d \in Directory : TRUE
    /\ edited = 0 /\ signings = 0
    /\ job = [p \in Packager |-> AtRest] /\ load = AtRest
    /\ made = {}

-----------------------------------------------------------------------------
\* exclusive() does not replace a header; the operator removes the old one.
WriteHeader(k) ==
    /\ header = NoHeader /\ header' = k
    /\ UNCHANGED <<builds, built, directories, singles, channel, edited, signings, job, load, made>>
RemoveHeader ==
    /\ edited < MaxSwaps /\ edited' = edited + 1
    /\ header' = NoHeader
    /\ UNCHANGED <<builds, built, directories, singles, channel, signings, job, load, made>>

\* No two builds are the same, even of one identity.
Build(i) ==
    /\ builds < MaxBuilds /\ builds' = builds + 1
    /\ built' = [identity |-> i, key |-> header, run |-> builds]
    /\ UNCHANGED <<header, directories, singles, channel, edited, signings, job, load, made>>

-----------------------------------------------------------------------------
\* manifest_bytes: the image must hold the identity that is asked for.
Describes(m, i, of) == m = [identity |-> i, image |-> of]
CompiledAs(of, i) == of # Absent /\ of.identity = i
Envelope(i, of, k) == [manifest |-> [identity |-> i, image |-> of], by |-> k]
Metadata(i, of, k) == [identity |-> i, image |-> of, publicKey |-> k]
Release(i, of, k) ==
    [f \in File |-> CASE f = "firmware.bin" -> of
                      [] f = "manifest.bin" -> Envelope(i, of, k)
                      [] f = "release.json" -> Metadata(i, of, k)]

Does(p, what) == job' = [job EXCEPT ![p] = what]
outside == <<header, builds, built, channel, edited, load>>

\* The image is read, described, signed, checked and verified in memory.
Sign(p, k, i, target) ==
    /\ job[p] = AtRest
    /\ signings < MaxSignings /\ signings' = signings + 1
    /\ CompiledAs(built, i)
    /\ built.key = k
    /\ target \in Name => i.updater
    /\ Does(p, [at |-> IF target \in Name THEN "single" ELSE "mkdir",
                release |-> Release(i, built, k), target |-> target, files |-> 0])
    /\ made' = made \cup {Release(i, built, k)}
    /\ UNCHANGED <<outside, directories, singles>>

MakeDirectory(p) ==
    /\ job[p].at = "mkdir"
    /\ IF directories[job[p].target] = <<>>
       THEN /\ directories' = [directories EXCEPT ![job[p].target] = [f \in File |-> Absent]]
            /\ Does(p, [job[p] EXCEPT !.at = "write"])
       ELSE Does(p, AtRest) /\ UNCHANGED directories
    /\ UNCHANGED <<outside, signings, singles, made>>

\* Each file is made exclusively; a packager that is killed may leave a part.
Put(p, whole) ==
    LET d == job[p].target
        f == FileOrder[job[p].files + 1] IN
      /\ job[p].at = "write"
      /\ IF directories[d][f] # Absent
         THEN Does(p, AtRest) /\ UNCHANGED directories
         ELSE /\ directories' = [directories EXCEPT ![d][f] = IF whole THEN job[p].release[f] ELSE Torn]
              /\ Does(p, IF whole /\ job[p].files + 1 < Len(FileOrder)
                         THEN [job[p] EXCEPT !.files = @ + 1] ELSE AtRest)
      /\ UNCHANGED <<outside, signings, singles, made>>

\* Header and image go to one new file.
Single(release) == [header |-> release["manifest.bin"], image |-> release["firmware.bin"]]
PutSingle(p, whole) ==
    /\ job[p].at = "single"
    /\ IF singles[job[p].target] # Absent THEN UNCHANGED singles
       ELSE singles' = [singles EXCEPT ![job[p].target] = IF whole THEN Single(job[p].release) ELSE Torn]
    /\ Does(p, AtRest)
    /\ UNCHANGED <<outside, signings, directories, made>>

KillPackager(p) ==
    /\ job[p] # AtRest /\ Does(p, AtRest)
    /\ UNCHANGED <<outside, signings, directories, singles, made>>

-----------------------------------------------------------------------------
\* Somebody copies a file of one release over that of another, or moves the link.
CopyFile(d, e, f) ==
    /\ edited < MaxSwaps /\ edited' = edited + 1
    /\ d # e /\ directories[d] # <<>> /\ directories[e] # <<>>
    /\ directories' = [directories EXCEPT ![e][f] = directories[d][f]]
    /\ UNCHANGED <<header, builds, built, singles, channel, signings, job, load, made>>
MoveChannel(d) ==
    /\ edited < MaxSwaps /\ edited' = edited + 1
    /\ d # channel /\ channel' = d
    /\ UNCHANGED <<header, builds, built, directories, singles, signings, job, load, made>>

-----------------------------------------------------------------------------
loaderOnly == <<header, builds, built, directories, singles, channel, edited, signings, job, made>>

\* The link is resolved once.
FollowChannel ==
    /\ load = AtRest /\ directories[channel] # <<>>
    /\ load' = [at |-> "read", directory |-> channel, got |-> [f \in File |-> Absent], files |-> 0]
    /\ UNCHANGED loaderOnly

ReadFile ==
    LET f == ReadOrder[load.files + 1]
        content == directories[load.directory][f] IN
      /\ load.at = "read" /\ load.files < Len(ReadOrder)
      /\ load' = IF content = Absent THEN AtRest
                 ELSE [at |-> "read", directory |-> load.directory,
                       got |-> [load.got EXCEPT ![f] = content], files |-> load.files + 1]
      /\ UNCHANGED loaderOnly

\* The signature is checked with the key of the metadata, the metadata and the
\* image against the signed manifest.
Signed(envelope, k) == envelope.by = k
AnyImage(got) ==                            \* mutant: the image is not compared
    /\ Torn \notin {got[f] : f \in File}
    /\ Signed(got["manifest.bin"], got["release.json"].publicKey)
    /\ Describes(got["manifest.bin"].manifest, got["release.json"].identity, got["release.json"].image)
Consistent(got) ==
    /\ Torn \notin {got[f] : f \in File}
    /\ Signed(got["manifest.bin"], got["release.json"].publicKey)
    /\ Describes(got["manifest.bin"].manifest, got["release.json"].identity, got["release.json"].image)
    /\ Describes(got["manifest.bin"].manifest, got["firmware.bin"].identity, got["firmware.bin"])
Check ==
    /\ load.at = "read" /\ load.files = Len(ReadOrder)
    /\ load' = IF Consistent(load.got) THEN [at |-> "loaded", got |-> load.got] ELSE AtRest
    /\ UNCHANGED loaderOnly

\* A single file brings no key: the caller has it.
VerifySingle(n, k) ==
    /\ load = AtRest /\ singles[n] \notin {Absent, Torn}
    /\ load' = IF /\ Signed(singles[n].header, k)
                  /\ singles[n].image.key = k
                  /\ Describes(singles[n].header.manifest, singles[n].image.identity, singles[n].image)
               THEN [at |-> "verified", file |-> singles[n]] ELSE AtRest
    /\ UNCHANGED loaderOnly

Deployed ==
    /\ load.at \in {"loaded", "verified"} /\ load' = AtRest
    /\ UNCHANGED loaderOnly

PackagingNext ==
    \/ \E k \in SigningKey : WriteHeader(k)
    \/ RemoveHeader
    \/ \E i \in Identity : Build(i)
    \/ \E p \in Packager :
         \/ \E k \in SigningKey, i \in Identity, t \in Directory \cup Name : Sign(p, k, i, t)
         \/ MakeDirectory(p) \/ KillPackager(p)
         \/ \E whole \in BOOLEAN : Put(p, whole) \/ PutSingle(p, whole)
    \/ \E d, e \in Directory, f \in File : CopyFile(d, e, f)
    \/ \E d \in Directory : MoveChannel(d)
    \/ FollowChannel \/ ReadFile \/ Check \/ Deployed
    \/ \E n \in Name, k \in SigningKey : VerifySingle(n, k)

PackagingSpec == PackagingInit /\ [][PackagingNext]_packagingVars

-----------------------------------------------------------------------------
\* What is loaded or verified is what one packaging made and signed, whole, with
\* the key that is compiled into it, whatever was killed, rebuilt, copied or
\* moved meanwhile (load_release, dmota_package.verify).
LoadedReleaseIsWhole ==
    /\ load.at = "loaded" =>
         \E release \in made :
            load.got = release /\ release["firmware.bin"].key = release["release.json"].publicKey
    /\ load.at = "verified" =>
         \E release \in made : load.file = Single(release)
=============================================================================
