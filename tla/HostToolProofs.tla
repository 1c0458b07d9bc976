--------------------------- MODULE HostToolProofs ----------------------------
(***************************************************************************)
(* That the tools at the bench leave nothing half done that they take for  *)
(* whole: what the loader of releases accepts was made and signed as one,  *)
(* and what a USB session writes is backed up, approved and verified.      *)
(***************************************************************************)
EXTENDS Packaging, UsbSession, SequenceTheorems, TLAPS

-----------------------------------------------------------------------------
(* Releases.  Whatever is killed, copied or moved, a file is one of a      *)
(* release that was made and signed, or a part of one; the loader's checks *)
(* tie the three that it read to the same release.                         *)

FileOf(f) == {release[f] : release \in made}
Stored(f) == {Absent, Torn} \cup FileOf(f)
\* A release is made of one image, which has the identity and the key.
Genuine ==
    \A release \in made : \E i, of, k :
        release = Release(i, of, k) /\ of.identity = i /\ of.key = k
HasFiles(d) == DOMAIN directories[d] = File
Kept ==
    /\ DOMAIN directories = Directory /\ channel \in Directory
    /\ \A d \in Directory : directories[d] # <<>> =>
         HasFiles(d) /\ \A f \in File : directories[d][f] \in Stored(f)
    /\ DOMAIN singles = Name
    /\ \A n \in Name : singles[n] \in {Absent, Torn} \cup {Single(release) : release \in made}
Job == [at : {"single", "mkdir", "write"}, release : made, target : Directory \cup Name, files : 0..2]
JobFits(j) ==
    \/ j = AtRest
    \/ /\ j \in Job
       /\ j.at = "single" => j.target \in Name
       /\ j.at # "single" => j.target \in Directory
       /\ j.at = "write" => HasFiles(j.target)
Working == DOMAIN job = Packager /\ \A p \in Packager : JobFits(job[p])
LoadFits ==
    \/ load = AtRest
    \/ /\ load = [at |-> "read", directory |-> load.directory, got |-> load.got, files |-> load.files]
       /\ load.directory \in Directory /\ HasFiles(load.directory)
       /\ load.files \in 0..3 /\ load.got = [f \in File |-> load.got[f]]
       /\ \A j \in 1..load.files : load.got[ReadOrder[j]] \in {Torn} \cup FileOf(ReadOrder[j])
    \/ load.at \in {"loaded", "verified"} /\ LoadedReleaseIsWhole

PackagingInv == Genuine /\ Kept /\ Working /\ LoadFits

LEMMA FileNames ==
    /\ File = {"firmware.bin", "manifest.bin", "release.json"}
    /\ \A i \in 0..2 : FileOrder[i + 1] \in File
    /\ \A i \in 1..3 : ReadOrder[i] \in File
    /\ \A f \in File : \E i \in 1..3 : ReadOrder[i] = f
    /\ Len(FileOrder) = 3 /\ Len(ReadOrder) = 3
BY DEF File, FileOrder, ReadOrder

LEMMA PackagingInitial == PackagingInit => PackagingInv
<1> SUFFICES ASSUME PackagingInit PROVE PackagingInv
  OBVIOUS
<1>1. /\ directories = [d \in Directory |-> <<>>] /\ singles = [n \in Name |-> Absent]
      /\ job = [p \in Packager |-> AtRest] /\ load = AtRest /\ made = {}
      /\ channel = CHOOSE d \in Directory : TRUE
  BY DEF PackagingInit
<1>2. channel \in Directory
  BY <1>1, PackagingAssumption
<1> QED BY <1>1, <1>2 DEF PackagingInv, Genuine, Kept, Working, JobFits, LoadFits

\* More releases take nothing back.
LEMMA LoadStays ==
    ASSUME PackagingInv, load' = load, made \subseteq made',
           \A d \in Directory : HasFiles(d) => HasFiles(d)'
    PROVE  LoadFits'
<1>1. \A f : FileOf(f) \subseteq FileOf(f)'
  BY DEF FileOf
<1>2. LoadedReleaseIsWhole => LoadedReleaseIsWhole'
  BY DEF LoadedReleaseIsWhole
<1> QED BY <1>1, <1>2 DEF PackagingInv, LoadFits

LEMMA MoreJobs ==
    ASSUME NEW R, NEW T, NEW S, R \subseteq S,
           NEW j \in [at : {"single", "mkdir", "write"}, release : R, target : T, files : 0..2]
    PROVE  j \in [at : {"single", "mkdir", "write"}, release : S, target : T, files : 0..2]
OBVIOUS

\* One packager moves on, the others stay as they are.
LEMMA JobsStay ==
    ASSUME PackagingInv, NEW p \in Packager, NEW j, job' = [job EXCEPT ![p] = j],
           \/ j = AtRest
           \/ /\ j \in [at : {"single", "mkdir", "write"}, release : made',
                        target : Directory \cup Name, files : 0..2]
              /\ j.at = "single" => j.target \in Name
              /\ j.at # "single" => j.target \in Directory
              /\ j.at = "write" => DOMAIN directories'[j.target] = File,
           made \subseteq made',
           \A d \in Directory : HasFiles(d) => HasFiles(d)'
    PROVE  Working'
<1>1. DOMAIN job' = Packager /\ job'[p] = j /\ \A q \in Packager \ {p} : job'[q] = job[q]
  BY DEF PackagingInv, Working
<1>2. JobFits(job[p])'
  BY <1>1 DEF JobFits, Job, HasFiles
<1>3. ASSUME NEW q \in Packager \ {p} PROVE JobFits(job[q])'
  <2>1. JobFits(job[q]) /\ job'[q] = job[q]
    BY <1>1 DEF PackagingInv, Working
  <2>2. CASE job[q] = AtRest
    BY <2>1, <2>2 DEF JobFits
  <2>3. CASE job[q] # AtRest
    <3>1. /\ job[q] \in Job
          /\ job[q].at = "single" => job[q].target \in Name
          /\ job[q].at # "single" => job[q].target \in Directory
          /\ job[q].at = "write" => HasFiles(job[q].target)
      BY <2>1, <2>3 DEF JobFits
    <3>2. job'[q] \in Job'
      <4>1. job[q] \in Job /\ job'[q] = job[q] /\ made \subseteq made'
        <5>1. job[q] \in Job
          BY ONLY <3>1
        <5>2. job'[q] = job[q]
          BY ONLY <2>1
        <5> QED BY <5>1, <5>2
      <4> QED BY ONLY <4>1, MoreJobs DEF Job
    <3>3. job[q].at = "write" => DOMAIN directories'[job[q].target] = File
      <4> SUFFICES ASSUME job[q].at = "write" PROVE DOMAIN directories'[job[q].target] = File
        OBVIOUS
      <4>1. PICK d \in Directory : d = job[q].target
        BY <3>1
      <4> QED BY <3>1, <4>1 DEF HasFiles
    <3> QED BY <2>1, <3>1, <3>2, <3>3 DEF JobFits, HasFiles
  <2> QED BY <2>2, <2>3
<1> QED BY <1>1, <1>2, <1>3 DEF Working

\* A step that leaves releases, files and jobs alone keeps them.
LEMMA FilesStay ==
    ASSUME PackagingInv, directories' = directories, singles' = singles, channel' \in Directory,
           job' = job, made' = made, LoadFits'
    PROVE  PackagingInv'
<1>1. Genuine'
  BY DEF PackagingInv, Genuine
<1>2. Kept'
  BY DEF PackagingInv, Kept, HasFiles, Stored, FileOf
<1>3. Working'
  BY DEF PackagingInv, Working, JobFits, Job, HasFiles
<1> QED BY <1>1, <1>2, <1>3 DEF PackagingInv

LEMMA BenchKeeps ==
    ASSUME PackagingInv,
           \/ \E k \in SigningKey : WriteHeader(k)
           \/ RemoveHeader
           \/ \E i \in Identity : Build(i)
           \/ \E d \in Directory : MoveChannel(d)
           \/ UNCHANGED packagingVars
    PROVE  PackagingInv'
<1>1. /\ directories' = directories /\ singles' = singles /\ job' = job /\ made' = made /\ load' = load
      /\ channel' \in Directory
  BY DEF WriteHeader, RemoveHeader, Build, MoveChannel, packagingVars, PackagingInv, Kept
<1>2. LoadFits'
  BY <1>1, LoadStays DEF HasFiles
<1> QED BY <1>1, <1>2, FilesStay

LEMMA SignKeeps ==
    ASSUME PackagingInv, NEW p \in Packager, NEW k, NEW i, NEW t \in Directory \cup Name, Sign(p, k, i, t)
    PROVE  PackagingInv'
<1> DEFINE release == Release(i, built, k)
           j == [at |-> IF t \in Name THEN "single" ELSE "mkdir",
                 release |-> release, target |-> t, files |-> 0]
<1>1. /\ built.identity = i /\ built.key = k /\ job' = [job EXCEPT ![p] = j]
      /\ made' = made \cup {release}
      /\ directories' = directories /\ singles' = singles /\ load' = load /\ channel' = channel
  BY DEF Sign, CompiledAs, Does, outside
<1>2. Genuine'
  BY <1>1 DEF PackagingInv, Genuine
<1> HIDE DEF release
<1>3. Kept'
  BY <1>1 DEF PackagingInv, Kept, HasFiles, Stored, FileOf
<1>4. /\ j \in [at : {"single", "mkdir", "write"}, release : made', target : Directory \cup Name, files : 0..2]
      /\ j.at = "single" => j.target \in Name
      /\ j.at # "single" => j.target \in Directory
      /\ j.at # "write"
  BY <1>1
<1>5. made \subseteq made' /\ \A d \in Directory : HasFiles(d) => HasFiles(d)'
  BY <1>1 DEF HasFiles
<1>6. LoadFits'
  BY <1>1, <1>5, LoadStays
<1> HIDE DEF j
<1>7. Working'
  BY <1>1, <1>4, <1>5, JobsStay
<1> QED BY <1>2, <1>3, <1>6, <1>7 DEF PackagingInv

\* What a packager does with the release that it holds.
LEMMA JobIs ==
    ASSUME PackagingInv, NEW p \in Packager, job[p].at \in {"single", "mkdir", "write"}
    PROVE  /\ job[p] \in Job /\ job[p].release \in made /\ job[p].files \in 0..2
           /\ job[p].at = "single" => job[p].target \in Name
           /\ job[p].at # "single" => job[p].target \in Directory
           /\ job[p].at = "write" => HasFiles(job[p].target)
<1>1. job[p] # AtRest /\ JobFits(job[p])
  BY DEF AtRest, PackagingInv, Working
<1> QED BY <1>1 DEF JobFits, Job

LEMMA MakeDirectoryKeeps ==
    ASSUME PackagingInv, NEW p \in Packager, MakeDirectory(p)
    PROVE  PackagingInv'
<1> DEFINE d == job[p].target
           next == [job[p] EXCEPT !.at = "write"]
<1>1. /\ job[p].at = "mkdir" /\ made' = made /\ singles' = singles /\ load' = load /\ channel' = channel
      /\ \/ /\ directories' = [directories EXCEPT ![d] = [f \in File |-> Absent]]
            /\ job' = [job EXCEPT ![p] = next]
         \/ directories' = directories /\ job' = [job EXCEPT ![p] = AtRest]
  BY DEF MakeDirectory, Does, outside
<1>2. d \in Directory /\ job[p] \in Job
  BY <1>1, JobIs
<1>3. next \in Job /\ next.target = d /\ next.at = "write"
  BY <1>2 DEF Job
<1> HIDE DEF d, next
<1>4. DOMAIN directories = Directory
  BY DEF PackagingInv, Kept
<1>5. /\ DOMAIN directories' = Directory
      /\ \A e \in Directory : \/ directories'[e] = directories[e]
                              \/ directories'[e] = [f \in File |-> Absent]
  BY <1>1, <1>2, <1>4
<1>6. \A e \in Directory : HasFiles(e) => HasFiles(e)'
  BY <1>5 DEF HasFiles
<1>7. Genuine' /\ LoadFits'
  BY <1>1, <1>6, LoadStays DEF PackagingInv, Genuine
<1>8. Kept'
  <2>1. ASSUME NEW e \in Directory, directories'[e] # <<>>
        PROVE  DOMAIN directories'[e] = File /\ \A f \in File : directories'[e][f] \in Stored(f)
    BY <1>5, <2>1 DEF PackagingInv, Kept, HasFiles, Stored
  <2> QED BY <1>1, <1>5, <2>1 DEF PackagingInv, Kept, HasFiles, Stored, FileOf
<1>9. Working'
  <2>1. CASE directories' = [directories EXCEPT ![d] = [f \in File |-> Absent]] /\ job' = [job EXCEPT ![p] = next]
    <3>1. DOMAIN directories'[next.target] = File
      BY <1>2, <1>3, <1>4, <2>1
    <3> QED BY <1>1, <1>2, <1>3, <1>6, <2>1, <3>1, JobsStay DEF Job
  <2>2. CASE job' = [job EXCEPT ![p] = AtRest]
    BY <1>1, <1>6, <2>2, JobsStay
  <2> QED BY <1>1, <2>1, <2>2
<1> QED BY <1>7, <1>8, <1>9 DEF PackagingInv

\* A file gets a content that may be stored under its name.
LEMMA FilePut ==
    ASSUME PackagingInv, NEW d \in Directory, NEW f \in File, NEW content \in Stored(f),
           directories[d] # <<>>,
           directories' = [directories EXCEPT ![d][f] = content],
           singles' = singles, channel' = channel, made' = made, load' = load
    PROVE  /\ Genuine' /\ Kept' /\ LoadFits'
           /\ \A e \in Directory : HasFiles(e) => HasFiles(e)'
<1>1. DOMAIN directories = Directory /\ HasFiles(d)
  BY DEF PackagingInv, Kept
<1>2. /\ DOMAIN directories' = Directory
      /\ \A e \in Directory \ {d} : directories'[e] = directories[e]
      /\ directories'[d] = [directories[d] EXCEPT ![f] = content]
  BY <1>1
<1>3. \A e \in Directory : HasFiles(e) => HasFiles(e)'
  BY <1>1, <1>2 DEF HasFiles
<1>4. ASSUME NEW e \in Directory, directories'[e] # <<>>
      PROVE  DOMAIN directories'[e] = File /\ \A g \in File : directories'[e][g] \in Stored(g)
  <2>1. directories[d] # <<>> /\ \A g \in File : directories[d][g] \in Stored(g)
    BY DEF PackagingInv, Kept
  <2>2. CASE e = d
    BY <1>1, <1>2, <2>1, <2>2 DEF HasFiles
  <2>3. CASE e # d
    BY <1>2, <1>4, <2>3 DEF PackagingInv, Kept, HasFiles
  <2> QED BY <2>2, <2>3
<1>5. Kept'
  BY <1>2, <1>4 DEF PackagingInv, Kept, HasFiles, Stored, FileOf
<1>6. Genuine' /\ LoadFits'
  BY <1>3, LoadStays DEF PackagingInv, Genuine
<1> QED BY <1>3, <1>5, <1>6

LEMMA PutKeeps ==
    ASSUME PackagingInv, NEW p \in Packager, NEW whole, Put(p, whole)
    PROVE  PackagingInv'
<1> DEFINE d == job[p].target
           f == FileOrder[job[p].files + 1]
           content == IF whole THEN job[p].release[f] ELSE Torn
           next == [job[p] EXCEPT !.files = @ + 1]
<1>1. /\ job[p].at = "write" /\ made' = made /\ singles' = singles /\ load' = load /\ channel' = channel
      /\ \/ directories' = directories /\ job' = [job EXCEPT ![p] = AtRest]
         \/ /\ directories' = [directories EXCEPT ![d][f] = content]
            /\ \/ job' = [job EXCEPT ![p] = AtRest]
               \/ job[p].files + 1 < 3 /\ job' = [job EXCEPT ![p] = next]
  BY FileNames DEF Put, Does, outside
<1>2. d \in Directory /\ job[p] \in Job /\ f \in File /\ content \in Stored(f) /\ HasFiles(d)
  BY <1>1, JobIs, FileNames DEF Stored, FileOf
<1>3. job[p].files + 1 < 3 => next \in Job
  BY <1>2 DEF Job
<1>4. next.target = d /\ next.at = "write"
  BY <1>1, <1>2 DEF Job
<1> HIDE DEF d, f, content, next
<1>5. directories[d] # <<>>
  <2>1. "firmware.bin" \in DOMAIN directories[d]
    BY <1>2, FileNames DEF HasFiles
  <2>2. "firmware.bin" \notin DOMAIN <<>>
    OBVIOUS
  <2> QED BY <2>1, <2>2
<1>6. CASE directories' = [directories EXCEPT ![d][f] = content]
  <2>1. Genuine' /\ Kept' /\ LoadFits' /\ \A e \in Directory : HasFiles(e) => HasFiles(e)'
    BY <1>1, <1>2, <1>5, <1>6, FilePut
  <2>2. DOMAIN directories'[next.target] = File
    BY <1>2, <1>4, <2>1 DEF HasFiles
  <2>3. CASE job' = [job EXCEPT ![p] = AtRest]
    <3>1. Working'
      BY <1>1, <2>1, <2>3, JobsStay
    <3> QED BY <2>1, <3>1 DEF PackagingInv
  <2>4. CASE job[p].files + 1 < 3 /\ job' = [job EXCEPT ![p] = next]
    <3>1. Working'
      BY <1>1, <1>2, <1>3, <1>4, <2>1, <2>2, <2>4, JobsStay DEF Job
    <3> QED BY <2>1, <3>1 DEF PackagingInv
  <2>5. CASE directories' = directories /\ job' = [job EXCEPT ![p] = AtRest]
    BY <2>3, <2>5
  <2> QED BY <1>1, <2>3, <2>4, <2>5
<1>7. CASE directories' = directories /\ job' = [job EXCEPT ![p] = AtRest]
  <2>1. \A e \in Directory : HasFiles(e) => HasFiles(e)'
    BY <1>7 DEF HasFiles
  <2>2. Working' /\ LoadFits'
    BY <1>1, <1>7, <2>1, JobsStay, LoadStays
  <2>3. Genuine' /\ Kept'
    BY <1>1, <1>7 DEF PackagingInv, Genuine, Kept, HasFiles, Stored, FileOf
  <2> QED BY <2>2, <2>3 DEF PackagingInv
<1> QED BY <1>1, <1>6, <1>7

LEMMA PutSingleKeeps ==
    ASSUME PackagingInv, NEW p \in Packager, NEW whole, PutSingle(p, whole)
    PROVE  PackagingInv'
<1> DEFINE n == job[p].target
           content == IF whole THEN Single(job[p].release) ELSE Torn
<1>1. /\ job[p].at = "single" /\ made' = made /\ load' = load /\ channel' = channel
      /\ directories' = directories /\ job' = [job EXCEPT ![p] = AtRest]
      /\ singles' = singles \/ singles' = [singles EXCEPT ![n] = content]
  BY DEF PutSingle, Does, outside
<1>2. n \in Name /\ content \in {Absent, Torn} \cup {Single(release) : release \in made}
  BY <1>1, JobIs
<1> HIDE DEF n, content
<1>3. /\ DOMAIN singles' = Name
      /\ \A m \in Name : singles'[m] \in {Absent, Torn} \cup {Single(release) : release \in made}
  BY <1>1, <1>2 DEF PackagingInv, Kept
<1>4. \A d \in Directory : HasFiles(d) => HasFiles(d)'
  BY <1>1 DEF HasFiles
<1>5. Working' /\ LoadFits'
  BY <1>1, <1>4, JobsStay, LoadStays
<1>6. Genuine' /\ Kept'
  BY <1>1, <1>3 DEF PackagingInv, Genuine, Kept, HasFiles, Stored, FileOf
<1> QED BY <1>5, <1>6 DEF PackagingInv

LEMMA KillPackagerKeeps ==
    ASSUME PackagingInv, NEW p \in Packager, KillPackager(p)
    PROVE  PackagingInv'
<1>1. /\ made' = made /\ load' = load /\ channel' = channel /\ singles' = singles
      /\ directories' = directories /\ job' = [job EXCEPT ![p] = AtRest]
  BY DEF KillPackager, Does, outside
<1>2. \A d \in Directory : HasFiles(d) => HasFiles(d)'
  BY <1>1 DEF HasFiles
<1>3. Working' /\ LoadFits'
  BY <1>1, <1>2, JobsStay, LoadStays
<1>4. Genuine' /\ Kept'
  BY <1>1 DEF PackagingInv, Genuine, Kept, HasFiles, Stored, FileOf
<1> QED BY <1>3, <1>4 DEF PackagingInv

LEMMA CopyFileKeeps ==
    ASSUME PackagingInv, NEW d \in Directory, NEW e \in Directory, NEW f \in File, CopyFile(d, e, f)
    PROVE  PackagingInv'
<1>1. /\ directories[d] # <<>> /\ directories[e] # <<>>
      /\ directories' = [directories EXCEPT ![e][f] = directories[d][f]]
      /\ singles' = singles /\ channel' = channel /\ made' = made /\ load' = load /\ job' = job
  BY DEF CopyFile
<1>2. directories[d][f] \in Stored(f)
  BY <1>1 DEF PackagingInv, Kept
<1>3. PICK content \in Stored(f) : content = directories[d][f]
  BY <1>2
<1>4. Genuine' /\ Kept' /\ LoadFits' /\ \A g \in Directory : HasFiles(g) => HasFiles(g)'
  BY <1>1, <1>3, FilePut
<1>5. Working'
  <2>1. ASSUME NEW p \in Packager PROVE JobFits(job[p])'
    <3>1. JobFits(job[p]) /\ job'[p] = job[p] /\ Job' = Job
      BY <1>1 DEF PackagingInv, Working, Job
    <3> QED BY <1>4, <3>1 DEF JobFits, Job
  <2> QED BY <1>1, <2>1 DEF PackagingInv, Working
<1> QED BY <1>4, <1>5 DEF PackagingInv

-----------------------------------------------------------------------------
\* A file that was read is of some release, or torn.
LEMMA LoadIsRead ==
    ASSUME PackagingInv, load.at = "read"
    PROVE  /\ load = [at |-> "read", directory |-> load.directory, got |-> load.got, files |-> load.files]
           /\ load.directory \in Directory /\ HasFiles(load.directory)
           /\ load.files \in 0..3 /\ load.got = [f \in File |-> load.got[f]]
           /\ \A j \in 1..load.files : load.got[ReadOrder[j]] \in {Torn} \cup FileOf(ReadOrder[j])
BY DEF PackagingInv, LoadFits, AtRest

LEMMA ReadFileKeeps == ASSUME PackagingInv, ReadFile PROVE PackagingInv'
<1> DEFINE f == ReadOrder[load.files + 1]
           content == directories[load.directory][f]
           got == [load.got EXCEPT ![f] = content]
           next == [at |-> "read", directory |-> load.directory, got |-> got, files |-> load.files + 1]
<1>1. /\ directories' = directories /\ singles' = singles /\ channel' = channel /\ job' = job /\ made' = made
      /\ load.at = "read" /\ load.files < 3
      /\ load' = AtRest \/ (content # Absent /\ load' = next)
  BY FileNames DEF ReadFile, loaderOnly
<1>2. /\ load = [at |-> "read", directory |-> load.directory, got |-> load.got, files |-> load.files]
      /\ load.directory \in Directory /\ HasFiles(load.directory)
      /\ load.files \in 0..3 /\ load.got = [file \in File |-> load.got[file]]
      /\ \A j \in 1..load.files : load.got[ReadOrder[j]] \in {Torn} \cup FileOf(ReadOrder[j])
  BY <1>1, LoadIsRead
<1>3. f \in File /\ load.files + 1 \in 1..3
  BY <1>1, <1>2, FileNames
<1>5. content \in Stored(f)
  <2>1. directories[load.directory] # <<>>
    <3>1. "firmware.bin" \in DOMAIN directories[load.directory]
      BY <1>2, FileNames DEF HasFiles
    <3>2. "firmware.bin" \notin DOMAIN <<>>
      OBVIOUS
    <3> QED BY <3>1, <3>2
  <2> QED BY <1>2, <1>3, <2>1 DEF PackagingInv, Kept
<1>6. content # Absent =>
        \A j \in 1 .. load.files + 1 : got[ReadOrder[j]] \in {Torn} \cup FileOf(ReadOrder[j])
  <2> SUFFICES ASSUME content # Absent, NEW j \in 1 .. load.files + 1
               PROVE  got[ReadOrder[j]] \in {Torn} \cup FileOf(ReadOrder[j])
    OBVIOUS
  <2>1. content \in {Torn} \cup FileOf(f) /\ got[f] = content
    BY <1>2, <1>3, <1>5 DEF Stored
  <2>2. CASE ReadOrder[j] = f
    BY <2>1, <2>2
  <2>3. CASE ReadOrder[j] # f
    <3>1. j \in 1..load.files
      BY <1>2, <2>3
    <3>2. ReadOrder[j] \in File
      BY <1>2, <3>1, FileNames
    <3>3. got[ReadOrder[j]] = load.got[ReadOrder[j]]
      BY <1>2, <2>3, <3>2
    <3> QED BY <1>2, <3>1, <3>3
  <2> QED BY <2>2, <2>3
<1>7. got = [file \in File |-> got[file]]
  BY <1>2
<1> HIDE DEF f, content, got, next
<1>8. LoadFits'
  <2>1. CASE load' = AtRest
    BY <2>1 DEF LoadFits
  <2>2. CASE content # Absent /\ load' = next
    <3>1. /\ load'.directory = load.directory /\ load'.got = got /\ load'.files = load.files + 1
          /\ load' = [at |-> "read", directory |-> load'.directory, got |-> load'.got, files |-> load'.files]
      BY <2>2 DEF next
    <3>2. \A j \in 1..load'.files : load'.got[ReadOrder[j]] \in {Torn} \cup FileOf(ReadOrder[j])
      BY <1>6, <2>2, <3>1
    <3> QED BY <1>1, <1>2, <1>3, <1>7, <3>1, <3>2 DEF LoadFits, HasFiles, FileOf
  <2> QED BY <1>1, <2>1, <2>2
<1>9. channel' \in Directory
  BY <1>1 DEF PackagingInv, Kept
<1> QED BY <1>1, <1>8, <1>9, FilesStay

\* The checks leave no choice: the three files are those of one release.
LEMMA ConsistentIsWhole ==
    ASSUME Genuine, NEW got, DOMAIN got = File, got = [f \in File |-> got[f]], Consistent(got),
           \A f \in File : got[f] \in {Torn} \cup FileOf(f)
    PROVE  \E release \in made :
             got = release /\ release["firmware.bin"].key = release["release.json"].publicKey
<1>1. \A f \in File : got[f] \in FileOf(f)
  BY DEF Consistent
<1>2. PICK r \in made : got["manifest.bin"] = r["manifest.bin"]
  BY <1>1, FileNames DEF FileOf
<1>3. PICK i, of, k : r = Release(i, of, k) /\ of.identity = i /\ of.key = k
  BY DEF Genuine
<1>4. PICK q \in made : got["release.json"] = q["release.json"]
  BY <1>1, FileNames DEF FileOf
<1>5. PICK h, on, l : q = Release(h, on, l)
  BY DEF Genuine
<1>6. /\ r["manifest.bin"] = Envelope(i, of, k) /\ r["firmware.bin"] = of
      /\ r["release.json"] = Metadata(i, of, k) /\ r = [f \in File |-> r[f]]
  BY <1>3, FileNames DEF Release
<1>7. q["release.json"] = Metadata(h, on, l)
  BY <1>5, FileNames DEF Release
<1>8. got["manifest.bin"].by = k /\ got["manifest.bin"].manifest = [identity |-> i, image |-> of]
  BY <1>2, <1>6 DEF Envelope
<1>9. /\ got["release.json"] = [identity |-> h, image |-> on, publicKey |-> l]
      /\ got["release.json"].identity = h /\ got["release.json"].image = on /\ got["release.json"].publicKey = l
  BY <1>4, <1>7 DEF Metadata
<1>10. k = l /\ i = h /\ of = on /\ of = got["firmware.bin"]
  <2>1. /\ got["manifest.bin"].by = got["release.json"].publicKey
        /\ got["manifest.bin"].manifest = [identity |-> got["release.json"].identity,
                                          image |-> got["release.json"].image]
        /\ got["manifest.bin"].manifest = [identity |-> got["firmware.bin"].identity,
                                          image |-> got["firmware.bin"]]
    BY DEF Consistent, Signed, Describes
  <2> HIDE DEF Consistent
  <2> QED BY <1>8, <1>9, <2>1
<1>11. \A f \in File : got[f] = r[f]
  BY <1>2, <1>6, <1>9, <1>10, FileNames DEF Metadata
<1>12. got = r
  BY <1>6, <1>11
<1>13. r["firmware.bin"].key = r["release.json"].publicKey
  BY <1>3, <1>6 DEF Metadata
<1> QED BY <1>12, <1>13

LEMMA CheckKeeps == ASSUME PackagingInv, Check PROVE PackagingInv'
<1>1. /\ directories' = directories /\ singles' = singles /\ channel' = channel /\ job' = job /\ made' = made
      /\ load.at = "read" /\ load.files = 3
      /\ load' = AtRest \/ (Consistent(load.got) /\ load' = [at |-> "loaded", got |-> load.got])
  BY FileNames DEF Check, loaderOnly
<1>2. /\ load = [at |-> "read", directory |-> load.directory, got |-> load.got, files |-> load.files]
      /\ load.got = [f \in File |-> load.got[f]]
      /\ \A j \in 1..3 : load.got[ReadOrder[j]] \in {Torn} \cup FileOf(ReadOrder[j])
  BY <1>1, LoadIsRead
<1>3. \A f \in File : load.got[f] \in {Torn} \cup FileOf(f)
  BY <1>2, FileNames
<1>4. channel' \in Directory
  BY <1>1 DEF PackagingInv, Kept
<1>5. CASE load' = AtRest
  BY <1>1, <1>4, <1>5, FilesStay DEF LoadFits
<1>6. CASE Consistent(load.got) /\ load' = [at |-> "loaded", got |-> load.got]
  <2>1. \E release \in made :
          load.got = release /\ release["firmware.bin"].key = release["release.json"].publicKey
    BY <1>2, <1>3, <1>6, ConsistentIsWhole DEF PackagingInv
  <2>2. load'.at = "loaded" /\ load'.got = load.got
    BY <1>6
  <2>3. LoadFits'
    BY <1>1, <2>1, <2>2 DEF LoadFits, LoadedReleaseIsWhole
  <2> QED BY <1>1, <1>4, <2>3, FilesStay
<1> QED BY <1>1, <1>5, <1>6

LEMMA VerifySingleKeeps ==
    ASSUME PackagingInv, NEW n \in Name, NEW k, VerifySingle(n, k)
    PROVE  PackagingInv'
<1>1. /\ directories' = directories /\ singles' = singles /\ channel' = channel /\ job' = job /\ made' = made
      /\ singles[n] \notin {Absent, Torn}
      /\ load' = AtRest \/ load' = [at |-> "verified", file |-> singles[n]]
  BY DEF VerifySingle, loaderOnly
<1>2. channel' \in Directory /\ \E release \in made : singles[n] = Single(release)
  BY <1>1 DEF PackagingInv, Kept
<1>3. CASE load' = AtRest
  BY <1>1, <1>2, <1>3, FilesStay DEF LoadFits
<1>4. CASE load' = [at |-> "verified", file |-> singles[n]]
  <2>1. load'.at = "verified" /\ load'.file = singles[n]
    BY <1>4
  <2>2. LoadFits'
    BY <1>1, <1>2, <2>1 DEF LoadFits, LoadedReleaseIsWhole
  <2> QED BY <1>1, <1>2, <2>2, FilesStay
<1> QED BY <1>1, <1>3, <1>4

LEMMA OpenReleaseKeeps == ASSUME PackagingInv, FollowChannel \/ Deployed PROVE PackagingInv'
<1>1. /\ directories' = directories /\ singles' = singles /\ channel' = channel /\ job' = job /\ made' = made
      /\ channel \in Directory
  BY DEF FollowChannel, Deployed, loaderOnly, PackagingInv, Kept
<1>2. CASE FollowChannel
  <2> DEFINE got == [f \in File |-> Absent]
  <2>1. /\ directories[channel] # <<>>
        /\ load' = [at |-> "read", directory |-> channel, got |-> got, files |-> 0]
    BY <1>2 DEF FollowChannel
  <2>2. HasFiles(channel) /\ got = [f \in File |-> got[f]]
    BY <1>1, <2>1 DEF PackagingInv, Kept
  <2> HIDE DEF got
  <2>3. LoadFits'
    BY <1>1, <2>1, <2>2 DEF LoadFits, HasFiles
  <2> QED BY <1>1, <2>3, FilesStay
<1>3. CASE Deployed
  <2>1. LoadFits'
    BY <1>3 DEF Deployed, LoadFits
  <2> QED BY <1>1, <2>1, FilesStay
<1> QED BY <1>2, <1>3

LEMMA PackagingStep == PackagingInv /\ [PackagingNext]_packagingVars => PackagingInv'
<1> SUFFICES ASSUME PackagingInv, [PackagingNext]_packagingVars PROVE PackagingInv'
  OBVIOUS
<1>1. CASE \/ \E k \in SigningKey : WriteHeader(k)
           \/ RemoveHeader
           \/ \E i \in Identity : Build(i)
           \/ \E d \in Directory : MoveChannel(d)
           \/ UNCHANGED packagingVars
  BY <1>1, BenchKeeps
<1>2. ASSUME NEW p \in Packager, NEW k \in SigningKey, NEW i \in Identity,
             NEW t \in Directory \cup Name, Sign(p, k, i, t)
      PROVE  PackagingInv'
  BY <1>2, SignKeeps
<1>3. ASSUME NEW p \in Packager, MakeDirectory(p) PROVE PackagingInv'
  BY <1>3, MakeDirectoryKeeps
<1>4. ASSUME NEW p \in Packager, KillPackager(p) PROVE PackagingInv'
  BY <1>4, KillPackagerKeeps
<1>5. ASSUME NEW p \in Packager, NEW whole \in BOOLEAN, Put(p, whole) PROVE PackagingInv'
  BY <1>5, PutKeeps
<1>6. ASSUME NEW p \in Packager, NEW whole \in BOOLEAN, PutSingle(p, whole) PROVE PackagingInv'
  BY <1>6, PutSingleKeeps
<1>7. ASSUME NEW d \in Directory, NEW e \in Directory, NEW f \in File, CopyFile(d, e, f) PROVE PackagingInv'
  BY <1>7, CopyFileKeeps
<1>8. CASE FollowChannel \/ Deployed
  BY <1>8, OpenReleaseKeeps
<1>9. CASE ReadFile
  BY <1>9, ReadFileKeeps
<1>10. CASE Check
  BY <1>10, CheckKeeps
<1>11. ASSUME NEW n \in Name, NEW k \in SigningKey, VerifySingle(n, k) PROVE PackagingInv'
  BY <1>11, VerifySingleKeeps
<1> QED BY <1>1, <1>2, <1>3, <1>4, <1>5, <1>6, <1>7, <1>8, <1>9, <1>10, <1>11 DEF PackagingNext

\* Every file is of a release that was made, or a part of one, whoever copied
\* it where (manifest_bytes, package, load_release).
THEOREM FilesAreOfReleases == PackagingSpec => []PackagingInv
<1> QED BY PackagingInitial, PackagingStep, PTL DEF PackagingSpec

\* What is loaded or verified is one release, whole, for any number of builds,
\* packagers, directories and interventions (load_release, verify).
THEOREM LoadedIsWhole == PackagingSpec => []LoadedReleaseIsWhole
<1>1. PackagingInv => LoadedReleaseIsWhole
  <2> SUFFICES ASSUME LoadFits PROVE LoadedReleaseIsWhole
    BY DEF PackagingInv
  <2>1. CASE load = AtRest \/ load.at = "read"
    BY <2>1 DEF LoadedReleaseIsWhole, AtRest
  <2> QED BY <2>1 DEF LoadFits
<1> QED BY <1>1, FilesAreOfReleases, PTL

-----------------------------------------------------------------------------
(* USB sessions.  What a session may still do follows from what its last   *)
(* check found: the copy is the flash until the first write, the files     *)
(* that were opened are the approved ones unless one changed in between.   *)

UsbTypes ==
    /\ link \in {NoBoard, C008} /\ tool \in Tool \cup {"none"}
    /\ stage \in {"idle", "connect", "backup", "validate", "open", "write", "reset", "listen"}
    /\ written \in Nat /\ report = [status |-> report.status, writeStarted |-> report.writeStarted]
    /\ printing \in Seq(STRING) /\ printed \in Seq(STRING)
    /\ credentials \in Key \cup {NoKey}
    /\ DOMAIN flash = Board /\ \A b \in Board : DOMAIN flash[b] = Region
OnlyC008 == \A b \in Board \ {C008} : flash[b] = FirstFlash[b]
Under ==
    /\ stage # "idle" => report.status = "started" /\ tool \in Tool
    /\ report.status = "passed" => tool \in Tool
    /\ stage \in {"connect", "backup", "validate", "open"} => written = 0
Based(image) == \A r \in DOMAIN Baseline[tool] : image[r] = Baseline[tool][r]
Copied ==
    /\ stage \in {"validate", "open"} => copied = flash[C008] /\ copied \in backups
    /\ stage = "open" => Based(copied) /\ (unchecked \/ altered = {})
    /\ stage = "write" /\ link # NoBoard => copied = before
Approved(segments) == \A r \in DOMAIN Segments[tool] : segments[r] = Segments[tool][r]
Opened == stage = "write" => DOMAIN opened = DOMAIN Segments[tool] /\ (unchecked \/ Approved(opened))
Backed ==
    written > 0 \/ (stage = "write" /\ link # NoBoard) =>
        /\ before \in backups /\ Based(before)
        /\ report = NoReport \/ report.writeStarted
NvsKept == stage = "reset" => \A r \in Preserved : flash[C008][r] = before[r]
SegmentsHold == stage \in {"reset", "listen"} \/ report.status = "passed" => unchecked \/ Approved(flash[C008])
LinesOf(lines) == {lines[i] : i \in DOMAIN lines}
Heard == LinesOf(printed)
KeysKept ==
    /\ tool = "first" => Heard \cap Key = {credentials} \ {NoKey}
    /\ report.status = "passed" /\ tool = "first" => credentials # NoKey

UsbInv == UsbTypes /\ OnlyC008 /\ Under /\ Copied /\ Opened /\ Backed /\ NvsKept /\ SegmentsHold /\ KeysKept

LEMMA UsbInitial == UsbInit => UsbInv
<1> SUFFICES ASSUME UsbInit PROVE UsbInv
  OBVIOUS
<1>1. /\ flash = FirstFlash /\ tool = "none" /\ stage = "idle" /\ link = NoBoard /\ written = 0
      /\ printing = <<>> /\ printed = <<>> /\ credentials = NoKey
      /\ report = [status |-> "none", writeStarted |-> FALSE]
  BY DEF UsbInit, NoReport
<1>2. UsbTypes
  <2>1. <<>> \in Seq(STRING)
    OBVIOUS
  <2> QED BY <1>1, <2>1, UsbAssumption DEF UsbTypes
<1>3. OnlyC008 /\ Under /\ Copied /\ Opened /\ Backed /\ NvsKept
  BY <1>1 DEF OnlyC008, Under, Copied, Opened, Backed, NvsKept
<1>4. SegmentsHold /\ KeysKept
  BY <1>1 DEF SegmentsHold, KeysKept
<1> QED BY <1>2, <1>3, <1>4 DEF UsbInv

\* Any end of a session that is not a success: nothing on the board changes.
LEMMA EndKeeps ==
    ASSUME UsbInv, stage # "idle", stage' = "idle", link' = NoBoard,
           report' = NoReport \/ report' = [report EXCEPT !.status = "stopped"],
           flash' = flash, tool' = tool, before' = before, unchecked' = unchecked,
           opened' = opened, written' = written, printing' = printing, printed' = printed,
           credentials' = credentials, backups' = backups
    PROVE  UsbInv'
<1>1. report = [status |-> report.status, writeStarted |-> report.writeStarted] /\ report.status = "started"
  BY DEF UsbInv, UsbTypes, Under
<1>2. /\ report' = [status |-> report'.status, writeStarted |-> report'.writeStarted]
      /\ report'.status # "passed" /\ (report' = NoReport \/ report'.writeStarted = report.writeStarted)
  BY <1>1 DEF NoReport
<1>3. UsbTypes'
  BY <1>2 DEF UsbInv, UsbTypes
<1>4. OnlyC008' /\ Under' /\ Copied' /\ Opened'
  BY <1>2 DEF UsbInv, OnlyC008, Under, Copied, Opened
<1>5. Backed' /\ NvsKept'
  BY <1>1, <1>2 DEF UsbInv, Backed, Based, NvsKept, NoReport
<1>6. SegmentsHold' /\ KeysKept'
  BY <1>2 DEF UsbInv, SegmentsHold, KeysKept, Heard
<1> QED BY <1>3, <1>4, <1>5, <1>6 DEF UsbInv

LEMMA StoppingKeeps == ASSUME UsbInv, stage # "idle", Stopping PROVE UsbInv'
BY EndKeeps DEF Stopping, Stop, bench, kept

LEMMA PlugKeeps == ASSUME UsbInv, NEW b \in Board \cup {NoBoard}, Plug(b) PROVE UsbInv'
<1>1. /\ link' = NoBoard
      /\ flash' = flash /\ altered' = altered /\ tool' = tool /\ stage' = stage /\ copied' = copied
      /\ opened' = opened /\ written' = written /\ printing' = printing /\ printed' = printed
      /\ credentials' = credentials /\ report' = report /\ backups' = backups
      /\ before' = before /\ unchecked' = unchecked
  BY DEF Plug
<1>2. UsbTypes' /\ OnlyC008' /\ Under'
  BY <1>1 DEF UsbInv, UsbTypes, OnlyC008, Under
<1>3. Copied' /\ Opened'
  BY <1>1 DEF UsbInv, Copied, Opened, Based, Approved
<1>4. Backed' /\ NvsKept'
  BY <1>1 DEF UsbInv, Backed, Based, NvsKept
<1>5. SegmentsHold' /\ KeysKept'
  BY <1>1 DEF UsbInv, SegmentsHold, Approved, KeysKept, Heard
<1> QED BY <1>2, <1>3, <1>4, <1>5 DEF UsbInv

LEMMA ChangeFileKeeps == ASSUME UsbInv, NEW r, ChangeFile(r) PROVE UsbInv'
<1>1. /\ stage \in {"idle", "backup", "open"}
      /\ unchecked' = (unchecked \/ stage = "open")
      /\ flash' = flash /\ tool' = tool /\ stage' = stage /\ copied' = copied /\ link' = link
      /\ opened' = opened /\ written' = written /\ printing' = printing /\ printed' = printed
      /\ credentials' = credentials /\ report' = report /\ backups' = backups /\ before' = before
  BY DEF ChangeFile
<1>2. UsbTypes' /\ OnlyC008' /\ Under'
  BY <1>1 DEF UsbInv, UsbTypes, OnlyC008, Under
<1>3. Copied' /\ Opened'
  BY <1>1 DEF UsbInv, Copied, Opened, Based
<1>4. Backed' /\ NvsKept'
  BY <1>1 DEF UsbInv, Backed, Based, NvsKept
<1>5. KeysKept'
  BY <1>1 DEF UsbInv, KeysKept, Heard
<1>6. SegmentsHold'
  <2>1. unchecked => unchecked'
    BY <1>1
  <2> QED BY <1>1, <2>1 DEF UsbInv, SegmentsHold, Approved
<1> QED BY <1>2, <1>3, <1>4, <1>5, <1>6 DEF UsbInv

LEMMA StartKeeps == ASSUME UsbInv, NEW t \in Tool, Start(t) PROVE UsbInv'
<1>1. /\ tool' = t /\ stage' = "connect" /\ report' = [status |-> "started", writeStarted |-> FALSE]
      /\ written' = 0 /\ printed' = <<>> /\ credentials' = NoKey
      /\ flash' = flash /\ link' = link /\ printing' = printing /\ backups' = backups
  BY DEF Start, bench
<1>2. UsbTypes'
  <2>1. <<>> \in Seq(STRING)
    OBVIOUS
  <2> QED BY <1>1, <2>1 DEF UsbInv, UsbTypes
<1>3. OnlyC008' /\ Under' /\ Copied' /\ Opened' /\ Backed' /\ NvsKept'
  BY <1>1 DEF UsbInv, OnlyC008, Under, Copied, Opened, Backed, NvsKept
<1>4. SegmentsHold' /\ KeysKept'
  BY <1>1 DEF SegmentsHold, KeysKept, Heard, LinesOf
<1> QED BY <1>2, <1>3, <1>4 DEF UsbInv

LEMMA ConnectKeeps == ASSUME UsbInv, Connect PROVE UsbInv'
<1>1. CASE present # C008
  BY <1>1, StoppingKeeps DEF Connect
<1>2. CASE present = C008
  <2>1. /\ stage = "connect" /\ stage' = "backup" /\ link' = C008
        /\ flash' = flash /\ tool' = tool
        /\ written' = written /\ printing' = printing /\ printed' = printed
        /\ credentials' = credentials /\ report' = report /\ backups' = backups
    BY <1>2 DEF Connect, bench, kept
  <2>2. UsbTypes' /\ OnlyC008' /\ Under'
    BY <2>1 DEF UsbInv, UsbTypes, OnlyC008, Under
  <2>3. Copied' /\ Opened' /\ Backed' /\ NvsKept'
    BY <2>1 DEF UsbInv, Under, Copied, Opened, Backed, NvsKept
  <2>4. SegmentsHold' /\ KeysKept'
    BY <2>1 DEF UsbInv, Under, SegmentsHold, KeysKept, Heard
  <2> QED BY <2>2, <2>3, <2>4 DEF UsbInv
<1> QED BY <1>1, <1>2

\* The digest that the device computes leaves one image.
LEMMA BackupKeeps == ASSUME UsbInv, NEW misread, Backup(misread) PROVE UsbInv'
<1> DEFINE image == IF misread THEN [flash[link] EXCEPT ![WriteOrder[1]] = Junk] ELSE flash[link]
<1>1. /\ stage = "backup" /\ link # NoBoard
      /\ flash' = flash /\ altered' = altered /\ tool' = tool /\ before' = before /\ unchecked' = unchecked
      /\ opened' = opened /\ written' = written /\ printing' = printing /\ printed' = printed
      /\ credentials' = credentials
      /\ \/ /\ image = flash[link] /\ copied' = image /\ backups' = backups \cup {image}
            /\ stage' = "validate" /\ link' = link /\ report' = report
         \/ Stop /\ backups' = backups
  BY DEF Backup, ReadWhole, Digested, kept
<1> HIDE DEF image
<1>2. CASE Stop /\ backups' = backups
  BY <1>1, <1>2, EndKeeps DEF Stop
<1>3. CASE /\ image = flash[link] /\ copied' = image /\ backups' = backups \cup {image}
           /\ stage' = "validate" /\ link' = link /\ report' = report
  <2>1. link = C008 /\ written = 0 /\ report.status = "started" /\ tool \in Tool
    BY <1>1 DEF UsbInv, UsbTypes, Under
  <2>2. UsbTypes' /\ OnlyC008' /\ Under'
    BY <1>1, <1>3, <2>1 DEF UsbInv, UsbTypes, OnlyC008, Under
  <2>3. Copied' /\ Opened' /\ Backed' /\ NvsKept'
    BY <1>1, <1>3, <2>1 DEF Copied, Opened, Backed, NvsKept
  <2>4. SegmentsHold' /\ KeysKept'
    BY <1>1, <1>3, <2>1 DEF UsbInv, SegmentsHold, KeysKept, Heard
  <2> QED BY <2>2, <2>3, <2>4 DEF UsbInv
<1> QED BY <1>1, <1>2, <1>3

LEMMA CheckBeforeKeeps == ASSUME UsbInv, CheckBefore PROVE UsbInv'
<1>1. CASE ~(HoldsBaseline /\ present # NoBoard /\ Preflight)
  BY <1>1, StoppingKeeps DEF CheckBefore
<1>2. CASE HoldsBaseline /\ present # NoBoard /\ Preflight
  <2>1. /\ stage = "validate" /\ stage' = "open" /\ altered = {} /\ Based(copied)
        /\ flash' = flash /\ altered' = altered /\ tool' = tool /\ copied' = copied /\ link' = link
        /\ opened' = opened /\ written' = written /\ printing' = printing /\ printed' = printed
        /\ credentials' = credentials /\ report' = report /\ backups' = backups
    BY <1>2 DEF CheckBefore, HoldsBaseline, Preflight, Based, bench, kept
  <2>2. UsbTypes' /\ OnlyC008' /\ Under'
    BY <2>1 DEF UsbInv, UsbTypes, OnlyC008, Under
  <2>3. Copied'
    BY <2>1 DEF UsbInv, Copied, Based
  <2>4. Opened' /\ Backed' /\ NvsKept'
    BY <2>1 DEF UsbInv, Under, Opened, Backed, NvsKept
  <2>5. SegmentsHold' /\ KeysKept'
    BY <2>1 DEF UsbInv, Under, SegmentsHold, KeysKept, Heard
  <2> QED BY <2>2, <2>3, <2>4, <2>5 DEF UsbInv
<1> QED BY <1>1, <1>2

\* The files are opened after their last check; that the board is still there
\* is not looked at.
LEMMA OpenFilesKeeps == ASSUME UsbInv, OpenFiles PROVE UsbInv'
<1> DEFINE segments == [r \in DOMAIN Segments[tool] |-> IF r \in altered THEN Junk ELSE Segments[tool][r]]
<1>1. /\ stage = "open" /\ stage' = "write" /\ opened' = segments
      /\ report' = [report EXCEPT !.writeStarted = TRUE]
      /\ before' = IF link = NoBoard THEN NoImage ELSE flash[link]
      /\ flash' = flash /\ tool' = tool /\ copied' = copied /\ link' = link /\ unchecked' = unchecked
      /\ written' = written /\ printing' = printing /\ printed' = printed
      /\ credentials' = credentials /\ backups' = backups
  BY DEF OpenFiles, bench
<1>2. /\ tool \in Tool /\ written = 0 /\ copied = flash[C008] /\ copied \in backups
      /\ Based(copied) /\ (unchecked \/ altered = {})
      /\ report = [status |-> report.status, writeStarted |-> report.writeStarted] /\ report.status = "started"
  BY <1>1 DEF UsbInv, UsbTypes, Under, Copied
<1>3. report' = [status |-> report'.status, writeStarted |-> report'.writeStarted] /\ report'.status = "started" /\ report'.writeStarted
  BY <1>1, <1>2
<1>4. UsbTypes' /\ OnlyC008' /\ Under' /\ Copied'
  BY <1>1, <1>2, <1>3 DEF UsbInv, UsbTypes, OnlyC008, Under, Copied
<1>5. DOMAIN segments = DOMAIN Segments[tool] /\ (altered = {} => Approved(segments))
  BY DEF Approved
<1> HIDE DEF segments
<1>6. Opened'
  BY <1>1, <1>2, <1>5 DEF Opened, Approved
<1>7. link = NoBoard \/ (link = C008 /\ before' = copied)
  BY <1>1, <1>2 DEF UsbInv, UsbTypes
<1>8. Backed' /\ NvsKept'
  BY <1>1, <1>2, <1>3, <1>7 DEF Backed, Based, NvsKept
<1>9. SegmentsHold' /\ KeysKept'
  BY <1>1, <1>3 DEF UsbInv, SegmentsHold, KeysKept, Heard
<1> QED BY <1>4, <1>6, <1>8, <1>9 DEF UsbInv

\* A write reaches no other board, whatever it damages on this one.
LEMMA WriteSegmentKeeps == ASSUME UsbInv, NEW damaged, WriteSegment(damaged) PROVE UsbInv'
<1> DEFINE r == WriteOrder[written + 1]
           content == [s \in Region |-> CASE s \in damaged -> Junk
                                         [] s = r /\ s \notin damaged -> opened[r]
                                         [] OTHER -> flash[link][s]]
<1>1. /\ stage = "write" /\ link # NoBoard /\ written < Len(WriteOrder)
      /\ flash' = [flash EXCEPT ![link] = content]
      /\ written' = written + 1
      /\ tool' = tool /\ copied' = copied /\ link' = link /\ unchecked' = unchecked /\ stage' = stage
      /\ printing' = printing /\ printed' = printed /\ before' = before /\ opened' = opened
      /\ credentials' = credentials /\ backups' = backups /\ report' = report
  BY DEF WriteSegment, kept
<1>2. link = C008 /\ C008 \in Board /\ written \in Nat /\ report.status = "started" /\ tool \in Tool
  BY <1>1, UsbAssumption DEF UsbInv, UsbTypes, Under
<1>3. DOMAIN content = Region
  OBVIOUS
<1> HIDE DEF r, content
<1>4. /\ DOMAIN flash' = Board /\ \A b \in Board \ {C008} : flash'[b] = flash[b]
      /\ flash'[C008] = content
  BY <1>1, <1>2 DEF UsbInv, UsbTypes
<1>5. \A b \in Board : DOMAIN flash'[b] = Region
  BY <1>2, <1>3, <1>4 DEF UsbInv, UsbTypes
<1>6. UsbTypes'
  BY <1>1, <1>2, <1>4, <1>5 DEF UsbInv, UsbTypes
<1>7. OnlyC008' /\ Under' /\ Copied'
  BY <1>1, <1>2, <1>4 DEF UsbInv, OnlyC008, Under, Copied
<1>8. Opened' /\ Backed'
  BY <1>1, <1>2 DEF UsbInv, Opened, Approved, Backed, Based
<1>9. NvsKept'
  BY <1>1 DEF NvsKept
<1>10. SegmentsHold' /\ KeysKept'
  BY <1>1, <1>2 DEF UsbInv, SegmentsHold, KeysKept, Heard
<1> QED BY <1>6, <1>7, <1>8, <1>9, <1>10 DEF UsbInv

LEMMA VerifyKeeps == ASSUME UsbInv, Verify PROVE UsbInv'
<1> DEFINE good == /\ \A r \in DOMAIN opened : flash[link][r] = opened[r]
                   /\ \A r \in Preserved : flash[link][r] = copied[r]
<1>1. CASE ~good
  BY <1>1, StoppingKeeps DEF Verify
<1>2. CASE good
  <2>1. /\ stage = "write" /\ link # NoBoard /\ stage' = "reset"
        /\ flash' = flash /\ tool' = tool /\ copied' = copied /\ link' = link /\ unchecked' = unchecked
        /\ written' = written /\ printing' = printing /\ printed' = printed /\ before' = before
        /\ credentials' = credentials /\ report' = report /\ backups' = backups
    BY <1>2 DEF Verify, bench, kept
  <2>2. link = C008
    BY <2>1 DEF UsbInv, UsbTypes
  <2>3. UsbTypes' /\ OnlyC008' /\ Under' /\ Copied'
    BY <2>1 DEF UsbInv, UsbTypes, OnlyC008, Under, Copied
  <2>4. Opened' /\ Backed'
    BY <2>1 DEF UsbInv, Opened, Backed, Based
  <2>5. NvsKept'
    BY <1>2, <2>1, <2>2 DEF UsbInv, Copied, NvsKept
  <2>6. unchecked \/ Approved(flash[C008])
    BY <1>2, <2>1, <2>2 DEF UsbInv, Opened, Approved
  <2>7. SegmentsHold' /\ KeysKept'
    BY <2>1, <2>6 DEF UsbInv, SegmentsHold, Approved, KeysKept, Heard
  <2> QED BY <2>3, <2>4, <2>5, <2>7 DEF UsbInv
<1> QED BY <1>1, <1>2

\* Only now does the NVS change, and no region of the bundle with it.
LEMMA ResetKeeps ==
    ASSUME UsbInv, NEW lines \in Printouts, NEW nvs \in Preserved, Reset(lines, nvs)
    PROVE  UsbInv'
<1>1. /\ stage = "reset" /\ link # NoBoard /\ stage' = "listen" /\ printing' = lines
      /\ flash' = [flash EXCEPT ![link][nvs] = "used"]
      /\ tool' = tool /\ link' = link /\ unchecked' = unchecked
      /\ written' = written /\ printed' = printed /\ before' = before
      /\ credentials' = credentials /\ report' = report /\ backups' = backups
  BY DEF Reset, kept
<1>2. link = C008 /\ C008 \in Board /\ report.status = "started" /\ tool \in Tool
  BY <1>1, UsbAssumption DEF UsbInv, UsbTypes, Under
<1>3. /\ DOMAIN flash' = Board /\ \A b \in Board \ {C008} : flash'[b] = flash[b]
      /\ flash'[C008] = [flash[C008] EXCEPT ![nvs] = "used"]
  BY <1>1, <1>2 DEF UsbInv, UsbTypes
<1>4. DOMAIN flash'[C008] = Region /\ \A r \in Region \ {nvs} : flash'[C008][r] = flash[C008][r]
  BY <1>2, <1>3 DEF UsbInv, UsbTypes
<1>5. UsbTypes'
  <2>1. lines \in Seq(STRING)
    BY UsbAssumption
  <2> QED BY <1>1, <1>2, <1>3, <1>4, <2>1 DEF UsbInv, UsbTypes
<1>6. OnlyC008' /\ Under' /\ Copied' /\ Opened'
  BY <1>1, <1>2, <1>3 DEF UsbInv, OnlyC008, Under, Copied, Opened
<1>7. Backed' /\ NvsKept'
  BY <1>1 DEF UsbInv, Backed, Based, NvsKept
<1>8. SegmentsHold'
  <2>1. unchecked \/ Approved(flash[C008])
    BY <1>1 DEF UsbInv, SegmentsHold
  <2>2. \A r \in DOMAIN Segments[tool] : r \in Region \ {nvs}
    BY <1>2, UsbAssumption
  <2> QED BY <1>1, <1>4, <2>1, <2>2 DEF SegmentsHold, Approved
<1>9. KeysKept'
  BY <1>1 DEF UsbInv, KeysKept, Heard
<1> QED BY <1>5, <1>6, <1>7, <1>8, <1>9 DEF UsbInv

\* A line that was heard is one more.
LEMMA OneMoreLine ==
    ASSUME NEW s \in Seq(STRING), NEW line \in STRING
    PROVE  Append(s, line) \in Seq(STRING) /\ LinesOf(Append(s, line)) = LinesOf(s) \cup {line}
<1>1. ASSUME NEW lines, lines = Append(s, line)
      PROVE  lines \in Seq(STRING) /\ LinesOf(lines) = LinesOf(s) \cup {line}
  <2>1. /\ lines \in Seq(STRING) /\ Len(lines) = Len(s) + 1
        /\ \A i \in 1..Len(s) : lines[i] = s[i]
        /\ lines[Len(s) + 1] = line
    BY <1>1, AppendProperties
  <2>2. DOMAIN lines = 1..Len(lines) /\ DOMAIN s = 1..Len(s) /\ Len(s) \in Nat
    BY <2>1
  <2>3. ASSUME NEW i \in DOMAIN lines PROVE lines[i] \in LinesOf(s) \cup {line}
    <3>1. CASE i \in 1..Len(s)
      BY <2>1, <2>2, <3>1 DEF LinesOf
    <3>2. CASE i \notin 1..Len(s)
      <4>1. i = Len(s) + 1
        BY ONLY <2>1, <2>2, <2>3, <3>2
      <4> QED BY ONLY <2>1, <4>1
    <3> QED BY <3>1, <3>2
  <2>4. ASSUME NEW i \in DOMAIN s PROVE s[i] \in LinesOf(lines)
    <3>1. i \in DOMAIN lines
      BY ONLY <2>1, <2>2, <2>4
    <3> QED BY <2>1, <2>2, <3>1 DEF LinesOf
  <2>5. line \in LinesOf(lines)
    <3>1. Len(s) + 1 \in DOMAIN lines
      BY ONLY <2>1, <2>2
    <3> QED BY <2>1, <3>1 DEF LinesOf
  <2> QED BY <2>1, <2>3, <2>4, <2>5 DEF LinesOf
<1> QED BY <1>1

LEMMA HearLineKeeps == ASSUME UsbInv, HearLine PROVE UsbInv'
<1> DEFINE line == Head(printing)
<1>1. /\ stage = "listen" /\ printing # <<>>
      /\ flash' = flash /\ tool' = tool /\ before' = before /\ unchecked' = unchecked
      /\ opened' = opened /\ written' = written /\ backups' = backups
      /\ \/ Stop /\ printing' = printing /\ printed' = printed /\ credentials' = credentials
         \/ /\ ~(tool = "first" /\ OtherKey(line))
            /\ printed' = Append(printed, line) /\ printing' = Tail(printing)
            /\ credentials' = IF tool = "first" /\ line \in Key THEN line ELSE credentials
            /\ stage' = stage /\ link' = link /\ report' = report
  BY DEF HearLine, bench, kept
<1>2. CASE Stop /\ printing' = printing /\ printed' = printed /\ credentials' = credentials
  BY <1>1, <1>2, EndKeeps DEF Stop
<1>3. CASE /\ ~(tool = "first" /\ OtherKey(line))
           /\ printed' = Append(printed, line) /\ printing' = Tail(printing)
           /\ credentials' = IF tool = "first" /\ line \in Key THEN line ELSE credentials
           /\ stage' = stage /\ link' = link /\ report' = report
  <2>1. /\ printing \in Seq(STRING) /\ printed \in Seq(STRING) /\ credentials \in Key \cup {NoKey}
        /\ report.status = "started"
    BY <1>1 DEF UsbInv, UsbTypes, Under
  <2>2. line \in STRING /\ Tail(printing) \in Seq(STRING)
    BY <1>1, <2>1
  <2> HIDE DEF line
  <2>3. printed' \in Seq(STRING) /\ Heard' = Heard \cup {line}
    <3>1. printed \in Seq(STRING) /\ line \in STRING /\ printed' = Append(printed, line)
      BY <1>3, <2>1, <2>2
    <3>2. Append(printed, line) \in Seq(STRING) /\ LinesOf(Append(printed, line)) = LinesOf(printed) \cup {line}
      BY ONLY <3>1, OneMoreLine, Zenon
    <3> QED BY ONLY <3>1, <3>2, Zenon DEF Heard
  <2>4. UsbTypes' /\ OnlyC008' /\ Under' /\ Copied' /\ Opened'
    BY <1>1, <1>3, <2>1, <2>2, <2>3 DEF UsbInv, UsbTypes, OnlyC008, Under, Copied, Opened
  <2>5. Backed' /\ NvsKept' /\ SegmentsHold'
    BY <1>1, <1>3 DEF UsbInv, Backed, Based, NvsKept, SegmentsHold, Approved
  <2>6. KeysKept'
    <3>1. tool = "first" => Heard \cap Key = {credentials} \ {NoKey}
      BY DEF UsbInv, KeysKept
    <3>2. tool = "first" /\ line \in Key => credentials \in {NoKey, line}
      BY <1>3 DEF OtherKey
    <3>3. tool = "first" => Heard' \cap Key = {credentials'} \ {NoKey}
      BY <1>3, <2>1, <2>3, <3>1, <3>2, UsbAssumption
    <3> QED BY <1>1, <1>3, <2>1, <3>3 DEF KeysKept
  <2> QED BY <2>4, <2>5, <2>6 DEF UsbInv
<1> QED BY <1>1, <1>2, <1>3

LEMMA AcceptKeeps == ASSUME UsbInv, Accept PROVE UsbInv'
<1>1. CASE ~Accepted(printed)
  BY <1>1, StoppingKeeps DEF Accept
<1>2. CASE Accepted(printed)
  <2>1. /\ stage = "listen" /\ stage' = "idle" /\ link' = NoBoard
        /\ report' = [report EXCEPT !.status = "passed"]
        /\ flash' = flash /\ tool' = tool /\ before' = before /\ unchecked' = unchecked
        /\ written' = written /\ printing' = printing /\ printed' = printed
        /\ credentials' = credentials /\ backups' = backups
    BY <1>2 DEF Accept, bench, kept
  <2>2. report' = [status |-> report'.status, writeStarted |-> report'.writeStarted] /\ report'.writeStarted = report.writeStarted
    BY <2>1 DEF UsbInv, UsbTypes
  <2>3. UsbTypes' /\ OnlyC008' /\ Under' /\ Copied' /\ Opened'
    BY <2>1, <2>2 DEF UsbInv, UsbTypes, OnlyC008, Under, Copied, Opened
  <2>4. Backed' /\ NvsKept' /\ SegmentsHold'
    BY <2>1, <2>2 DEF UsbInv, Under, Backed, Based, NvsKept, SegmentsHold, Approved, NoReport
  <2>5. tool = "first" => Heard \cap Key # {}
    BY <1>2 DEF Accepted, FirstAccepted, Lacks, Heard, LinesOf
  <2>6. KeysKept'
    BY <2>1, <2>5 DEF UsbInv, KeysKept, Heard
  <2> QED BY <2>3, <2>4, <2>6 DEF UsbInv
<1> QED BY <1>1, <1>2

LEMMA KillKeeps == ASSUME UsbInv, Kill PROVE UsbInv'
BY EndKeeps DEF Kill, kept

LEMMA UsbStutters == ASSUME UsbInv, UNCHANGED usbVars PROVE UsbInv'
BY DEF usbVars, UsbInv, UsbTypes, OnlyC008, Under, Copied, Based, Opened, Approved, Backed, NvsKept,
       SegmentsHold, KeysKept, Heard

LEMMA UsbStep == UsbInv /\ [UsbNext]_usbVars => UsbInv'
<1> SUFFICES ASSUME UsbInv, [UsbNext]_usbVars PROVE UsbInv'
  OBVIOUS
<1>1. ASSUME NEW b \in Board \cup {NoBoard}, Plug(b) PROVE UsbInv'
  BY <1>1, PlugKeeps
<1>2. ASSUME NEW r \in Region \ Preserved, ChangeFile(r) PROVE UsbInv'
  BY <1>2, ChangeFileKeeps
<1>3. ASSUME NEW t \in Tool, Start(t) PROVE UsbInv'
  BY <1>3, StartKeeps
<1>4. ASSUME NEW misread \in BOOLEAN, Backup(misread) PROVE UsbInv'
  BY <1>4, BackupKeeps
<1>5. ASSUME NEW damaged \in SUBSET Region, WriteSegment(damaged) PROVE UsbInv'
  BY <1>5, WriteSegmentKeeps
<1>6. ASSUME NEW lines \in Printouts, NEW nvs \in Preserved, Reset(lines, nvs) PROVE UsbInv'
  BY <1>6, ResetKeeps
<1>7. CASE Connect \/ CheckBefore
  BY <1>7, ConnectKeeps, CheckBeforeKeeps
<1>8. CASE OpenFiles \/ Verify
  BY <1>8, OpenFilesKeeps, VerifyKeeps
<1>9. CASE HearLine \/ Accept
  BY <1>9, HearLineKeeps, AcceptKeeps
<1>10. CASE LinkLost \/ Kill
  BY <1>10, StoppingKeeps, KillKeeps DEF LinkLost
<1>11. CASE UNCHANGED usbVars
  BY <1>11, UsbStutters
<1> QED BY <1>1, <1>2, <1>3, <1>4, <1>5, <1>6, <1>7, <1>8, <1>9, <1>10, <1>11 DEF UsbNext

\* What each stage of a session has established still holds in the next, however
\* the cable, the files and the tool behave (upload).
THEOREM SessionsAreAccounted == UsbSpec => []UsbInv
<1> QED BY UsbInitial, UsbStep, PTL DEF UsbSpec

\* No session writes to another board, without a backup or on another baseline,
\* and none passes on segments or keys that it did not see (upload,
\* validate_current, capture_boot), for any bundle, board and number of faults.
THEOREM WritesAreSafe == UsbSpec => []WriteWasSafe
<1>1. UsbInv => WriteWasSafe
  <2> SUFFICES ASSUME UsbInv PROVE WriteWasSafe
    OBVIOUS
  <2>1. \A b \in Board \ {C008} : flash[b] = FirstFlash[b]
    BY DEF UsbInv, OnlyC008
  <2>2. written > 0 => /\ before \in backups
                       /\ \A r \in DOMAIN Baseline[tool] : before[r] = Baseline[tool][r]
                       /\ report = NoReport \/ report.writeStarted
    BY DEF UsbInv, Backed, Based
  <2>3. stage = "reset" => \A r \in Preserved : flash[C008][r] = before[r]
    BY DEF UsbInv, NvsKept
  <2>4. report.status = "passed" =>
          unchecked \/ \A r \in DOMAIN Segments[tool] : flash[C008][r] = Segments[tool][r]
    BY DEF UsbInv, SegmentsHold, Approved
  <2>5. report.status = "passed" /\ tool = "first" =>
          {printed[i] : i \in DOMAIN printed} \cap Key = {credentials}
    BY DEF UsbInv, KeysKept, Heard, LinesOf
  <2> QED BY <2>1, <2>2, <2>3, <2>4, <2>5 DEF WriteWasSafe
<1> QED BY <1>1, SessionsAreAccounted, PTL
==============================================================================
