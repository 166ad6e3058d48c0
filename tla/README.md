# A TLA+ verification of libpkgbuild-exec

libpkgbuild-exec turns an admitted package build into a process execution and
its output into a sealed, published package archive. This directory holds
TLA+ modules translated from its source, the TLC configurations that check them,
and theorems checked by TLAPS. Paths below are relative to the repository.

## Inventory

| Component | State it keeps | Operations |
|---|---|---|
| Session admission (`src/model.cpp`) | none; returns an immutable session | `admit()`: source, input, path and credential checks, first error wins |
| Request projection (`src/executor.cpp`) | none | `seal_execution_request()`, `project_prepared_paths()`, `project_sealed_artifact_path()` |
| Preparation (`src/executor.cpp`) | the session root and package output tree | `prepare()`: reset, staging, archive extraction, writable directories |
| Source archive extraction (`src/source_archive_libarchive.cpp`) | the build workspace, a map of pending directory modes | `unpack()` |
| Backend contract (`src/executor.cpp`) | none | `backend_capabilities()`, `invoke_backend()` and the checks on their results |
| Payload inspection and encoding (`src/executor.cpp`) | stamps, manifest, the temporary's bytes | `inspect_payload()`, `encode_artifact()` |
| Result sealing (`src/executor.cpp`) | `temporary_artifact`: descriptor, temporary name, published name, ownership | `execute_sealed()` |
| Artifact publication (`src/executor.cpp`) | the private sealed name, the public artifact path | `publish_sealed_artifact()`, `execute()` |
| Durable result codec (`src/result_codec.cpp`) | none | encode, decode, validate |
| Result identities, error values | none | hashing, names |

How they interact: a controller admits a session; `execute_sealed` asks the
backend for its capabilities, prepares the session root (which destroys the
private name of any earlier attempt), runs the backend, inspects the output,
encodes it into a temporary in the session root, links it to the private name,
has libpkgimage read it back, and returns a terminal result. The controller
stores the encoded result. `publish_sealed_artifact` looks at the public path,
then at the private copy, copies it to a temporary beside the public path,
links it without replacement, and removes the private copy. `execute` does both
in one call. The library runs no threads and takes no locks; several processes
meet in the file system only, at the public path.

What is hard to test: two processes at one artifact path, between any two system
calls; a process that dies, or power that fails, between link, fsync and unlink;
a failing system call after the name has become visible; repetition of a
publication that has half happened; other programs at the artifact path; a
package output that still changes while it is inspected and encoded; source archives
whose entries come in any order with any modes, over what failed attempts and builds
left; stored records that others rewrite; and admission's lexical path comparison. `hazards` in `PROJECT.json` lists each at
its line, with the properties aimed at it.

## Modules

* **ArtifactStore**: the file system as the code uses it. Inodes carry bytes, a
  read-only bit, whether their data was fsync'ed, and who made them. `dir` is
  what processes see, `disk` what survives a power loss; a name moves from one
  to the other when its parent is fsync'ed. `Stamp` is `file_stamp`: since named
  files are never rewritten, the names (link count and ctime) are what can change.
* **SealedPublication**: `execute_sealed`, `publish_sealed_artifact`, `execute`
  and class `temporary_artifact`, one action per system call another process, a
  fault or a crash can come between. The variables `fd`, `binding` and `dest`
  are the members of `temporary_artifact`; `seen` and `want` are the stamp
  and the digest under comparison; `evidence` and `complete` belong to the controller.
  `Attempt` and `Raise` are the code's "throw unless", and `Unwind`/`Drop` the destructor.
  The environment is `Kill`, `PowerLoss`, `ForeignCreate`, `ForeignRemove`.
* **ArtifactPromise**: the abstract specification of the same calls, what `executor.h`
  tells a caller: the bytes shown at the artifact path, the bytes each session
  retains, the evidence, and whether publication was reported. No temporaries,
  descriptors, stamps or system calls.
* **PublicationRefinement**: SealedPublication implements ArtifactPromise
  (`PromiseKept`): a durable name maps to the bytes of its inode once these are
  complete and read-only.
* **MCSealedPublication**: model values, and inodes handed out in order.
* **SealedPublicationProofs**, **ArtifactPromiseProofs** and **PublicationRefinementProofs**:
  the theorems about these.
* **Admission**: `admitted_build_session::admit`, one action per group of
  checks in the code's order. `Normal` does what `lexically_normal()` does, the
  trailing empty component included; `Place` is where a path leads.
* **Projection** (extends Admission): what an admitted session becomes. `bindings` is
  the resource layout of `seal_execution_request` (identity, access, mount),
  `materials` the host paths `prepare` binds to the identities. Its properties
  compose the two: admission keeps places apart, projection must not undo that.
* **MCAdmission**: families of proposals, each varying one part of a good one.
* **Sorting**: `std::sort` by its result, the ordered permutation of its argument.
* **AdmissionProofs**: the theorems about Admission and Projection. **SequenceLemmas**:
  what they, and the three proof modules below, need of sequences and natural numbers.
* **PayloadSnapshot**: `inspect_payload`, `encode_artifact` and `inspect_payload`
  again, one action per system call, over a tree of inodes that changes between
  any two of them. `scan` holds the activations of `inspect_directory` (`stack`),
  the entry at hand and its stamp (`name`, `before`), the manifest so far, and
  `hardlink_targets`; `payload` is the first `inspected_payload`; `enc` the state of
  `encode_artifact` and `open_regular_beneath`. `views` and `since` are history
  variables for the properties. It details what SealedPublication's Inspect, Write
  and Reinspect do.
* **MCPayloadSnapshot**: small trees, and the changes they may undergo.
* **PayloadSnapshotProofs**: the theorems about sealed archives, regular files, what holds still and refusals.
* **SourceArchive**: `unpack()`, one action per header, per parent component
  (`open_parent`), per object created and per directory sealed. `tree` is the
  host as a function of paths, `directories` the code's `directory_map`;
  `object`, `next` and `pos` are its loops.
* **Preparation** (extends SourceArchive): `prepare()`, one action per step that may
  fail: request, unlocking, removing and creating each of the four directories, realising
  the source tree, `home`, each archive, and the controller's repeated calls.
  `Build` is what a build may leave: in each directory of its own a shut directory
  with something in it (unless the name is taken), and any of these directories shut.
  `LocalName` is the name an object is exposed under; only that it is a name matters.
* **MCPreparation**: all short sequences from a pool of thirteen entries.
* **PreparationProofs**: the theorems about both.
* **ResultCodec**: `encode_build_execution_result` and `decode_build_execution_result`.
  A record is modelled by how its bytes parse: a value per field, and `extent` for where
  they end or stop making sense. `Decode` takes the checks in the order that decides
  the error code. `Rewrite` and `Refit` are others who may write to the stored bytes.
* **MCResultCodec**: results at and above each limit, and for each field the values
  that tell its checks apart.
* **ResultCodecProofs**: the theorems about records.

Some definitions come in pairs, for example `AnyBytes` and `ExactBytes`: the
second is the code, the first a plausible slip used to see that a
property notices it.

## What is assumed

* fsync of a directory makes its names durable, and names that are not fsync'ed
  may or may not survive. File data not fsync'ed is torn by a power loss.
* Each session has a session root of its own, and one process works on a session
  at a time. The private name is therefore nobody else's, and
  as `prepare` empties the session root, sealing never finds it taken.
* Other programs put complete files at the artifact path and do not rewrite them
  in place, nor touch temporary names (which are unpredictable) or session roots.
* link() and unlink() change a file's stamp. Equal digests mean equal bytes.
* The backend and libpkgimage may answer anything their interface allows; a wrong
  answer is an outcome of `Invoke` or `Image`.
* A stored result decodes to itself: SealedPublication assumes it, ResultCodec shows it
  for results within the limits.
* A mode is three bits in SourceArchive and Preparation: owner may read and search,
  owner may write, anybody else may do anything. The process is privileged, or owns
  all it meets. `remove_all` removes children first, in any order.
* `realize_source_object_tree` (libpkgsource-exec) leaves a read-only tree with
  one file for each object, or fails. libarchive returns the entries an archive has.
* A later archive changes the times of the directories it adds to, and nothing restores
  them; as an unprivileged process it cannot enter directories an earlier one shut.
  Archives that name `home`, or a directory another archive made, are refused.
  Link targets are checked as the code does, lexically and one at a time.
* libpkgbuild's manifest has one entry for a path, in order; libpkgexec decodes its
  embedded record under the authority given, and refuses two resources at one mount.
* In PayloadSnapshot every change to an inode, its links and names included, gives it
  a new stamp (ctime), except under a `coarse` clock, where a rewrite may keep it. A
  directory is renamed within its parent only. An admitted `SOURCE_DATE_EPOCH`
  replaces modification times. openat() with the fstat() after it, and fstat() of a
  descriptor with the fstatat() after it, are one step each. FIFOs do not take
  the place of regular files: opening one would block.
* No component of an admitted path is a symbolic link.

## Runs

Bounds: two contents (equal and different bytes are both possible), one or two
sessions, five inodes (a run never needs more at a time: each session has at
most a temporary, a private and a public file, besides litter), and a
budget for each kind of disturbance, since every hazard listed takes at most two
of them. Deadlock is checked everywhere: a session that ended in failure stutters
by `Settled`, an admission that ended by `Returned`, a sealed or refused payload by
`Done`, an opened record by `Over`. Archives have three entries, or two and two: a link, its
target and the directory around them, in every order. Records are rewritten in three
fields, as many as it takes to turn one genuine success into another. Trees have a root, two directories, one of them possibly in the other, and at most two files,
which is what it takes for one entry to change after it was read and before another one is.
`payload_paths` needs directories below those of the root and ten renames; it fixes
when pairs of renames may come.

| Run | Instance | Checks |
|---|---|---|
| `session_faults` | 1 session, both entry points, 2 faults, 1 death, 1 foreign file | TypeOK, EvidenceIsPublishable, CompletionIsExact, ResidueOnlyAfterFailure, FailureIsNotPublished, NeverReplaced, OwnRemovalOnly, PromiseKept, PublicationSettles |
| `rival_sessions` | 2 sessions with `execute_sealed`, 1 death | NoTornPublication, TemporaryIsPrivate, EvidenceIsPublishable, CompletionIsExact, EvidenceBeforeExposure, OwnRemovalOnly, PromiseKept, PublicationSettles |
| `power_loss` | 1 session, both entry points, 1 fault, 2 power losses, 1 foreign creation or removal | NoTornPublication, EvidenceIsPublishable, CompletionIsExact, NeverReplaced |
| `preparation` | 16 thousand sessions with archives, some with 2 faults, a build, and retries | TypeOK, PreparedAsDeclared, RefusesOnlyInconsistent, AliasLeavesHostAlone, RetryPrepares |
| `admission` | up to 3 of 7 paths moved to 6 places; small sources, inputs, resources, flags and credentials | AdmittedEffectsAreApart, RefusalIsJustified, InputsCorrespond, CredentialsAreCanonical, WritableIsApart, InputsReachTheBuild, OnlyAliasesMismatch |
| `payload_changes` | 8 trees: 3 changes of two files, 2 of a shared file, nested directories, a mixture, special files, nothing; 2 under a coarse clock | RegularFilesAreSnapshot, SettledPartAgrees, ArchiveIsManifest, RefusalHasCause |
| `result_codec` | 16 results, 3 rewritten fields, 12 authorities | RoundTrip, OpensOnlyGenuine, AuthorityIsTold |

Between them they say: what the library puts under a durable name is
always whole; durable evidence keeps its bytes somewhere until they are published;
a successful return means the exact bytes are public; nothing is replaced, and
nothing foreign is removed; a failure leaves neither an artifact nor, unless a
system call failed, a temporary; and retrying ends. Of the payload they say: the
regular files sealed coexisted in the versions sealed, and those in the root or in a
directory of the root were at their paths then, hard links included; the archive holds what the manifest says even where stamps fail;
whatever held still from the second inspection on is in the manifest exactly as
it is; and a tree nobody touches is refused only for being empty or for a socket. Of
preparation: a prepared workspace is what its archives declare, in whatever order,
and nothing earlier attempts or builds left; only contradictory archives are refused; and
retrying gets there. Of the execution request: what the build may write to is apart from
all it must not, and each input is found under its name. Of stored results:
what was encoded decodes to itself, nothing else opens, and the wrong authority is
told from damage. The one gap is part of `RoundTrip`: the encoder writes payload texts
longer than the decoder reads.

Fairness (`FairSpec`, in the first two runs and in `preparation`) is weak fairness of each running process, which the
operating system's scheduler gives, and of the controller's next call while it holds
unpublished evidence, which is what `executor.h` asks of a durable controller.
No system call is assumed to succeed: only the number of failures is finite.
`PublicationSettles` allows one escape, different bytes that stay at the artifact
path for good: then the code refuses forever, as it says it does.

### Disagreements between the code and what is written about it

Five runs end in a counterexample (details and quotations in `findings`):

* `trailing_separator`: admission compares path components, and a path with a
  trailing separator ends in an empty one. A session root `/s/` is thus admitted
  together with an input `/s/x`. `admission` shows that without trailing
  separators admission is exact.
* `lost_after_restart`: a publisher dies after link(); its successor sees the exact
  bytes, removes the private copy durably, and never fsyncs the public
  directory; a power loss then leaves the evidence without its bytes.
* `lost_to_rival`: a session relies on a name that a second session with the same
  bytes has linked but not finished; the second one's fsync fails and it withdraws
  the name.
* `foreign_withdrawn`: publish() unlinks the destination precisely when it finds
  that it is not its own file.
* `payload_paths`: directories have no stamp compared with the one they were inspected
  with (the root has). Directories below those of the root, renamed away and back in
  turn, let two files be sealed at paths they never had at one moment. Directory modes
  escape in the same way. `payload_changes` and the theorem `SealedFilesCoexisted` show
  what is safe: the versions of all regular files, and the paths of those no deeper than a
  directory of the root. For these, the comparison of the root's stamp suffices.

The passing runs leave out just the combination concerned: no death before a power
loss, no fault with a rival, no removal by other programs where OwnRemovalOnly is checked
(`power_loss` has removals, and its two properties about evidence except what was
removed).
One more corner is written into `CompletionIsExact`: a failed fsync of the session
root is not repeated by a retry, so a power loss may bring the private copy back.

## Proofs

`SealedPublicationProofs` proves, for every set of sessions, inodes and contents
and every bound:

* `TypeCorrect`: `Spec => []TypeOK`. The last conjunct, `DescriptorsOK`, makes it
  inductive and is a property of its own: `fd[s]` is a file wherever the code uses it.
* `PublishedFilesAreWhole` and `TemporariesArePrivate`:
  `Spec => []NoTornPublication` and `Spec => []TemporaryIsPrivate`.
  NoTornPublication is not inductive: `Link` publishes what the temporary
  holds, so one must know that it is sealed then, and that nobody can name or open
  it before. The inductive invariant is `TypeOK /\ Safe`,
  `Safe` being the conjunction of both. Most actions change neither the store nor a
  temporary; a lemma on `Quiet` steps handles those at once, and the rest
  (MkTemp, Write, Seal, Link, PowerLoss and so on) have a step each.
* `PublicationNeverReplaces`: `Spec => NeverReplaced`, from the type invariant and a
  case analysis of who binds the public name.
* `RemovesOnlyItsOwn`: if `"remove" \notin ForeignMay`, then
  `Spec => OwnRemovalOnly`. The invariant `Ownership` says that from link() to the
  end of a publication, and wherever the code may still withdraw it, the name leads to
  the session's own descriptor, and that a temporary or owned file was made by
  that session. The assumption is necessary:
  `foreign_withdrawn` is the counterexample without it.

The same module adds to `TypeOK /\ Safe` the `Bookkeeping` of each call (what a controller
at this label may have recorded, whether the digest is determined, who made the file at the
descriptor); the three together are `Inv`. From it follow

* `NoResidueWithoutFailure`: `Spec => []ResidueOnlyAfterFailure`. The invariant `Tidy` lists the
  labels between mkstemp and the unlink of the temporary name, each of which leads out
  through the destructor.
* `NothingExposedWithoutEvidence`: if controllers only use `execute_sealed`, then
  `Spec => []EvidenceBeforeExposure`. The invariant covers the persisted name as
  well, which a power loss brings back. With `execute` the bytes are public
  before there is a result, as `executor.h` says.
* `FailedResultsPublishNothing`: `Spec => []FailureIsNotPublished`. While at most one system
  call has failed, a session without evidence that has a file at the artifact path is either
  still publishing it, or about to take it back with an unlink that can no longer fail
  (the one failure is spent), or reports `artifact_cleanup` (`Accounts`). Besides, `SoleNames`:
  an owned publication has no name but its destination, so its verification cannot
  fail by its own doing.

`ArtifactPromiseProofs` proves `EvidenceStaysAvailable`, `Spec => []Available` for the
abstract specification: under the promise, the bytes that evidence names are shown
or retained, and shown once publication was reported. The invariant is inductive with the type
invariant: what is retained is released only while it is shown, and what is shown is
withdrawn only from sessions that still retain it.

`PublicationRefinementProofs` proves that SealedPublication implements ArtifactPromise
(`SealedPublicationKeepsPromise`), and with it `EvidenceNeverLost` and
`ReportedPublicationStays` (EvidenceIsPublishable and CompletionIsExact), under `Gentle`: other
programs remove nothing from the artifact path, no power is lost, and system calls fail
only where a session is alone. Deaths and rivals are included, and failures for a single session.
Each part is needed: the promise has no step for a removal by others, after which
publish() may moreover take a stranger's file away (`foreign_withdrawn`);
`lost_after_restart` needs a power loss, and `lost_to_rival` a failure with a rival. The inductive invariant `RInv` is `Inv`,
`SoleNames`, `Ownership`, and

* `Examinations`: what a call found out about a file (read-only, digest, identity) stays
  true while it relies on it, since named files are never rewritten;
* `Custodies`: at each label, where the bytes of the evidence are (private name, public name,
  or both), which is what release and withdrawal depend on;
* `Available`, the invariant of the promise itself.

Each system call then maps to a step of the promise or a stutter, one proof step per action.

The promise says nothing of power losses. `EvidenceSurvivesPowerLoss` and `ReportSurvivesPowerLoss`
prove EvidenceIsPublishable and CompletionIsExact across any number of them, under `Solitary`: one
session, no other deaths, at most one failing system call, and no files by others
where others cannot remove them too (`Robbed` exempts those). The invariant `Persistence` restates custody for
what survives: what a call relies on is `Lasting`, shown and persisted by the same name. That
holds because the artifact path leads to an unsynced file only between link() and the fsync
of its parent (`Pending`), because a withdrawal can then no longer fail (`Behind`: the one failure
is spent), because only fsync'ed files get a durable name (`OnDisk`), and because a session
whose publication was reported never links again (`Vouched`). TLC checked it on `power_loss` before it
was proved. All four conditions have one reason: a file found at the artifact path is adopted, and
the private copy removed, with no fsync of the name found. Changing one constant of `PowerLoss.cfg` (a
second fault, a death, or others that only create) makes TLC find evidence lost, and so does a
second session, in little time with `MaxFaults = 0`, `MaxLosses = 1` and `MaxForeign = 0`;
`lost_after_restart` is the case of the death.

`AdmissionProofs` is about every set of proposals. The invariant `Accepted` says what has been
checked when a stage is reached, `Projected` the same for the projection.

* `AdmittedInputsCorrespond`, `AdmittedCredentialsAreCanonical` and `MismatchIsAlias`
  hold without conditions. That the matches found are a permutation is the
  pigeonhole principle; that sorting yields the groups in order, `SortingSorts`.
* `PlainEffectsAreApart`, `PlainInputsReachTheBuild` and `PlainWritableIsApart` assume
  `PlainProposal`: no path (but the artifact's) ends in a separator or in a dot.
  Then the normal path that is compared is the place meant. `trailing_separator` shows
  the need for it.
* `OnlyWrongIsRefused` assumes that a request names each of its inputs once (`InputsOnce`), as
  pkgbuild's input set does.

`ResultCodecProofs` is about every set of results, authorities and rewrites, and every limit. The
invariant `Codec` says that only what fits is kept, that every field parses, and that the
outcome is that of `Decode` on the record as it lies there. `OnlyGenuineOpens`,
`AuthorityDecides` and `RoundTripIsExact` prove the three properties of the run. The last one
includes the gap: texts longer than the decoder reads.

`PayloadSnapshotProofs` is about every finite tree, any number of changes and either clock.

* `SealedArchiveIsManifest`: the archive is at all times the part of the manifest written so far
  (`Archived`).
* `SealedFilesCoexisted`: `Spec => []RegularFilesAreSnapshot`. The moment all files share is when
  the first inspection left the root and the root's stamp had not changed. The
  inductive invariant `Files` says what is known before: an inode is what it was when inspected
  unless its stamp has changed, and is where it was unless the root's has (`Recorded`,
  `Stacked`), and every hard link has an older target in the manifest (`Targeted`). At the
  moment itself that becomes a statement about the tree there is (`Moment`): each entry that
  still has its stamp was there. Encoding then finds the stamps unchanged one
  by one and turns "unless changed" into a fact about that past tree. This invariant was first
  checked by TLC on the trees of `payload_changes` and `payload_paths`.
* `SettledPayloadAgrees`: `Spec => []SettledPartAgrees`. The invariant `Covered` speaks only of paths
  that hold still from `since` on, so that a change makes fewer of them and alters nothing about
  those left (`StillLater`). Each directory being read, if its path holds still, is the one at it
  (`Placed`); each entry at such a path is what lies there (`Faithful`); and whatever lies at such a
  path has its entry or is still ahead: at hand, below it, or below a name some directory
  on the stack has not visited (`Complete`, `Ahead`). When the root is left nothing is ahead.
* `RefusalsHaveCause`: `Spec => []RefusalHasCause`. A change always makes another tree
  (`TreeIsChanged`), so while `views` has one member the tree is the first. There, every stamp taken
  is the stamp there is, every name still to visit exists and every entry's path leads
  to its file (`Walking`, `Writing`), so no check fails. That the second inspection returns the
  manifest of the first is not a fact about one state: `Onward` gives the inspection
  after the next call as a function of the tree and the inspection so far, every step
  is shown to follow it (`Goes`), and two runs of a function that stop at the same condition are
  equal (`RunsAgree`). Whichever hard link came first does so again. TLC checked these
  parts, and that steps follow `Onward`, on the trees of `payload_changes` before they were proved.

`PreparationProofs` is about every set of sessions: any number of archives with any entries,
any names, modes and times, any failures, deaths, retries and builds.

* `Invariance`: `Spec => []Inv`. PreparedAsDeclared speaks of the end only, so the invariant says
  at every step what the workspace owes to the entries met so far (`Archived`): each finished entry
  is where it belongs (`Extracted`), with its final mode and time unless its directory is
  still pending; a pending directory (`Pending`) is one this archive made or declared, with
  the metadata the declaration or the default gives it; everything else below the workspace
  is the parent of a finished entry (`ByDefault`); and any two finished entries are consistent
  (`Apart`). It needs that the tree is one (`Sound`: every object in a directory,
  hard links agree, and only files share an inode), how far the reset has come and what stands
  outside of the roots still to be reset (`Stage`), and that names share only inodes made after
  the reset (`Closed`). An entry then adds what it declares at a name that was free, and
  changes nothing else but the time of the directory it is in; a sealed directory gets its
  metadata after everything in it, since what is pending below it is sealed first.
* `TypeCorrect`, `ReturnsAsDeclared` (PreparedAsDeclared) and `AliasesAreRefused`
  (AliasLeavesHostAlone) follow.
* `RefusalsAreJustified`: `Spec => []RefusesOnlyInconsistent`. Every throw is one by a failed
  system call or by a session that is not `Preparable`: either an entry contradicts an earlier one, or
  the process could not enter a directory. The latter is excluded by `Permitted`:
  while entries are extracted every directory of the workspace is open to its owner; sealing goes from
  the deepest directory up, so that those above the one being sealed still are; with
  several archives the declared modes themselves are open (`Usable`); and unlocking opens
  whatever earlier attempts and builds have shut before it is removed.

TLC checked each conjunct on the sessions of `preparation` before it was proved.

Two things about form. Induction over natural numbers goes through sets: `MinExists` comes
from the well-foundedness of inclusion among intervals, and `InductionOverNat`, about a set of
numbers, from it, since a theorem with an operator parameter cannot be used. Admission
names the empty string (`NoError`, `Blank`), which the provers do not take as a literal.

The proofs rest on assumptions on the constants, all evaluated by TLC in the runs: `Distinct` for the
abstract specification, `StoreAssumption` and `PublicationAssumption` (the constants are
disjoint, allocation picks a free inode, bounds are naturals), `MaxIdAssumption`,
`ProposalAssumption` and `OwnResourceAssumption` (proposals are made of sequences, paths
and numbers; the adapter's own resources differ), `LimitsAssumption`, `AuthoritiesAssumption`,
`ResultsAssumption` and `RewritesAssumption` (results are those the executor can
return; others write fields that parse), `PreparationAssumption` and `SessionsAssumption` (bounds
are naturals; archives are sequences of entries, whose paths are sequences of names), `PayloadAssumption` and `TreeAssumption` (nodes
and names are finite sets of numbers, a tree has a root and no stamps of the future). The
conditions `Gentle`, `PlainProposal` and the like are hypotheses of the theorems that need them.

Only model-checked: PublicationSettles and RetryPrepares, since liveness is beyond the prover. Every
invariant and every other action property of a passing run is a theorem, some of them under the
conditions named above.

## Not modelled

The bytes of archives, manifests and records (fields and their order are), hashing, the
formatting of diagnostics and the names of error codes. A FIFO that replaces a regular file
while it is opened. What pkg* libraries do inside their calls.

## Plan

Every component with state is modelled, and every safety property that a passing run checks is
proved. Beyond the reach of the tools used here are proofs of the two liveness properties, and of
what the recursive definitions of the codec compute for records of any length.
