-------------------------- MODULE BaselineLineage --------------------------
(***************************************************************************)
(* The lineage of one trusted baseline: write_baseline_version of          *)
(* baseline_registry.py, as `eval_cli.py baseline` calls it, over the      *)
(* three kinds of files it writes one after another (baseline.json, which  *)
(* is the latest, a snapshot per version, and versions.json).              *)
(*                                                                         *)
(* A document is kept to its content_fingerprint.  A build may be killed   *)
(* between two writes or in the middle of one; write_json truncates and    *)
(* then writes, so that a file may be left torn.  Nothing orders two       *)
(* builds of the same baseline.                                            *)
(***************************************************************************)
EXTENDS Naturals, Sequences

CONSTANTS Builders,  \* processes that build this baseline
          Contents,  \* fingerprints a build may observe
          MaxBuilds  \* bound: builds started

ASSUME LineageAssumption ==
  /\ MaxBuilds \in Nat
  /\ Contents \cap {"none", "torn"} = {}

VARIABLES
  pointer,    \* baseline.json
  snapshots,  \* versions/<label>/baseline.json, by the number in the label
  manifest,   \* versions.json: whether it can be read, and its versions
  pc,         \* pc[b]: the build
  doc,        \* doc[b]: what it observed
  kept,       \* kept[b]: whether it keeps a version (no --no-version)
  versions,   \* versions[b]: its list of the same name
  builds,     \* builds started
  returned,   \* history: returned[c]: builds of c that kept a version and returned
  overlapped, \* history: a build started while another was under way
  loose       \* history: the build that wrote baseline.json last kept no version, or did not end

files == <<pointer, snapshots, manifest>>
build == <<pc, doc, kept, versions>>
started == <<builds, overlapped>>
history == <<returned, loose>>
vars == <<files, build, started, history>>

Docs == Contents \cup {"none", "torn"}
Entries == [content : Contents, parent : Nat, compared : Docs, observed : Nat]
Steps == {"idle", "reading", "pointer", "observing", "snapshot", "parent", "committing"}

Idle(b) == pc[b] = "idle"

\* Slip: look at the latest version only.
IsLatest(es, c) == es # <<>> /\ es[Len(es)].content = c

\* The dedup against the whole lineage
Known(es, c) == \E i \in DOMAIN es : es[i].content = c

\* Slip: count a build on the tip of the lineage.
ObservedAtTip(es, c) == [i \in DOMAIN es |-> IF i = Len(es) THEN [es[i] EXCEPT !.observed = @ + 1] ELSE es[i]]

\* match["observed_count"] += 1
Observed(es, c) ==
  [i \in DOMAIN es |->
     IF es[i].content = c
     THEN [content |-> c, parent |-> es[i].parent, compared |-> es[i].compared,
           observed |-> es[i].observed + 1]
     ELSE es[i]]

\* Slip: number the versions from zero, but the first of them from one.
LabelFromZero(es) == IF es = <<>> THEN 1 ELSE Len(es)

\* seq, the number in the label of a new version
Label(es) == Len(es) + 1

\* load_baseline_version of the last version listed, if there is one
Parent(es) ==
  IF Len(es) \in DOMAIN snapshots THEN snapshots[Len(es)] ELSE "none"

NewVersion(es, c) ==
  [content |-> c, parent |-> Len(es), compared |-> Parent(es), observed |-> 1]

\* Slip: leave a snapshot alone that is there already.
PutOnce(store, label, content) ==
  [l \in DOMAIN store \cup {label} |-> IF l \in DOMAIN store THEN store[l] ELSE content]

\* A file is created or overwritten.
Put(store, label, content) ==
  [l \in DOMAIN store \cup {label} |-> IF l = label THEN content ELSE store[l]]

-----------------------------------------------------------------------------
\* A baseline from before there were versions is a baseline.json alone.
Init ==
  /\ pointer \in Contents \cup {"none"}
  /\ snapshots = [l \in {} |-> "none"]
  /\ manifest = [readable |-> TRUE, versions |-> <<>>]
  /\ pc = [b \in Builders |-> "idle"]
  /\ doc = [b \in Builders |-> "none"]
  /\ kept = [b \in Builders |-> FALSE]
  /\ versions = [b \in Builders |-> <<>>]
  /\ builds = 0
  /\ overlapped = FALSE
  /\ returned = [c \in Contents |-> 0]
  /\ loose = TRUE

Goto(b, step) == pc' = [pc EXCEPT ![b] = step]

\* baseline_build has collected its samples.
Collect(b) ==
  /\ Idle(b)
  /\ builds < MaxBuilds
  /\ \E c \in Contents, k \in BOOLEAN :
       /\ doc' = [doc EXCEPT ![b] = c]
       /\ kept' = [kept EXCEPT ![b] = k]
       /\ Goto(b, IF k THEN "reading" ELSE "pointer")
  /\ versions' = [versions EXCEPT ![b] = <<>>]
  /\ builds' = builds + 1
  /\ overlapped' = (overlapped \/ \E d \in Builders : ~Idle(d))
  /\ UNCHANGED <<files, history>>

\* load_versions_manifest
ReadManifest(b) ==
  /\ pc[b] = "reading"
  /\ manifest.readable
  /\ versions' = [versions EXCEPT ![b] = manifest.versions]
  /\ Goto(b, "pointer")
  /\ UNCHANGED <<files, doc, kept, started, history>>

ReadManifestRaises(b) ==
  /\ pc[b] = "reading"
  /\ ~manifest.readable
  /\ Goto(b, "idle")
  /\ UNCHANGED <<files, doc, kept, versions, started, history>>

\* write_baseline
WritePointer(b) ==
  /\ pc[b] = "pointer"
  /\ pointer' = doc[b]
  /\ loose' = TRUE
  /\ \/ ~kept[b] /\ Goto(b, "idle")
     \/ kept[b] /\ Known(versions[b], doc[b]) /\ Goto(b, "observing")
     \/ kept[b] /\ ~Known(versions[b], doc[b]) /\ Goto(b, "snapshot")
  /\ UNCHANGED <<snapshots, manifest, doc, kept, versions, started, returned>>

\* versions.json is written, with every version known; this is a build's last step.
Commit(b, es) ==
  /\ manifest' = [readable |-> TRUE, versions |-> es]
  /\ returned' = [returned EXCEPT ![doc[b]] = @ + 1]
  /\ loose' = FALSE
  /\ Goto(b, "idle")
  /\ UNCHANGED <<pointer, snapshots, doc, kept, versions, started>>

\* The fingerprint is that of a version listed: it is observed once more.
CommitObserved(b) ==
  /\ pc[b] = "observing"
  /\ Commit(b, Observed(versions[b], doc[b]))

WriteSnapshot(b) ==
  /\ pc[b] = "snapshot"
  /\ snapshots' = Put(snapshots, Label(versions[b]), doc[b])
  /\ Goto(b, "parent")
  /\ UNCHANGED <<pointer, manifest, doc, kept, versions, started, history>>

\* diff_baselines against the parent's snapshot, and the new entry
CompareParent(b) ==
  /\ pc[b] = "parent"
  /\ Parent(versions[b]) # "torn"
  /\ versions' = [versions EXCEPT ![b] = Append(@, NewVersion(@, doc[b]))]
  /\ Goto(b, "committing")
  /\ UNCHANGED <<files, doc, kept, started, history>>

CompareParentRaises(b) ==
  /\ pc[b] = "parent"
  /\ Parent(versions[b]) = "torn"
  /\ Goto(b, "idle")
  /\ UNCHANGED <<files, doc, kept, versions, started, history>>

CommitNew(b) ==
  /\ pc[b] = "committing"
  /\ Commit(b, versions[b])

-----------------------------------------------------------------------------
\* The build is killed between two writes ...
Crash(b) ==
  /\ ~Idle(b)
  /\ Goto(b, "idle")
  /\ UNCHANGED <<files, doc, kept, versions, started, history>>

\* ... or in the middle of one.
TearPointer(b) ==
  /\ pc[b] = "pointer"
  /\ pointer' = "torn"
  /\ loose' = TRUE
  /\ Goto(b, "idle")
  /\ UNCHANGED <<snapshots, manifest, doc, kept, versions, started, returned>>

TearSnapshot(b) ==
  /\ pc[b] = "snapshot"
  /\ snapshots' = Put(snapshots, Label(versions[b]), "torn")
  /\ Goto(b, "idle")
  /\ UNCHANGED <<pointer, manifest, doc, kept, versions, started, history>>

TearManifest(b) ==
  /\ pc[b] \in {"observing", "committing"}
  /\ manifest' = [readable |-> FALSE, versions |-> <<>>]
  /\ Goto(b, "idle")
  /\ UNCHANGED <<pointer, snapshots, doc, kept, versions, started, history>>

Step(b) ==
  \/ Collect(b) \/ ReadManifest(b) \/ ReadManifestRaises(b) \/ WritePointer(b)
  \/ CommitObserved(b) \/ WriteSnapshot(b) \/ CompareParent(b)
  \/ CompareParentRaises(b) \/ CommitNew(b)

Fault(b) == Crash(b) \/ TearPointer(b) \/ TearSnapshot(b) \/ TearManifest(b)

Next == \E b \in Builders : Step(b) \/ Fault(b)

Spec == Init /\ [][Next]_vars

-----------------------------------------------------------------------------
TypeOK ==
  /\ pointer \in Docs
  /\ DOMAIN snapshots \subseteq Nat \ {0}
  /\ \A l \in DOMAIN snapshots : snapshots[l] \in Contents \cup {"torn"}
  /\ manifest \in [readable : BOOLEAN, versions : Seq(Entries)]
  /\ pc \in [Builders -> Steps]
  /\ doc \in [Builders -> Contents \cup {"none"}]
  /\ kept \in [Builders -> BOOLEAN]
  /\ versions \in [Builders -> Seq(Entries)]
  /\ builds \in Nat
  /\ returned \in [Contents -> Nat]
  /\ overlapped \in BOOLEAN
  /\ loose \in BOOLEAN

\* What a version listed says of itself is so.
VersionSound(store, es, i) ==
  /\ i \in DOMAIN store
  /\ store[i] = es[i].content
  /\ es[i].parent = i - 1
  /\ es[i].compared = IF i = 1 THEN "none" ELSE es[i - 1].content

\* The list is the truth about the files.
ListSound ==
  \A i \in DOMAIN manifest.versions : VersionSound(snapshots, manifest.versions, i)

(* As long as no two builds overlapped, and whichever were killed, and     *)
(* wherever, every version listed has its snapshot, whole and with the     *)
(* fingerprint the list gives, and the drift of a version was measured     *)
(* against the version before it.                                          *)
LineageSound == ~overlapped => ListSound

(* No fingerprint is listed twice, even when builds overlap and each adds  *)
(* to the list it read.                                                    *)
ListedOnce ==
  \A i, j \in DOMAIN manifest.versions :
    manifest.versions[i].content = manifest.versions[j].content => i = j

\* A step keeps the snapshots of the versions that are listed.
ListedKept ==
  \A l \in DOMAIN manifest.versions \cap DOMAIN snapshots :
    l \in DOMAIN snapshots' /\ snapshots'[l] = snapshots[l]

(* As long as no two builds overlapped, a version that was listed is       *)
(* immutable: no later build writes its snapshot again.                    *)
VersionsImmutable == [][~overlapped' => ListedKept]_vars

(* The same for builds that overlap: "a new immutable version"             *)
(* (write_baseline_version).                                               *)
AlwaysImmutable == [][ListedKept]_vars

\* The list counts the builds that returned.
CountSound ==
  manifest.readable =>
    /\ \A i \in DOMAIN manifest.versions :
         manifest.versions[i].observed = returned[manifest.versions[i].content]
    /\ \A c \in Contents : returned[c] > 0 => Known(manifest.versions, c)
    /\ ~loose => Known(manifest.versions, pointer)

(* As long as no two builds overlapped, every build that returned is       *)
(* counted at its own fingerprint, none is counted twice, and what         *)
(* baseline.json shows after it is a version.                              *)
BuildsCounted == ~overlapped => CountSound
=============================================================================
