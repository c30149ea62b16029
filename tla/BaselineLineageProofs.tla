----------------------- MODULE BaselineLineageProofs -----------------------
(***************************************************************************)
(* Proofs about the lineage of a baseline.  That no fingerprint is listed  *)
(* twice holds however builds overlap; the rest holds when they do not.    *)
(***************************************************************************)
EXTENDS BaselineLineage, TLAPS

\* A build under way has a document.
HasDoc == \A b \in Builders : ~Idle(b) => doc[b] \in Contents

Typed == TypeOK /\ HasDoc

\* The list of a new version or of an observed one is typed.
LEMMA ObservedTyped ==
  ASSUME NEW es \in Seq(Entries), NEW c \in Contents
  PROVE  /\ Observed(es, c) \in Seq(Entries)
         /\ Len(Observed(es, c)) = Len(es)
         /\ DOMAIN Observed(es, c) = DOMAIN es
         /\ \A i \in DOMAIN es :
              /\ Observed(es, c)[i].content = es[i].content
              /\ Observed(es, c)[i].parent = es[i].parent
              /\ Observed(es, c)[i].compared = es[i].compared
              /\ Observed(es, c)[i].observed =
                   IF es[i].content = c THEN es[i].observed + 1 ELSE es[i].observed
<1>1. \A i \in DOMAIN es : es[i] \in Entries
  OBVIOUS
<1>2. \A i \in DOMAIN es : Observed(es, c)[i] \in Entries
  BY <1>1, SMT DEF Observed, Entries
<1>3. DOMAIN Observed(es, c) = 1 .. Len(es)
  BY DEF Observed
<1>4. Observed(es, c) \in Seq(Entries) /\ Len(Observed(es, c)) = Len(es)
  BY <1>2, <1>3, SMT DEF Observed
<1>5. QED
  BY <1>1, <1>3, <1>4, SMT DEF Observed, Entries

LEMMA VersionTyped ==
  ASSUME Typed, NEW es \in Seq(Entries), NEW c \in Contents
  PROVE  /\ NewVersion(es, c) \in Entries
         /\ Append(es, NewVersion(es, c)) \in Seq(Entries)
<1>1. Parent(es) \in Docs
  BY SMT DEF Typed, TypeOK, Parent, Docs
<1>2. NewVersion(es, c) \in Entries
  BY <1>1, SMT DEF NewVersion, Entries
<1>3. QED
  BY <1>2

\* What a file store holds after a write
LEMMA PutTyped ==
  ASSUME NEW store, NEW label \in Nat \ {0}, NEW content \in Contents \cup {"torn"},
         DOMAIN store \subseteq Nat \ {0},
         \A l \in DOMAIN store : store[l] \in Contents \cup {"torn"}
  PROVE  /\ DOMAIN Put(store, label, content) = DOMAIN store \cup {label}
         /\ DOMAIN Put(store, label, content) \subseteq Nat \ {0}
         /\ \A l \in DOMAIN Put(store, label, content) :
              Put(store, label, content)[l] \in Contents \cup {"torn"}
         /\ Put(store, label, content)[label] = content
         /\ \A l \in DOMAIN store : l # label => Put(store, label, content)[l] = store[l]
BY DEF Put

LEMMA TypedInit == Init => Typed
<1> SUFFICES ASSUME Init PROVE Typed
  OBVIOUS
<1>1. <<>> \in Seq(Entries)
  OBVIOUS
<1>2. TypeOK
  <2>1. overlapped \in BOOLEAN /\ loose \in BOOLEAN
    BY DEF Init
  <2>2. kept \in [Builders -> BOOLEAN] /\ manifest \in [readable : BOOLEAN, versions : Seq(Entries)]
    BY <1>1 DEF Init
  <2>3. DOMAIN snapshots = {}
    BY DEF Init
  <2>4. QED
    BY <1>1, <2>1, <2>2, <2>3, SMT DEF Init, TypeOK, Docs, Steps
<1>3. HasDoc
  BY DEF Init, HasDoc, Idle
<1>4. QED
  BY <1>2, <1>3 DEF Typed

LEMMA CommitTyped ==
  ASSUME Typed, NEW b \in Builders, NEW es \in Seq(Entries), ~Idle(b), Commit(b, es)
  PROVE  Typed'
<1>1. doc[b] \in Contents
  BY DEF Typed, HasDoc
<1>2. TypeOK'
  <2>1. manifest' \in [readable : BOOLEAN, versions : Seq(Entries)]
    BY DEF Commit
  <2>2. returned' \in [Contents -> Nat]
    BY <1>1, SMT DEF Typed, TypeOK, Commit
  <2>3. pc' \in [Builders -> Steps]
    BY SMT DEF Typed, TypeOK, Commit, Goto, Steps
  <2>4. loose' \in BOOLEAN
    BY DEF Commit
  <2>5. QED
    BY <2>1, <2>2, <2>3, <2>4 DEF Typed, TypeOK, Commit, started
<1>3. HasDoc'
  BY SMT DEF Typed, TypeOK, HasDoc, Idle, Commit, Goto
<1>4. QED
  BY <1>2, <1>3 DEF Typed

LEMMA TypedStep ==
  ASSUME Typed, NEW b \in Builders, Step(b) \/ Fault(b)
  PROVE  Typed'
<1> USE DEF Typed
<1>0. versions[b] \in Seq(Entries) /\ Len(versions[b]) \in Nat
  BY SMT DEF TypeOK
<1>1. CASE Collect(b)
  <2>1. PICK c \in Contents, k \in BOOLEAN :
          /\ doc' = [doc EXCEPT ![b] = c]
          /\ kept' = [kept EXCEPT ![b] = k]
          /\ Goto(b, IF k THEN "reading" ELSE "pointer")
    BY <1>1 DEF Collect
  <2>2. pc' \in [Builders -> Steps]
    BY <2>1, SMT DEF TypeOK, Goto, Steps
  <2>3. versions' \in [Builders -> Seq(Entries)]
    <3>1. <<>> \in Seq(Entries)
      OBVIOUS
    <3>2. QED
      BY <1>1, <3>1 DEF Collect, TypeOK
  <2>4. TypeOK'
    BY <1>1, <2>1, <2>2, <2>3, SMT DEF Collect, TypeOK, files, history, started
  <2>5. HasDoc'
    BY <2>1, SMT DEF TypeOK, HasDoc, Idle, Goto
  <2>6. QED
    BY <2>4, <2>5
<1>2. CASE ReadManifest(b)
  <2>1. versions' \in [Builders -> Seq(Entries)]
    <3>1. manifest.versions \in Seq(Entries)
      BY DEF TypeOK
    <3>2. QED
      BY <1>2, <3>1 DEF ReadManifest, TypeOK
  <2>2. pc' \in [Builders -> Steps]
    BY <1>2, SMT DEF ReadManifest, TypeOK, Goto, Steps
  <2>3. TypeOK'
    BY <1>2, <2>1, <2>2 DEF ReadManifest, TypeOK, files, history, started
  <2>4. HasDoc'
    BY <1>2, SMT DEF ReadManifest, TypeOK, HasDoc, Idle, Goto
  <2>5. QED
    BY <2>3, <2>4
<1>3. CASE ReadManifestRaises(b) \/ Crash(b) \/ CompareParentRaises(b)
  <2>1. Goto(b, "idle") /\ UNCHANGED <<files, doc, kept, versions, started, history>>
    BY <1>3 DEF ReadManifestRaises, Crash, CompareParentRaises
  <2>2. pc' \in [Builders -> Steps]
    BY <2>1, SMT DEF TypeOK, Goto, Steps
  <2>3. TypeOK'
    BY <2>1, <2>2 DEF TypeOK, files, history, started
  <2>4. HasDoc'
    BY <2>1, SMT DEF TypeOK, HasDoc, Idle, Goto
  <2>5. QED
    BY <2>3, <2>4
<1>4. CASE WritePointer(b)
  <2>1. pc' \in [Builders -> Steps]
    <3>1. PICK s \in {"idle", "observing", "snapshot"} : Goto(b, s)
      BY <1>4 DEF WritePointer
    <3>2. QED
      BY <3>1, SMT DEF TypeOK, Goto, Steps
  <2>2. pointer' \in Docs /\ loose' \in BOOLEAN
    BY <1>4 DEF WritePointer, TypeOK, Docs
  <2>3. TypeOK'
    BY <1>4, <2>1, <2>2 DEF WritePointer, TypeOK, started
  <2>4. HasDoc'
    BY <1>4, SMT DEF WritePointer, TypeOK, HasDoc, Idle, Goto
  <2>5. QED
    BY <2>3, <2>4
<1>5. CASE CommitObserved(b)
  <2>1. doc[b] \in Contents /\ ~Idle(b)
    BY <1>5, SMT DEF CommitObserved, HasDoc, Idle
  <2>2. Observed(versions[b], doc[b]) \in Seq(Entries)
    BY <1>0, <2>1, ObservedTyped
  <2>3. QED
    BY <1>5, <2>1, <2>2, CommitTyped DEF CommitObserved
<1>6. CASE WriteSnapshot(b)
  <2>1. doc[b] \in Contents /\ Label(versions[b]) \in Nat \ {0}
    BY <1>0, <1>6, SMT DEF WriteSnapshot, HasDoc, Idle, Label
  <2>2. /\ DOMAIN snapshots' \subseteq Nat \ {0}
        /\ \A l \in DOMAIN snapshots' : snapshots'[l] \in Contents \cup {"torn"}
    BY <1>6, <2>1, PutTyped DEF WriteSnapshot, TypeOK
  <2>3. QED
    BY <1>6, <2>2, SMT DEF WriteSnapshot, TypeOK, HasDoc, Idle, Goto, Steps, history, started
<1>7. CASE CompareParent(b)
  <2>1. doc[b] \in Contents
    BY <1>7, SMT DEF CompareParent, HasDoc, Idle
  <2>2. Append(versions[b], NewVersion(versions[b], doc[b])) \in Seq(Entries)
    BY <1>0, <2>1, VersionTyped
  <2>3. QED
    BY <1>7, <2>2, SMT DEF CompareParent, TypeOK, HasDoc, Idle, Goto, Steps, files, history, started
<1>8. CASE CommitNew(b)
  <2>1. ~Idle(b)
    BY <1>8, SMT DEF CommitNew, Idle
  <2>2. QED
    BY <1>0, <1>8, <2>1, CommitTyped DEF CommitNew
<1>9. CASE TearPointer(b)
  BY <1>9, SMT DEF TearPointer, TypeOK, HasDoc, Idle, Goto, Steps, Docs, started
<1>10. CASE TearSnapshot(b)
  <2>1. Label(versions[b]) \in Nat \ {0}
    BY <1>0, SMT DEF Label
  <2>2. /\ DOMAIN snapshots' \subseteq Nat \ {0}
        /\ \A l \in DOMAIN snapshots' : snapshots'[l] \in Contents \cup {"torn"}
    BY <1>10, <2>1, PutTyped DEF TearSnapshot, TypeOK
  <2>3. QED
    BY <1>10, <2>2, SMT DEF TearSnapshot, TypeOK, HasDoc, Idle, Goto, Steps, history, started
<1>11. CASE TearManifest(b)
  <2>1. <<>> \in Seq(Entries)
    OBVIOUS
  <2>2. QED
    BY <1>11, <2>1, SMT DEF TearManifest, TypeOK, HasDoc, Idle, Goto, Steps, history, started
<1>12. QED
  BY <1>1, <1>2, <1>3, <1>4, <1>5, <1>6, <1>7, <1>8, <1>9, <1>10, <1>11 DEF Step, Fault

LEMMA TypedNext == Typed /\ [Next]_vars => Typed'
<1> SUFFICES ASSUME Typed, [Next]_vars PROVE Typed'
  OBVIOUS
<1>1. CASE Next
  BY <1>1, TypedStep DEF Next
<1>2. CASE UNCHANGED vars
  BY <1>2, SMT DEF vars, files, build, history, started, Typed, TypeOK, HasDoc, Idle
<1>3. QED
  BY <1>1, <1>2

\* Type correctness: documents, lists and files stay in the sets declared for them.
THEOREM LineageTypeCorrect == Spec => []TypeOK
<1>1. Typed => TypeOK
  BY DEF Typed
<1>2. QED
  BY <1>1, TypedInit, TypedNext, PTL DEF Spec

-----------------------------------------------------------------------------
(* No fingerprint is listed twice.                                         *)

Distinct(es) == \A i, j \in DOMAIN es : es[i].content = es[j].content => i = j

NoTwice ==
  /\ Distinct(manifest.versions)
  /\ \A b \in Builders : Distinct(versions[b])
  /\ \A b \in Builders : pc[b] \in {"snapshot", "parent"} => ~Known(versions[b], doc[b])

LEMMA ObservedDistinct ==
  ASSUME NEW es \in Seq(Entries), NEW c \in Contents, Distinct(es)
  PROVE  Distinct(Observed(es, c))
BY ObservedTyped DEF Distinct

LEMMA AppendDistinct ==
  ASSUME NEW es \in Seq(Entries), NEW e \in Entries, Distinct(es), ~Known(es, e.content)
  PROVE  Distinct(Append(es, e))
<1>1. DOMAIN es = 1 .. Len(es) /\ Len(es) \in Nat
  OBVIOUS
<1>2. /\ DOMAIN Append(es, e) = 1 .. Len(es) + 1
      /\ Append(es, e)[Len(es) + 1] = e
      /\ \A i \in 1 .. Len(es) : Append(es, e)[i] = es[i]
  OBVIOUS
<1>3. QED
  BY <1>1, <1>2, SMT DEF Distinct, Known

LEMMA NoTwiceStep ==
  ASSUME Typed, NoTwice, NEW b \in Builders, Step(b) \/ Fault(b)
  PROVE  NoTwice'
<1>0. versions[b] \in Seq(Entries) /\ manifest.versions \in Seq(Entries)
  BY DEF Typed, TypeOK
<1>1. CASE Collect(b)
  <2>1. PICK k \in BOOLEAN : Goto(b, IF k THEN "reading" ELSE "pointer")
    BY <1>1 DEF Collect
  <2>2. Distinct(<<>>)
    BY DEF Distinct
  <2>3. \A d \in Builders : Distinct(versions'[d])
    BY <1>1, <2>2 DEF Collect, NoTwice, Typed, TypeOK
  <2>4. \A d \in Builders : pc'[d] \in {"snapshot", "parent"} =>
          d # b /\ pc[d] = pc'[d] /\ doc'[d] = doc[d] /\ versions'[d] = versions[d]
    BY <1>1, <2>1, SMT DEF Collect, Typed, TypeOK, Goto
  <2>5. QED
    BY <1>1, <2>3, <2>4 DEF Collect, NoTwice, files, Known
<1>2. CASE ReadManifest(b)
  <2>1. \A d \in Builders : Distinct(versions'[d])
    BY <1>2 DEF ReadManifest, NoTwice, Typed, TypeOK
  <2>2. \A d \in Builders : pc'[d] \in {"snapshot", "parent"} =>
          d # b /\ pc[d] = pc'[d] /\ versions'[d] = versions[d]
    BY <1>2, SMT DEF ReadManifest, Typed, TypeOK, Goto
  <2>3. QED
    BY <1>2, <2>1, <2>2 DEF ReadManifest, NoTwice, files, Known
<1>3. CASE \/ ReadManifestRaises(b) \/ Crash(b) \/ CompareParentRaises(b) \/ TearPointer(b)
           \/ TearSnapshot(b)
  <2>1. Goto(b, "idle") /\ UNCHANGED <<manifest, doc, versions>>
    BY <1>3 DEF ReadManifestRaises, Crash, CompareParentRaises, TearPointer, TearSnapshot, files
  <2>2. \A d \in Builders : pc'[d] \in {"snapshot", "parent"} => pc[d] = pc'[d]
    BY <2>1, SMT DEF Typed, TypeOK, Goto
  <2>3. QED
    BY <2>1, <2>2 DEF NoTwice, Known
<1>4. CASE WritePointer(b)
  <2>1. PICK s \in {"idle", "observing", "snapshot"} :
          Goto(b, s) /\ (s = "snapshot" => ~Known(versions[b], doc[b]))
    BY <1>4 DEF WritePointer
  <2>2. \A d \in Builders : pc'[d] \in {"snapshot", "parent"} =>
          pc[d] = pc'[d] \/ ~Known(versions[d], doc[d])
    BY <2>1, SMT DEF Typed, TypeOK, Goto
  <2>3. QED
    BY <1>4, <2>2 DEF WritePointer, NoTwice, Known
<1>5. CASE WriteSnapshot(b)
  <2>1. pc[b] = "snapshot" /\ Goto(b, "parent") /\ UNCHANGED <<manifest, doc, versions>>
    BY <1>5 DEF WriteSnapshot
  <2>2. \A d \in Builders : pc'[d] \in {"snapshot", "parent"} => pc[d] \in {"snapshot", "parent"}
    BY <2>1, SMT DEF Typed, TypeOK, Goto
  <2>3. QED
    BY <2>1, <2>2 DEF NoTwice, Known
<1>6. CASE CompareParent(b)
  <2>1. doc[b] \in Contents /\ ~Known(versions[b], doc[b]) /\ Distinct(versions[b])
    BY <1>6, SMT DEF CompareParent, Typed, HasDoc, Idle, NoTwice
  <2>2. NewVersion(versions[b], doc[b]) \in Entries
    BY <1>0, <2>1, VersionTyped
  <2>3. NewVersion(versions[b], doc[b]).content = doc[b]
    BY DEF NewVersion
  <2>4. Distinct(Append(versions[b], NewVersion(versions[b], doc[b])))
    BY <1>0, <2>1, <2>2, <2>3, AppendDistinct
  <2>5. \A d \in Builders : Distinct(versions'[d])
    BY <1>6, <2>4 DEF CompareParent, NoTwice, Typed, TypeOK
  <2>6. \A d \in Builders : pc'[d] \in {"snapshot", "parent"} =>
          d # b /\ pc[d] = pc'[d] /\ versions'[d] = versions[d]
    BY <1>6, SMT DEF CompareParent, Typed, TypeOK, Goto
  <2>7. QED
    BY <1>6, <2>5, <2>6 DEF CompareParent, NoTwice, files, Known
<1>7. CASE CommitObserved(b) \/ CommitNew(b) \/ TearManifest(b)
  <2>1. Goto(b, "idle") /\ UNCHANGED <<doc, versions>>
    BY <1>7 DEF CommitObserved, CommitNew, Commit, TearManifest
  <2>2. Distinct(manifest'.versions)
    <3>1. CASE CommitObserved(b)
      <4>1. doc[b] \in Contents
        BY <3>1, SMT DEF CommitObserved, Typed, HasDoc, Idle
      <4>2. QED
        BY <1>0, <3>1, <4>1, ObservedDistinct DEF CommitObserved, Commit, NoTwice
    <3>2. CASE CommitNew(b)
      BY <3>2 DEF CommitNew, Commit, NoTwice
    <3>3. CASE TearManifest(b)
      BY <3>3 DEF TearManifest, Distinct
    <3>4. QED
      BY <1>7, <3>1, <3>2, <3>3
  <2>3. \A d \in Builders : pc'[d] \in {"snapshot", "parent"} => pc[d] = pc'[d]
    BY <2>1, SMT DEF Typed, TypeOK, Goto
  <2>4. QED
    BY <2>1, <2>2, <2>3 DEF NoTwice, Known
<1>8. QED
  BY <1>1, <1>2, <1>3, <1>4, <1>5, <1>6, <1>7 DEF Step, Fault

-----------------------------------------------------------------------------
(* One build at a time: what each file says is known to the next build.    *)

OneAtATime == \A b, d \in Builders : ~Idle(b) /\ ~Idle(d) => b = d

\* A build that read the list still holds it when it writes.
Holding(b) == pc[b] \in {"observing", "snapshot", "parent"} \/ (pc[b] = "pointer" /\ kept[b])

HeldShape(b) ==
  /\ Holding(b) => manifest.readable /\ versions[b] = manifest.versions
  /\ pc[b] = "reading" => kept[b]
  /\ pc[b] = "observing" => Known(versions[b], doc[b])
  /\ pc[b] \in {"observing", "snapshot", "parent", "committing"} => pointer = doc[b]
  /\ pc[b] = "parent" =>
       /\ Label(versions[b]) \in DOMAIN snapshots
       /\ snapshots[Label(versions[b])] = doc[b]

\* The list with the new version: the list on disk, and one sound entry.
NewShape(b) ==
  pc[b] = "committing" =>
    /\ manifest.readable
    /\ Len(versions[b]) = Len(manifest.versions) + 1
    /\ \A i \in DOMAIN manifest.versions : versions[b][i] = manifest.versions[i]
    /\ versions[b][Len(versions[b])].content = doc[b]
    /\ versions[b][Len(versions[b])].observed = 1
    /\ ~Known(manifest.versions, doc[b])
    /\ \A i \in DOMAIN versions[b] : VersionSound(snapshots, versions[b], i)

Serial ==
  /\ OneAtATime
  /\ \A b \in Builders : HeldShape(b) /\ NewShape(b)
  /\ ListSound
  /\ CountSound

\* A step of one build leaves the others idle.
LEMMA Alone ==
  ASSUME Typed, OneAtATime, NEW b \in Builders, ~Idle(b) \/ (\A d \in Builders : Idle(d)),
         NEW s, Goto(b, s)
  PROVE  /\ pc'[b] = s
         /\ \A d \in Builders : d # b => pc'[d] = "idle"
         /\ OneAtATime'
<1>1. pc'[b] = s /\ \A d \in Builders : d # b => pc'[d] = pc[d]
  BY DEF Goto, Typed, TypeOK
<1>2. \A d \in Builders : d # b => pc[d] = "idle"
  BY DEF OneAtATime, Idle
<1>3. QED
  BY <1>1, <1>2 DEF OneAtATime, Idle

\* So only the shape of that build has to be shown, and none if it ended.
LEMMA ShapesAlone ==
  ASSUME NEW b \in Builders, \A d \in Builders : d # b => pc'[d] = "idle",
         HeldShape(b)' /\ NewShape(b)'
  PROVE  \A d \in Builders : (HeldShape(d) /\ NewShape(d))'
<1>1. \A d \in Builders : pc'[d] = "idle" => (HeldShape(d) /\ NewShape(d))'
  BY DEF HeldShape, NewShape, Holding
<1>2. QED
  BY <1>1

LEMMA ShapesIdle ==
  ASSUME NEW b \in Builders, \A d \in Builders : d # b => pc'[d] = "idle", pc'[b] = "idle"
  PROVE  \A d \in Builders : (HeldShape(d) /\ NewShape(d))'
<1>1. \A d \in Builders : pc'[d] = "idle" => (HeldShape(d) /\ NewShape(d))'
  BY DEF HeldShape, NewShape, Holding
<1>2. QED
  BY <1>1

\* The files a listed version rests on are kept: the list stays sound.
LEMMA SoundKept ==
  ASSUME NEW store, NEW later, NEW es \in Seq(Entries),
         \A i \in DOMAIN es : VersionSound(store, es, i),
         \A l \in DOMAIN es : l \in DOMAIN store => l \in DOMAIN later /\ later[l] = store[l]
  PROVE  \A i \in DOMAIN es : VersionSound(later, es, i)
BY DEF VersionSound

\* A snapshot is written past the versions listed.
LEMMA SnapshotPast ==
  ASSUME Typed, Serial, NEW b \in Builders, pc[b] = "snapshot",
         NEW content \in Contents \cup {"torn"}, snapshots' = Put(snapshots, Label(versions[b]), content)
  PROVE  /\ \A l \in DOMAIN manifest.versions :
              l \in DOMAIN snapshots => l \in DOMAIN snapshots' /\ snapshots'[l] = snapshots[l]
         /\ Label(versions[b]) \in DOMAIN snapshots'
         /\ snapshots'[Label(versions[b])] = content
<1>1. versions[b] = manifest.versions
  BY SMT DEF Serial, HeldShape, Holding
<1>2. manifest.versions \in Seq(Entries)
  BY DEF Typed, TypeOK
<1>3. Label(versions[b]) \in Nat \ {0} /\ Label(versions[b]) \notin DOMAIN manifest.versions
  BY <1>1, <1>2, SMT DEF Label
<1>4. DOMAIN snapshots \subseteq Nat \ {0} /\ \A l \in DOMAIN snapshots : snapshots[l] \in Contents \cup {"torn"}
  BY DEF Typed, TypeOK
<1> DEFINE label == Label(versions[b])
<1>5. /\ DOMAIN Put(snapshots, label, content) = DOMAIN snapshots \cup {label}
      /\ Put(snapshots, label, content)[label] = content
      /\ \A l \in DOMAIN snapshots : l # label => Put(snapshots, label, content)[l] = snapshots[l]
  BY <1>3, <1>4 DEF Put
<1>6. QED
  BY <1>3, <1>5
LEMMA SerialInit == Init => Serial
<1> SUFFICES ASSUME Init PROVE Serial
  OBVIOUS
<1>1. OneAtATime
  BY DEF Init, OneAtATime, Idle
<1>2. \A b \in Builders : HeldShape(b) /\ NewShape(b)
  BY DEF Init, HeldShape, NewShape, Holding
<1>3. ListSound
  BY DEF Init, ListSound
<1>4. CountSound
  BY SMT DEF Init, CountSound
<1>5. QED
  BY <1>1, <1>2, <1>3, <1>4 DEF Serial

\* Nothing that is counted changes, or baseline.json does and is marked as loose.
LEMMA CountedKept ==
  ASSUME Typed, CountSound, UNCHANGED <<manifest, returned>>,
         loose' = TRUE \/ UNCHANGED <<loose, pointer>>
  PROVE  CountSound'
BY DEF CountSound, Known

LEMMA SerialQuietStep ==
  ASSUME Typed, Serial, NEW b \in Builders,
         \/ ReadManifestRaises(b) \/ CompareParentRaises(b) \/ Crash(b)
         \/ TearPointer(b) \/ TearManifest(b) \/ TearSnapshot(b)
  PROVE  Serial'
<1>1. ~Idle(b) /\ Goto(b, "idle")
  BY SMT DEF ReadManifestRaises, CompareParentRaises, Crash, TearPointer, TearManifest,
             TearSnapshot, Idle
<1>2. OneAtATime' /\ \A d \in Builders : (HeldShape(d) /\ NewShape(d))'
  BY <1>1, Alone, ShapesIdle DEF Serial
<1>3. ListSound' /\ CountSound'
  <2>1. CASE ReadManifestRaises(b) \/ CompareParentRaises(b) \/ Crash(b) \/ TearPointer(b)
    <3>1. UNCHANGED <<manifest, snapshots, returned>> /\ (loose' = TRUE \/ UNCHANGED <<loose, pointer>>)
      BY <2>1 DEF ReadManifestRaises, CompareParentRaises, Crash, TearPointer, files, history
    <3>2. QED
      BY <3>1, CountedKept DEF Serial, ListSound, VersionSound
  <2>2. CASE TearManifest(b)
    BY <2>2 DEF TearManifest, ListSound, CountSound
  <2>3. CASE TearSnapshot(b)
    <3>1. \A l \in DOMAIN manifest.versions :
            l \in DOMAIN snapshots => l \in DOMAIN snapshots' /\ snapshots'[l] = snapshots[l]
      BY <2>3, SnapshotPast DEF TearSnapshot
    <3>2. manifest.versions \in Seq(Entries)
      BY DEF Typed, TypeOK
    <3>3. \A i \in DOMAIN manifest.versions : VersionSound(snapshots', manifest.versions, i)
      BY <3>1, <3>2, SoundKept DEF Serial, ListSound
    <3>4. ListSound'
      BY <2>3, <3>3 DEF TearSnapshot, ListSound, VersionSound
    <3>5. UNCHANGED <<manifest, returned, loose, pointer>>
      BY <2>3 DEF TearSnapshot, history
    <3>6. QED
      BY <3>4, <3>5, CountedKept DEF Serial
  <2>4. QED
    BY <2>1, <2>2, <2>3
<1>4. QED
  BY <1>2, <1>3 DEF Serial

LEMMA SerialBuildStep ==
  ASSUME Typed, Serial, NEW b \in Builders, ~overlapped',
         \/ Collect(b) \/ ReadManifest(b) \/ WritePointer(b) \/ WriteSnapshot(b)
  PROVE  Serial'
<1>0. manifest.versions \in Seq(Entries) /\ versions[b] \in Seq(Entries)
  BY DEF Typed, TypeOK
<1>1. CASE Collect(b)
  <2>1. PICK k \in BOOLEAN : kept' = [kept EXCEPT ![b] = k] /\ Goto(b, IF k THEN "reading" ELSE "pointer")
    BY <1>1 DEF Collect
  <2>2. \A d \in Builders : Idle(d)
    BY <1>1 DEF Collect
  <2>3. /\ pc'[b] = (IF k THEN "reading" ELSE "pointer")
        /\ \A d \in Builders : d # b => pc'[d] = "idle"
        /\ OneAtATime'
    BY <2>1, <2>2, Alone DEF Serial
  <2>4. kept'[b] = k
    BY <2>1 DEF Typed, TypeOK
  <2>5. HeldShape(b)' /\ NewShape(b)'
    BY <2>3, <2>4, SMT DEF HeldShape, NewShape, Holding
  <2>6. UNCHANGED <<pointer, snapshots, manifest, returned, loose>>
    BY <1>1 DEF Collect, files, history
  <2>7. ListSound' /\ CountSound'
    BY <2>6, CountedKept DEF Serial, ListSound, VersionSound
  <2>8. QED
    BY <2>3, <2>5, <2>7, ShapesAlone DEF Serial
<1>2. CASE ReadManifest(b)
  <2>1. pc[b] = "reading" /\ ~Idle(b) /\ Goto(b, "pointer")
    BY <1>2 DEF ReadManifest, Idle
  <2>2. pc'[b] = "pointer" /\ (\A d \in Builders : d # b => pc'[d] = "idle") /\ OneAtATime'
    BY <2>1, Alone DEF Serial
  <2>3. manifest'.readable /\ versions'[b] = manifest'.versions
    BY <1>2 DEF ReadManifest, files, Typed, TypeOK
  <2>4. HeldShape(b)' /\ NewShape(b)'
    BY <2>2, <2>3, SMT DEF HeldShape, NewShape, Holding
  <2>5. UNCHANGED <<pointer, snapshots, manifest, returned, loose>>
    BY <1>2 DEF ReadManifest, files, history
  <2>6. ListSound' /\ CountSound'
    BY <2>5, CountedKept DEF Serial, ListSound, VersionSound
  <2>7. QED
    BY <2>2, <2>4, <2>6, ShapesAlone DEF Serial
<1>3. CASE WritePointer(b)
  <2>1. PICK s \in {"idle", "observing", "snapshot"} :
          /\ Goto(b, s)
          /\ s # "idle" => kept[b]
          /\ s = "observing" => Known(versions[b], doc[b])
    BY <1>3 DEF WritePointer
  <2>2. pc[b] = "pointer" /\ ~Idle(b)
    BY <1>3 DEF WritePointer, Idle
  <2>3. pc'[b] = s /\ (\A d \in Builders : d # b => pc'[d] = "idle") /\ OneAtATime'
    BY <2>1, <2>2, Alone DEF Serial
  <2>4. UNCHANGED <<snapshots, manifest, returned, doc, versions>> /\ pointer' = doc[b] /\ loose' = TRUE
    BY <1>3 DEF WritePointer
  <2>5. kept[b] => manifest.readable /\ versions[b] = manifest.versions
    BY <2>2 DEF Serial, HeldShape, Holding
  <2>6. HeldShape(b)' /\ NewShape(b)'
    BY <2>1, <2>3, <2>4, <2>5 DEF HeldShape, NewShape, Holding, Known
  <2>7. ListSound' /\ CountSound'
    BY <2>4, CountedKept DEF Serial, ListSound, VersionSound
  <2>8. QED
    BY <2>3, <2>6, <2>7, ShapesAlone DEF Serial
<1>4. CASE WriteSnapshot(b)
  <2>1. pc[b] = "snapshot" /\ ~Idle(b) /\ Goto(b, "parent") /\ doc[b] \in Contents
    BY <1>4, SMT DEF WriteSnapshot, Idle, Typed, HasDoc
  <2>2. pc'[b] = "parent" /\ (\A d \in Builders : d # b => pc'[d] = "idle") /\ OneAtATime'
    BY <2>1, Alone DEF Serial
  <2>3. /\ \A l \in DOMAIN manifest.versions :
             l \in DOMAIN snapshots => l \in DOMAIN snapshots' /\ snapshots'[l] = snapshots[l]
        /\ Label(versions[b]) \in DOMAIN snapshots'
        /\ snapshots'[Label(versions[b])] = doc[b]
    BY <1>4, <2>1, SnapshotPast DEF WriteSnapshot
  <2>4. UNCHANGED <<pointer, manifest, returned, loose, doc, versions, kept>>
    BY <1>4 DEF WriteSnapshot, history
  <2>5. manifest.readable /\ versions[b] = manifest.versions /\ pointer = doc[b]
    BY <2>1, SMT DEF Serial, HeldShape, Holding
  <2>6. HeldShape(b)' /\ NewShape(b)'
    BY <2>2, <2>3, <2>4, <2>5, SMT DEF HeldShape, NewShape, Holding, Label
  <2>7. \A i \in DOMAIN manifest.versions : VersionSound(snapshots', manifest.versions, i)
    BY <1>0, <2>3, SoundKept DEF Serial, ListSound
  <2>8. ListSound'
    BY <2>4, <2>7 DEF ListSound, VersionSound
  <2>9. QED
    BY <2>2, <2>4, <2>6, <2>8, ShapesAlone, CountedKept DEF Serial
<1>5. QED
  BY <1>1, <1>2, <1>3, <1>4
\* The entry of a new version says of itself what is so.
LEMMA NewVersionSound ==
  ASSUME Typed, ListSound, NEW c \in Contents, manifest.versions \in Seq(Entries),
         Label(manifest.versions) \in DOMAIN snapshots,
         snapshots[Label(manifest.versions)] = c
  PROVE  LET es == manifest.versions
             new == Append(es, NewVersion(es, c))
         IN  /\ Len(new) = Len(es) + 1
             /\ new[Len(new)].content = c
             /\ new[Len(new)].observed = 1
             /\ \A i \in DOMAIN es : new[i] = es[i]
             /\ \A i \in DOMAIN new : VersionSound(snapshots, new, i)
<1> DEFINE es == manifest.versions
           e == NewVersion(es, c)
           new == Append(es, e)
<1>1. e \in Entries
  BY VersionTyped
<1>2. /\ Len(es) \in Nat /\ DOMAIN es = 1 .. Len(es)
      /\ Len(new) = Len(es) + 1 /\ DOMAIN new = 1 .. Len(es) + 1
      /\ new[Len(es) + 1] = e
      /\ \A i \in 1 .. Len(es) : new[i] = es[i]
  BY <1>1
<1>3. e.content = c /\ e.parent = Len(es) /\ e.compared = Parent(es) /\ e.observed = 1
  BY DEF NewVersion
<1>4. Parent(es) = IF Len(es) = 0 THEN "none" ELSE es[Len(es)].content
  <2>1. CASE Len(es) = 0
    BY <2>1, SMT DEF Parent, Typed, TypeOK
  <2>2. CASE Len(es) # 0
    BY <1>2, <2>2, SMT DEF Parent, ListSound, VersionSound
  <2>3. QED
    BY <2>1, <2>2
<1>5. \A i \in 1 .. Len(es) : VersionSound(snapshots, new, i)
  <2> SUFFICES ASSUME NEW i \in 1 .. Len(es) PROVE VersionSound(snapshots, new, i)
    OBVIOUS
  <2>1. VersionSound(snapshots, es, i)
    BY <1>2 DEF ListSound
  <2>2. new[i] = es[i] /\ (i # 1 => new[i - 1] = es[i - 1])
    BY <1>2
  <2>3. QED
    BY <2>1, <2>2 DEF VersionSound
<1>6. VersionSound(snapshots, new, Len(es) + 1)
  <2>1. Label(es) = Len(es) + 1
    BY DEF Label
  <2>2. Len(es) # 0 => new[Len(es)] = es[Len(es)]
    BY <1>2
  <2> HIDE DEF es, e, new
  <2>3. /\ new[Len(es) + 1].parent = (Len(es) + 1) - 1
        /\ new[Len(es) + 1].compared =
             IF Len(es) + 1 = 1 THEN "none" ELSE new[(Len(es) + 1) - 1].content
    BY <1>2, <1>3, <1>4, <2>2, SMT
  <2>4. snapshots[Len(es) + 1] = c /\ Len(es) + 1 \in DOMAIN snapshots
    BY <2>1 DEF es
  <2>5. QED
    BY <1>2, <1>3, <2>3, <2>4 DEF VersionSound
<1> HIDE DEF es, e, new
<1>7. /\ Len(new) = Len(es) + 1
      /\ new[Len(new)].content = c
      /\ new[Len(new)].observed = 1
      /\ \A i \in DOMAIN es : new[i] = es[i]
      /\ \A i \in DOMAIN new : VersionSound(snapshots, new, i)
  BY <1>2, <1>3, <1>5, <1>6
<1>8. QED
  BY <1>7 DEF new, e, es

LEMMA SerialCompareStep ==
  ASSUME Typed, NoTwice, Serial, NEW b \in Builders, CompareParent(b)
  PROVE  Serial'
<1>0. manifest.versions \in Seq(Entries)
  BY DEF Typed, TypeOK
<1>1. pc[b] = "parent" /\ ~Idle(b) /\ Goto(b, "committing") /\ doc[b] \in Contents
  BY SMT DEF CompareParent, Idle, Typed, HasDoc
<1>2. pc'[b] = "committing" /\ (\A d \in Builders : d # b => pc'[d] = "idle") /\ OneAtATime'
  BY <1>1, Alone DEF Serial
<1>3. UNCHANGED <<pointer, snapshots, manifest, returned, loose, doc, kept>>
  BY DEF CompareParent, files, history
<1>4. /\ manifest.readable /\ versions[b] = manifest.versions /\ pointer = doc[b]
      /\ Label(versions[b]) \in DOMAIN snapshots
      /\ snapshots[Label(versions[b])] = doc[b]
  BY <1>1, SMT DEF Serial, HeldShape, Holding
<1>5. versions'[b] = Append(manifest.versions, NewVersion(manifest.versions, doc[b]))
  BY <1>4 DEF CompareParent, Typed, TypeOK
<1>6. ~Known(manifest.versions, doc[b])
  BY <1>1, <1>4 DEF NoTwice
<1>7. HeldShape(b)' /\ NewShape(b)'
  <2>1. HeldShape(b)'
    BY <1>2, <1>3, <1>4, SMT DEF HeldShape, Holding
  <2>2. /\ Len(versions'[b]) = Len(manifest.versions) + 1
        /\ versions'[b][Len(versions'[b])].content = doc[b]
        /\ versions'[b][Len(versions'[b])].observed = 1
        /\ \A i \in DOMAIN manifest.versions : versions'[b][i] = manifest.versions[i]
        /\ \A i \in DOMAIN versions'[b] : VersionSound(snapshots, versions'[b], i)
    BY <1>0, <1>1, <1>4, <1>5, NewVersionSound DEF Serial
  <2>3. NewShape(b)'
    BY <1>3, <1>4, <1>6, <2>2 DEF NewShape, Known, VersionSound
  <2>4. QED
    BY <2>1, <2>3
<1>8. ListSound' /\ CountSound'
  BY <1>3, CountedKept DEF Serial, ListSound, VersionSound
<1>9. QED
  BY <1>2, <1>7, <1>8, ShapesAlone DEF Serial
LEMMA SerialCommitNew ==
  ASSUME Typed, Serial, NEW b \in Builders, CommitNew(b)
  PROVE  Serial'
<1> DEFINE es == manifest.versions
           new == versions[b]
<1>0. /\ es \in Seq(Entries) /\ new \in Seq(Entries) /\ returned \in [Contents -> Nat]
      /\ \A i \in DOMAIN new : new[i].content \in Contents
  <2>1. es \in Seq(Entries) /\ new \in Seq(Entries) /\ returned \in [Contents -> Nat]
    BY DEF Typed, TypeOK
  <2>2. \A i \in DOMAIN new : new[i] \in Entries
    BY <2>1
  <2>3. QED
    BY <2>1, <2>2 DEF Entries
<1>1. pc[b] = "committing" /\ ~Idle(b) /\ Goto(b, "idle") /\ doc[b] \in Contents
  BY SMT DEF CommitNew, Commit, Idle, Typed, HasDoc
<1>2. OneAtATime' /\ \A d \in Builders : (HeldShape(d) /\ NewShape(d))'
  BY <1>1, Alone, ShapesIdle DEF Serial
<1>3. /\ manifest' = [readable |-> TRUE, versions |-> new]
      /\ returned' = [returned EXCEPT ![doc[b]] = @ + 1]
      /\ UNCHANGED <<pointer, snapshots>>
  BY DEF CommitNew, Commit
<1>4. /\ manifest.readable /\ pointer = doc[b]
      /\ Len(new) = Len(es) + 1
      /\ \A i \in DOMAIN es : new[i] = es[i]
      /\ new[Len(new)].content = doc[b] /\ new[Len(new)].observed = 1
      /\ ~Known(es, doc[b])
      /\ \A i \in DOMAIN new : VersionSound(snapshots, new, i)
  BY <1>1, SMT DEF Serial, HeldShape, NewShape
<1>5. ListSound'
  BY <1>3, <1>4 DEF ListSound, VersionSound
<1>6. /\ \A i \in DOMAIN es : es[i].observed = returned[es[i].content]
      /\ \A c \in Contents : returned[c] > 0 => Known(es, c)
  BY <1>4 DEF Serial, CountSound
<1>7. DOMAIN es = 1 .. Len(es) /\ DOMAIN new = 1 .. Len(es) + 1 /\ Len(es) \in Nat
  BY <1>0, <1>4
<1> HIDE DEF es, new
<1>8. returned[doc[b]] = 0
  BY <1>0, <1>1, <1>4, <1>6, SMT
<1>9. \A c \in Contents : returned'[c] = IF c = doc[b] THEN 1 ELSE returned[c]
  BY <1>0, <1>1, <1>3, <1>8, SMT
<1>10. \A i \in DOMAIN new : new[i].observed = returned'[new[i].content]
  <2> SUFFICES ASSUME NEW i \in DOMAIN new PROVE new[i].observed = returned'[new[i].content]
    OBVIOUS
  <2>1. CASE i = Len(es) + 1
    BY <1>1, <1>4, <1>9, <2>1
  <2>2. CASE i # Len(es) + 1
    <3>1. i \in DOMAIN es
      BY <1>7, <2>2, SMT
    <3>2. new[i] = es[i] /\ es[i].content # doc[b]
      BY <1>4, <3>1 DEF Known
    <3>3. QED
      BY <1>0, <1>6, <1>9, <3>1, <3>2
  <2>3. QED
    BY <2>1, <2>2
<1>11. Known(new, doc[b])
  BY <1>4, <1>7, SMT DEF Known
<1>12. \A c \in Contents : returned'[c] > 0 => Known(new, c)
  <2> SUFFICES ASSUME NEW c \in Contents, returned'[c] > 0 PROVE Known(new, c)
    OBVIOUS
  <2>1. CASE c = doc[b]
    BY <1>11, <2>1
  <2>2. CASE c # doc[b]
    <3>1. PICK i \in DOMAIN es : es[i].content = c
      BY <1>6, <1>9, <2>2 DEF Known
    <3>2. i \in DOMAIN new /\ new[i] = es[i]
      BY <1>4, <1>7, <3>1, SMT
    <3>3. QED
      BY <3>1, <3>2 DEF Known
  <2>3. QED
    BY <2>1, <2>2
<1>13. CountSound'
  BY <1>3, <1>4, <1>10, <1>11, <1>12 DEF CountSound, Known
<1>14. QED
  BY <1>2, <1>5, <1>13 DEF Serial

LEMMA SerialCommitObserved ==
  ASSUME Typed, NoTwice, Serial, NEW b \in Builders, CommitObserved(b)
  PROVE  Serial'
<1> DEFINE es == manifest.versions
           new == Observed(es, doc[b])
<1>0. es \in Seq(Entries) /\ returned \in [Contents -> Nat]
      /\ \A i \in DOMAIN es : es[i].content \in Contents
  <2>1. es \in Seq(Entries) /\ returned \in [Contents -> Nat]
    BY DEF Typed, TypeOK
  <2>2. \A i \in DOMAIN es : es[i] \in Entries
    BY <2>1
  <2>3. QED
    BY <2>1, <2>2 DEF Entries
<1>1. pc[b] = "observing" /\ ~Idle(b) /\ Goto(b, "idle") /\ doc[b] \in Contents
  BY SMT DEF CommitObserved, Commit, Idle, Typed, HasDoc
<1>2. OneAtATime' /\ \A d \in Builders : (HeldShape(d) /\ NewShape(d))'
  BY <1>1, Alone, ShapesIdle DEF Serial
<1>4. manifest.readable /\ versions[b] = es /\ pointer = doc[b] /\ Known(es, doc[b])
  BY <1>1, SMT DEF Serial, HeldShape, Holding
<1>3. /\ manifest' = [readable |-> TRUE, versions |-> new]
      /\ returned' = [returned EXCEPT ![doc[b]] = @ + 1]
      /\ UNCHANGED <<pointer, snapshots>>
  BY <1>4 DEF CommitObserved, Commit
<1>5. /\ DOMAIN new = DOMAIN es
      /\ \A i \in DOMAIN es :
           /\ new[i].content = es[i].content
           /\ new[i].parent = es[i].parent
           /\ new[i].compared = es[i].compared
           /\ new[i].observed =
                IF es[i].content = doc[b] THEN es[i].observed + 1 ELSE es[i].observed
  BY <1>0, <1>1, ObservedTyped
<1>6. /\ \A i \in DOMAIN es : es[i].observed = returned[es[i].content]
      /\ \A c \in Contents : returned[c] > 0 => Known(es, c)
      /\ \A i \in DOMAIN es : VersionSound(snapshots, es, i)
  BY <1>4 DEF Serial, CountSound, ListSound
<1>7. DOMAIN es = 1 .. Len(es) /\ Len(es) \in Nat
  BY <1>0
<1> HIDE DEF es, new
<1>8. \A i \in DOMAIN new : VersionSound(snapshots, new, i)
  <2> SUFFICES ASSUME NEW i \in DOMAIN es PROVE VersionSound(snapshots, new, i)
    BY <1>5
  <2>1. i # 1 => i - 1 \in DOMAIN es
    BY <1>7, SMT
  <2>2. i # 1 => new[i - 1].content = es[i - 1].content
    BY <1>5, <2>1
  <2>3. VersionSound(snapshots, es, i)
    BY <1>6
  <2>4. QED
    BY <1>5, <2>2, <2>3 DEF VersionSound
<1>9. \A c : Known(new, c) <=> Known(es, c)
  BY <1>5 DEF Known
<1>10. \A c \in Contents : returned'[c] = IF c = doc[b] THEN returned[c] + 1 ELSE returned[c]
  BY <1>0, <1>1, <1>3
<1>11. \A i \in DOMAIN new : new[i].observed = returned'[new[i].content]
  BY <1>0, <1>5, <1>6, <1>10
<1>12. \A c \in Contents : returned'[c] > 0 => Known(new, c)
  BY <1>4, <1>6, <1>9, <1>10
<1>13. ListSound' /\ CountSound'
  BY <1>3, <1>4, <1>8, <1>9, <1>11, <1>12 DEF ListSound, CountSound, VersionSound, Known
<1>14. QED
  BY <1>2, <1>13 DEF Serial

LEMMA SerialStep ==
  ASSUME Typed, NoTwice, Serial, [Next]_vars, ~overlapped'
  PROVE  Serial'
<1>1. ASSUME NEW b \in Builders, Step(b) \/ Fault(b) PROVE Serial'
  BY <1>1, SerialQuietStep, SerialBuildStep, SerialCompareStep, SerialCommitNew,
     SerialCommitObserved DEF Step, Fault
<1>2. CASE UNCHANGED vars
  BY <1>2 DEF vars, files, build, history, Serial, OneAtATime, Idle, HeldShape, NewShape,
              Holding, Known, ListSound, CountSound, VersionSound
<1>3. QED
  BY <1>1, <1>2 DEF Next

\* That two builds overlapped is not forgotten.
LEMMA OverlapStays == ASSUME Typed, [Next]_vars, overlapped PROVE overlapped'
BY DEF Next, Step, Fault, Collect, ReadManifest, ReadManifestRaises, WritePointer,
       CommitObserved, WriteSnapshot, CompareParent, CompareParentRaises, CommitNew, Commit,
       Crash, TearPointer, TearSnapshot, TearManifest, started, vars

LEMMA NoTwiceInvariant == Spec => [](Typed /\ NoTwice)
<1>1. Init => NoTwice
  <2>1. Distinct(<<>>)
    BY DEF Distinct
  <2>2. QED
    BY <2>1 DEF Init, NoTwice
<1>2. Typed /\ NoTwice /\ [Next]_vars => NoTwice'
  <2> SUFFICES ASSUME Typed, NoTwice, [Next]_vars PROVE NoTwice'
    OBVIOUS
  <2>1. CASE Next
    BY <2>1, NoTwiceStep DEF Next
  <2>2. CASE UNCHANGED vars
    BY <2>2 DEF vars, files, build, NoTwice, Known
  <2>3. QED
    BY <2>1, <2>2
<1>3. QED
  BY <1>1, <1>2, TypedInit, TypedNext, PTL DEF Spec

\* No fingerprint is listed twice, however many builds of the baseline overlap
\* (write_baseline_version's dedup against the whole lineage).
THEOREM NothingListedTwice == Spec => []ListedOnce
<1>1. NoTwice => ListedOnce
  BY DEF NoTwice, Distinct, ListedOnce
<1>2. QED
  BY <1>1, NoTwiceInvariant, PTL

\* The invariant of builds one at a time, as an invariant of the specification
SerialSoFar == ~overlapped => Serial

LEMMA SerialInvariant == Spec => []SerialSoFar
<1>1. Init => SerialSoFar
  BY SerialInit DEF SerialSoFar
<1>2. Typed /\ NoTwice /\ SerialSoFar /\ [Next]_vars => SerialSoFar'
  BY SerialStep, OverlapStays DEF SerialSoFar
<1>3. QED
  BY <1>1, <1>2, NoTwiceInvariant, PTL DEF Spec

\* While builds do not overlap, the list tells the truth about every version, wherever
\* a build was killed (the order of write_baseline_version's writes).
THEOREM LineageIsSound == Spec => []LineageSound
<1>1. SerialSoFar => LineageSound
  BY DEF SerialSoFar, Serial, LineageSound
<1>2. QED
  BY <1>1, SerialInvariant, PTL

\* While builds do not overlap, every build that returned is counted once, at its own
\* fingerprint (the dedup branch of write_baseline_version).
THEOREM ReturnedBuildsCounted == Spec => []BuildsCounted
<1>1. SerialSoFar => BuildsCounted
  BY DEF SerialSoFar, Serial, BuildsCounted
<1>2. QED
  BY <1>1, SerialInvariant, PTL

\* While builds do not overlap, no snapshot of a listed version is written again.
THEOREM VersionsAreImmutable == Spec => VersionsImmutable
<1>1. Typed /\ SerialSoFar /\ [Next]_vars => [~overlapped' => ListedKept]_vars
  <2> SUFFICES ASSUME Typed, SerialSoFar, Next, ~overlapped' PROVE ListedKept
    OBVIOUS
  <2>0. Serial
    BY OverlapStays DEF SerialSoFar
  <2>1. PICK b \in Builders : Step(b) \/ Fault(b)
    BY DEF Next
  <2>2. CASE WriteSnapshot(b)
    <3>1. pc[b] = "snapshot" /\ doc[b] \in Contents
      BY <2>2, SMT DEF WriteSnapshot, Typed, HasDoc, Idle
    <3>2. QED
      BY <2>0, <2>2, <3>1, SnapshotPast DEF WriteSnapshot, ListedKept
  <2>3. CASE TearSnapshot(b)
    BY <2>0, <2>3, SnapshotPast DEF TearSnapshot, ListedKept
  <2>4. CASE UNCHANGED snapshots
    BY <2>4 DEF ListedKept
  <2>5. QED
    BY <2>1, <2>2, <2>3, <2>4 DEF Step, Fault, Collect, ReadManifest, ReadManifestRaises,
       WritePointer, CommitObserved, CompareParent, CompareParentRaises, CommitNew, Commit,
       Crash, TearPointer, TearManifest, files
<1>2. QED
  BY <1>1, SerialInvariant, NoTwiceInvariant, PTL DEF Spec, VersionsImmutable
=============================================================================
