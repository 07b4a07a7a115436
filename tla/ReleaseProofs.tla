----------------------------- MODULE ReleaseProofs -----------------------------
(***************************************************************************)
(* What is on npm, for any packages, dependencies, order that puts a       *)
(* package after those it needs, number of versions, lost jobs and Telegram *)
(* schemas.                                                                *)
(***************************************************************************)
EXTENDS Release, TLAPS

Versions == [Packages -> 1 .. MaxVersion]

\* On main a range is workspace:^ or the version of its package.
MainOK ==
  /\ version \in Versions
  /\ pending \in BOOLEAN
  /\ pending => \A p \in Packages : version[p] < MaxVersion
  /\ \A p \in Packages : \A d \in Needs[p] : range[p][d] # 0 => range[p][d] = version[d]

\* npm view answers nothing that was not published, and nothing was published
\* that is ahead of main.
RegistryOK ==
  /\ seen \subseteq Published
  /\ \A r \in npm : r[1] \in Packages /\ r[2] \in 1 .. version[r[1]]

\* The checkout is a commit of main that passed the gates.
CheckoutOK ==
  /\ next \in 1 .. Len(Order)
  /\ tree[1] \in Versions
  /\ \A p \in Packages : tree[1][p] <= version[p]
  /\ \A p \in Packages : \A d \in Needs[p] : tree[2][p][d] # 0 => tree[2][p][d] = tree[1][d]
  /\ tree[4]

\* The packages before the one at hand are on npm, and recorded with the version
\* they have there.
RecordedOK ==
  /\ recorded \in [Packages -> 0 .. MaxVersion]
  /\ \A i \in 1 .. next - 1 :
       /\ recorded[Order[i]] = tree[1][Order[i]]
       /\ <<Order[i], tree[1][Order[i]]>> \in Published

RewrittenOK ==
  job = "publish" => deps = [d \in Needs[At] |-> tree[1][d]]

IInv ==
  /\ MainOK
  /\ RegistryOK
  /\ DependsOnPublished
  /\ job # "idle" => CheckoutOK /\ RecordedOK /\ RewrittenOK

-------------------------------------------------------------------------------
\* Every index of the order names a package, and all that it needs comes before.
LEMMA OrderLemma ==
  /\ Order \in Seq(Packages)
  /\ Len(Order) \in Nat \ {0}
  /\ Packages = {Order[i] : i \in 1 .. Len(Order)}
  /\ \A i \in 1 .. Len(Order) : Order[i] \in Packages
  /\ \A p \in Packages : Needs[p] \subseteq Packages
  <1>1. /\ Libraries \in Seq(ToSet(Libraries) \cup ToSet(Rest))
        /\ Rest \in Seq(ToSet(Libraries) \cup ToSet(Rest))
    BY ReleaseAssumption
  <1>2. Order \in Seq(ToSet(Libraries) \cup ToSet(Rest))
    BY <1>1 DEF Order
  <1>3. Len(Order) \in Nat /\ DOMAIN Order = 1 .. Len(Order)
    BY <1>2
  <1>4. Packages = {Order[i] : i \in 1 .. Len(Order)}
    BY <1>3 DEF Packages, ToSet
  <1>5. Order \in Seq(Packages) /\ \A i \in 1 .. Len(Order) : Order[i] \in Packages
    BY <1>2, <1>3, <1>4
  <1>6. Len(Order) # 0
    BY <1>2, ReleaseAssumption
  <1>7. ASSUME NEW p \in Packages PROVE Needs[p] \subseteq Packages
    <2>1. PICK i \in 1 .. Len(Order) : p = Order[i]
      BY <1>4
    <2>2. Needs[p] \subseteq {Order[j] : j \in 1 .. i - 1}
      BY <2>1, ReleaseAssumption
    <2>3. \A j \in 1 .. i - 1 : j \in 1 .. Len(Order)
      BY <1>3
    <2> QED
      BY <2>2, <2>3, <1>5
  <1> QED
    BY <1>3, <1>4, <1>5, <1>6, <1>7

\* A job at a package: which one, and that what it needs is on npm already in the
\* versions of the checkout, which are the recorded ones.
LEMMA AtLemma ==
  ASSUME CheckoutOK, RecordedOK
  PROVE  /\ At \in Packages
         /\ tree[1][At] \in 1 .. MaxVersion
         /\ Needs[At] \subseteq Packages
         /\ \A d \in Needs[At] :
              /\ tree[1][d] \in 1 .. MaxVersion
              /\ recorded[d] = tree[1][d]
              /\ <<d, tree[1][d]>> \in Published
  <1>1. next \in 1 .. Len(Order) /\ At = Order[next]
    BY DEF CheckoutOK, At
  <1>2. At \in Packages /\ Needs[At] \subseteq Packages
    BY <1>1, OrderLemma
  <1>3. \A p \in Packages : tree[1][p] \in 1 .. MaxVersion
    BY DEF CheckoutOK, Versions
  <1>4. ASSUME NEW d \in Needs[At]
        PROVE  recorded[d] = tree[1][d] /\ <<d, tree[1][d]>> \in Published
    <2>1. Needs[At] \subseteq {Order[j] : j \in 1 .. next - 1}
      BY <1>1, ReleaseAssumption
    <2>2. PICK j \in 1 .. next - 1 : d = Order[j]
      BY <2>1
    <2> QED
      BY <2>2 DEF RecordedOK
  <1> QED
    BY <1>2, <1>3, <1>4

LEMMA InitIInv == ReleaseInit => IInv
  <1> SUFFICES ASSUME ReleaseInit PROVE IInv
    OBVIOUS
  <1>1. \A p \in Packages : Needs[p] \subseteq Packages
    BY OrderLemma
  <1>2. MainOK
    <2>1. version \in Versions /\ pending = FALSE /\ \A p \in Packages : version[p] = 1
      BY ReleaseAssumption DEF ReleaseInit, Versions
    <2>2. range = Linked \/ range = [p \in Packages |-> [d \in Needs[p] |-> 1]]
      BY DEF ReleaseInit
    <2>3. ASSUME NEW p \in Packages, NEW d \in Needs[p]
          PROVE  range[p][d] # 0 => range[p][d] = 1
      BY <2>2 DEF Linked
    <2> QED
      BY <2>1, <2>3, <1>1 DEF MainOK
  <1>3. /\ \A p \in Packages : version[p] = 1
        /\ npm = {} \/ npm = {<<p, 1, [d \in Needs[p] |-> 1]>> : p \in Packages}
    BY DEF ReleaseInit
  <1>4. ASSUME NEW p \in Packages, npm # {} PROVE <<p, 1>> \in Published
    <2>1. PICK r \in npm : r = <<p, 1, [d \in Needs[p] |-> 1]>>
      BY <1>3, <1>4
    <2>2. r[1] = p /\ r[2] = 1
      BY <2>1
    <2> QED
      BY <2>2 DEF Published
  <1>5. \A r \in npm : /\ r[1] \in Packages /\ r[2] = 1
                       /\ r[3] = [d \in Needs[r[1]] |-> 1]
    BY <1>3
  <1>6. RegistryOK
    BY <1>3, <1>5 DEF ReleaseInit, RegistryOK
  <1>7. DependsOnPublished
    BY <1>1, <1>4, <1>5 DEF DependsOnPublished
  <1> QED
    BY <1>2, <1>6, <1>7 DEF IInv, ReleaseInit

\* Steps that neither this invariant nor the job looks at.
LEMMA OtherStep ==
  ASSUME IInv, UNCHANGED <<mainVars, npm, seen, jobVars>>
  PROVE  IInv'
  BY DEF IInv, MainOK, RegistryOK, DependsOnPublished, Published, CheckoutOK, RecordedOK,
         RewrittenOK, At, mainVars, jobVars

\* The job ends, main and npm stay as they are.
LEMMA EndStep ==
  ASSUME IInv, EndJob, UNCHANGED <<mainVars, npm, seen>>
  PROVE  IInv'
  BY DEF IInv, EndJob, MainOK, RegistryOK, DependsOnPublished, Published, mainVars

\* The package at hand is on npm now, if it was not before; nothing else changes
\* there.
Took ==
  npm' = npm \cup {<<At, tree[1][At], [d \in Needs[At] |-> tree[1][d]]>>}

LEMMA TookStep ==
  ASSUME IInv, job # "idle", Took, UNCHANGED <<mainVars, seen>>
  PROVE  /\ MainOK' /\ RegistryOK' /\ DependsOnPublished'
         /\ Published' = Published \cup {<<At, tree[1][At]>>}
  <1>1. /\ CheckoutOK /\ RecordedOK /\ MainOK /\ RegistryOK /\ DependsOnPublished
        /\ version' = version
    BY DEF IInv, mainVars
  <1>2. /\ At \in Packages
        /\ Needs[At] \subseteq Packages
        /\ \A d \in Needs[At] : <<d, tree[1][d]>> \in Published
    BY <1>1, AtLemma
  <1> DEFINE deps1 == [d \in Needs[At] |-> tree[1][d]]
             new == <<At, tree[1][At], deps1>>
  <1>3. npm' = npm \cup {new} /\ new[1] = At /\ new[2] = tree[1][At] /\ new[3] = deps1
    BY DEF Took
  <1>4. \A d \in Needs[At] : deps1[d] = tree[1][d]
    OBVIOUS
  <1> HIDE DEF new, deps1
  <1>5. Published' = Published \cup {<<At, tree[1][At]>>}
    BY <1>3 DEF Published
  <1>6. tree[1][At] \in 1 .. version[At]
    BY <1>1, <1>2 DEF CheckoutOK, MainOK, Versions
  <1>7. RegistryOK'
    BY <1>1, <1>2, <1>3, <1>5, <1>6 DEF RegistryOK
  <1>8. DependsOnPublished'
    <2>1. ASSUME NEW r \in npm', NEW d \in Needs[r[1]]
          PROVE  <<d, r[3][d]>> \in Published'
      <3>1. CASE r \in npm
        BY <3>1, <1>1, <1>5 DEF DependsOnPublished
      <3>2. CASE r = new
        BY <3>2, <1>2, <1>3, <1>4, <1>5
      <3> QED
        BY <3>1, <3>2, <1>3
    <2> QED
      BY <2>1 DEF DependsOnPublished
  <1>9. MainOK'
    BY <1>1 DEF MainOK, mainVars
  <1> QED
    BY <1>5, <1>7, <1>8, <1>9

\* A package that is on npm is recorded.
LEMMA RecordStep ==
  ASSUME IInv, job # "idle", Record, UNCHANGED mainVars,
         Published \subseteq Published', <<At, tree[1][At]>> \in Published'
  PROVE  CheckoutOK' /\ RecordedOK' /\ RewrittenOK'
  <1>1. CheckoutOK /\ RecordedOK
    BY DEF IInv
  <1>2. /\ tree' = tree /\ version' = version
        /\ recorded' = [recorded EXCEPT ![At] = tree[1][At]]
        /\ next' = IF next = Len(Order) THEN next ELSE next + 1
        /\ job' # "publish"
    BY DEF Record, mainVars
  <1>3. /\ At \in Packages /\ tree[1][At] \in 1 .. MaxVersion
        /\ next \in 1 .. Len(Order) /\ Len(Order) \in Nat
        /\ At = Order[next]
    BY <1>1, AtLemma, OrderLemma DEF CheckoutOK, At
  <1>4. CheckoutOK'
    <2>1. next' \in 1 .. Len(Order)
      BY <1>2, <1>3
    <2> QED
      BY <2>1, <1>1, <1>2 DEF CheckoutOK
  <1>5. recorded' \in [Packages -> 0 .. MaxVersion]
    BY <1>1, <1>2, <1>3, ReleaseAssumption DEF RecordedOK
  <1>6. ASSUME NEW i \in 1 .. next' - 1
        PROVE  /\ recorded'[Order[i]] = tree[1][Order[i]]
               /\ <<Order[i], tree[1][Order[i]]>> \in Published'
    <2>1. i \in 1 .. next /\ i \in 1 .. Len(Order)
      BY <1>2, <1>3
    <2>2. Order[i] \in Packages
      BY <2>1, OrderLemma
    <2>3. CASE Order[i] = At
      BY <2>3, <1>1, <1>2, <1>3 DEF RecordedOK
    <2>4. CASE Order[i] # At
      <3>1. i \in 1 .. next - 1
        BY <2>1, <2>4, <1>3
      <3>2. recorded'[Order[i]] = recorded[Order[i]]
        BY <2>4, <2>2, <1>1, <1>2 DEF RecordedOK
      <3> QED
        BY <3>1, <3>2, <1>1 DEF RecordedOK
    <2> QED
      BY <2>3, <2>4
  <1>7. RecordedOK'
    BY <1>2, <1>5, <1>6 DEF RecordedOK
  <1> QED
    BY <1>2, <1>4, <1>7 DEF RewrittenOK

LEMMA AddChangesetStep ==
  ASSUME IInv, AddChangeset
  PROVE  IInv'
  <1>1. /\ pending' = TRUE
        /\ \A p \in Packages : version[p] < MaxVersion
        /\ version' = version /\ range' = range /\ npm' = npm /\ seen' = seen
        /\ UNCHANGED jobVars
    BY DEF AddChangeset
  <1>2. MainOK'
    BY <1>1 DEF IInv, MainOK
  <1> QED
    BY <1>1, <1>2 DEF IInv, RegistryOK, DependsOnPublished, Published, CheckoutOK,
                      RecordedOK, RewrittenOK, At, jobVars

\* Versions only grow, and all ranges are workspace:^ afterwards.
LEMMA BumpStep ==
  ASSUME IInv, Bump
  PROVE  IInv'
  <1>1. PICK bumped \in SUBSET Packages \ {{}} :
          version' = [p \in Packages |-> version[p] + IF p \in bumped THEN 1 ELSE 0]
    BY DEF Bump
  <1>2. /\ range' = Linked /\ pending' = FALSE /\ pending
        /\ npm' = npm /\ seen' = seen /\ UNCHANGED jobVars
    BY DEF Bump
  <1>3. /\ version \in Versions /\ \A p \in Packages : version[p] < MaxVersion
        /\ MaxVersion \in Nat
    BY <1>2, ReleaseAssumption DEF IInv, MainOK
  <1>4. ASSUME NEW p \in Packages
        PROVE  version'[p] \in version[p] .. MaxVersion /\ version[p] \in 1 .. MaxVersion
    BY <1>1, <1>3 DEF Versions
  <1>5. version' \in Versions
    <2>1. \A p \in Packages : version'[p] \in 1 .. MaxVersion
      BY <1>3, <1>4
    <2> QED
      BY <2>1, <1>1 DEF Versions
  <1>6. MainOK'
    BY <1>2, <1>5 DEF MainOK, Linked
  <1>7. RegistryOK'
    BY <1>2, <1>3, <1>4 DEF IInv, RegistryOK, Published
  <1>8. job # "idle" => CheckoutOK'
    <2>1. \A p \in Packages : CheckoutOK => tree[1][p] \in 1 .. MaxVersion
      BY DEF CheckoutOK, Versions
    <2> QED
      BY <2>1, <1>2, <1>3, <1>4 DEF IInv, CheckoutOK, jobVars
  <1> QED
    BY <1>2, <1>6, <1>7, <1>8 DEF IInv, DependsOnPublished, Published, RecordedOK,
                                  RewrittenOK, At, jobVars

LEMMA ReplicateStep ==
  ASSUME IInv, Replicate
  PROVE  IInv'
  <1>1. /\ seen' \subseteq seen \cup Published
        /\ npm' = npm /\ UNCHANGED mainVars /\ UNCHANGED jobVars
    BY DEF Replicate
  <1> QED
    BY <1>1 DEF IInv, MainOK, RegistryOK, DependsOnPublished, Published, CheckoutOK,
                RecordedOK, RewrittenOK, At, mainVars, jobVars

\* The gates compare every generated file with the snapshot, so that these agree
\* with each other.
LEMMA GatesLemma ==
  ASSUME NEW online, SchemaGates(online)
  PROVE  types = payloads[1] /\ byHand = payloads[2] /\ types = results
  BY DEF SchemaGates, TypesCurrent, PayloadsCurrent, PayloadsOf, ResultsCurrent

LEMMA StartReleaseStep ==
  ASSUME IInv, StartRelease
  PROVE  IInv'
  <1>1. /\ tree' = <<version, range, pinned,
                     types = payloads[1] /\ byHand = payloads[2] /\ types = results>>
        /\ next' = 1 /\ recorded' = Absent /\ job' = "view"
        /\ npm' = npm /\ seen' = seen /\ UNCHANGED mainVars
    BY DEF StartRelease
  <1>2. types = payloads[1] /\ byHand = payloads[2] /\ types = results
    BY GatesLemma DEF StartRelease
  <1>3. tree'[1] = version /\ tree'[2] = range /\ tree'[4]
    BY <1>1, <1>2
  <1>4. version' = version /\ version \in Versions
        /\ \A p \in Packages : version[p] \in Int
    BY <1>1 DEF IInv, MainOK, Versions, mainVars
  <1>5. CheckoutOK'
    <2>1. next' \in 1 .. Len(Order)
      BY <1>1, OrderLemma
    <2>2. \A p \in Packages : \A d \in Needs[p] :
            tree'[2][p][d] # 0 => tree'[2][p][d] = tree'[1][d]
      BY <1>3 DEF IInv, MainOK
    <2> QED
      BY <2>1, <2>2, <1>3, <1>4 DEF CheckoutOK
  <1>6. RecordedOK'
    <2>1. recorded' \in [Packages -> 0 .. MaxVersion]
      BY <1>1, ReleaseAssumption DEF Absent
    <2>2. 1 .. next' - 1 = {}
      BY <1>1
    <2> QED
      BY <2>1, <2>2 DEF RecordedOK
  <1>7. RewrittenOK'
    BY <1>1 DEF RewrittenOK
  <1>8. MainOK' /\ RegistryOK' /\ DependsOnPublished'
    BY <1>1 DEF IInv, MainOK, RegistryOK, DependsOnPublished, Published, mainVars
  <1> QED
    BY <1>5, <1>6, <1>7, <1>8 DEF IInv

LEMMA SkipStep ==
  ASSUME IInv, Skip
  PROVE  IInv'
  <1>1. /\ job = "view" /\ <<At, tree[1][At]>> \in seen /\ Record
        /\ npm' = npm /\ seen' = seen /\ UNCHANGED mainVars
    BY DEF Skip, Target
  <1>2. Published' = Published /\ <<At, tree[1][At]>> \in Published
    BY <1>1 DEF IInv, RegistryOK, Published
  <1>3. MainOK' /\ RegistryOK' /\ DependsOnPublished'
    BY <1>1 DEF IInv, MainOK, RegistryOK, DependsOnPublished, Published, mainVars
  <1>4. CheckoutOK' /\ RecordedOK' /\ RewrittenOK'
    BY <1>1, <1>2, RecordStep
  <1> QED
    BY <1>3, <1>4 DEF IInv

\* A dependency resolves to the version of the checkout: a range is that version
\* already, and workspace:^ has been recorded, because of the order.
LEMMA ResolvedLemma ==
  ASSUME CheckoutOK, RecordedOK, NEW d \in Needs[At]
  PROVE  Resolved(d) = tree[1][d]
  <1>1. /\ At \in Packages
        /\ tree[1][d] \in 1 .. MaxVersion
        /\ recorded[d] = tree[1][d]
    BY AtLemma
  <1>2. tree[2][At][d] # 0 => tree[2][At][d] = tree[1][d]
    BY <1>1 DEF CheckoutOK
  <1>3. recorded[d] # 0
    BY <1>1
  <1> QED
    BY <1>1, <1>2, <1>3 DEF Resolved

LEMMA RewriteStep ==
  ASSUME IInv, Rewrite
  PROVE  IInv'
  <1>1. /\ job = "view" /\ job' = "publish"
        /\ deps' = [d \in Needs[At] |-> Resolved(d)]
        /\ npm' = npm /\ seen' = seen /\ UNCHANGED mainVars
        /\ tree' = tree /\ next' = next /\ recorded' = recorded
    BY DEF Rewrite
  <1>2. CheckoutOK /\ RecordedOK
    BY <1>1 DEF IInv
  <1>3. \A d \in Needs[At] : Resolved(d) = tree[1][d]
    BY <1>2, ResolvedLemma
  <1>4. deps' = [d \in Needs[At] |-> tree[1][d]] /\ At' = At
    BY <1>1, <1>3 DEF At
  <1>5. RewrittenOK'
    BY <1>1, <1>4 DEF RewrittenOK
  <1>6. MainOK' /\ RegistryOK' /\ DependsOnPublished' /\ CheckoutOK' /\ RecordedOK'
    BY <1>1, <1>2 DEF IInv, MainOK, RegistryOK, DependsOnPublished, Published, CheckoutOK,
                      RecordedOK, mainVars
  <1> QED
    BY <1>5, <1>6 DEF IInv

LEMMA PublishStep ==
  ASSUME IInv, Publish
  PROVE  IInv' /\ Took
  <1>1. /\ job = "publish" /\ npm' = npm \cup {<<At, tree[1][At], deps>>} /\ Record
        /\ seen' = seen /\ UNCHANGED mainVars
    BY DEF Publish
  <1>2. Took
    BY <1>1 DEF IInv, RewrittenOK, Took
  <1>3. /\ MainOK' /\ RegistryOK' /\ DependsOnPublished'
        /\ Published' = Published \cup {<<At, tree[1][At]>>}
    BY <1>1, <1>2, TookStep
  <1>4. CheckoutOK' /\ RecordedOK' /\ RewrittenOK'
    BY <1>1, <1>3, RecordStep
  <1> QED
    BY <1>2, <1>3, <1>4 DEF IInv

LEMMA FailsStep ==
  ASSUME IInv, Fails
  PROVE  IInv' /\ (npm' = npm \/ Took)
  <1>1. /\ job = "publish" /\ job' = "idle"
        /\ npm' = npm \/ npm' = npm \cup {<<At, tree[1][At], deps>>}
        /\ seen' = seen /\ UNCHANGED mainVars /\ EndJob
    BY DEF Fails, EndJob
  <1>2. CASE npm' = npm
    BY <1>1, <1>2, EndStep
  <1>3. CASE npm' = npm \cup {<<At, tree[1][At], deps>>}
    <2>1. Took
      BY <1>1, <1>3 DEF IInv, RewrittenOK, Took
    <2>2. MainOK' /\ RegistryOK' /\ DependsOnPublished'
      BY <1>1, <2>1, TookStep
    <2> QED
      BY <1>1, <2>1, <2>2 DEF IInv
  <1> QED
    BY <1>1, <1>2, <1>3

\* What npm calls the latest version is the released one, if main has not moved.
LEMMA LatestLemma ==
  ASSUME IInv, job # "idle", AllOnNpm, version = tree[1], NEW d \in Packages
  PROVE  NpmLatest(d) = version[d]
  <1>1. version[d] \in 1 .. MaxVersion
    BY DEF IInv, MainOK, Versions
  <1>2. version[d] \in Known(d)
    BY <1>1 DEF AllOnNpm, Known
  <1>3. ASSUME NEW v \in Known(d) PROVE v \in Int /\ v <= version[d]
    <2>1. v \in 1 .. MaxVersion /\ <<d, v>> \in Published
      BY DEF Known, IInv, RegistryOK
    <2>2. PICK r \in npm : <<d, v>> = <<r[1], r[2]>>
      BY <2>1 DEF Published
    <2>3. r[1] = d /\ r[2] = v
      BY <2>2
    <2> QED
      BY <2>1, <2>3 DEF IInv, RegistryOK
  <1>4. \A v \in Known(d) :
          (\A w \in Known(d) : w <= v) <=> v = version[d]
    BY <1>1, <1>2, <1>3
  <1> QED
    BY <1>2, <1>4 DEF NpmLatest

LEMMA ConfirmStep ==
  ASSUME IInv, Confirm
  PROVE  IInv'
  <1>1. /\ job = "confirm" /\ job' = "idle" /\ EndJob
        /\ version' = version /\ pending' = pending /\ npm' = npm /\ seen' = seen
        /\ \/ AllOnNpm /\ version = tree[1] /\ range' = SyncedRanges
           \/ range' = range
    BY DEF Confirm, EndJob
  <1>2. ASSUME NEW p \in Packages, NEW d \in Needs[p]
        PROVE  range'[p][d] # 0 => range'[p][d] = version[d]
    <2>1. d \in Packages
      BY OrderLemma
    <2>2. CASE range' = range
      BY <2>2 DEF IInv, MainOK
    <2>3. CASE AllOnNpm /\ version = tree[1] /\ range' = SyncedRanges
      <3>1. NpmLatest(d) = version[d]
        BY <2>1, <2>3, <1>1, LatestLemma
      <3>2. range'[p][d] = NpmLatest(d)
        BY <2>3 DEF SyncedRanges
      <3> QED
        BY <3>1, <3>2
    <2> QED
      BY <2>2, <2>3, <1>1
  <1>3. MainOK'
    BY <1>1, <1>2 DEF IInv, MainOK
  <1>4. RegistryOK' /\ DependsOnPublished'
    BY <1>1 DEF IInv, RegistryOK, DependsOnPublished, Published
  <1> QED
    BY <1>1, <1>3, <1>4 DEF IInv

LEMMA NextIInv ==
  ASSUME IInv, [ReleaseNext]_releaseVars
  PROVE  IInv'
  <1>1. CASE MaintainMain
    BY <1>1, OtherStep DEF MaintainMain
  <1>2. CASE Duplicate
    BY <1>2, EndStep DEF Duplicate
  <1>3. CASE Kill
    BY <1>3, EndStep DEF Kill
  <1>4. CASE UNCHANGED releaseVars
    BY <1>4, OtherStep DEF releaseVars
  <1>5. CASE Work
    BY <1>5, <1>2, SkipStep, RewriteStep, PublishStep, ConfirmStep DEF Work
  <1> QED
    BY <1>1, <1>3, <1>4, <1>5, AddChangesetStep, BumpStep, ReplicateStep,
       StartReleaseStep, FailsStep DEF ReleaseNext

THEOREM Invariance == ReleaseSpec => []IInv
  BY InitIInv, NextIInv, PTL DEF ReleaseSpec

-------------------------------------------------------------------------------
\* Whatever was published depends on versions that were published, too, however
\* many jobs failed before or after the registry took a package.
THEOREM Installable == ReleaseSpec => []DependsOnPublished
  <1>1. IInv => DependsOnPublished
    BY DEF IInv
  <1> QED
    BY <1>1, Invariance, PTL

\* A package gets to npm with the versions of its commit as dependencies, and
\* with generated types that agree, in every run and rerun of the job.
THEOREM OneCommit == ReleaseSpec => ReleasedTogether
  <1> DEFINE Together ==
        \A r \in npm' \ npm :
          /\ r[3] = [d \in Needs[r[1]] |-> tree[1][d]]
          /\ tree[4]
  <1>1. ASSUME IInv, [ReleaseNext]_releaseVars
        PROVE  Together
    <2>1. CASE npm' = npm
      BY <2>1
    <2>2. CASE job # "idle" /\ Took
      <3>1. tree[4]
        BY <2>2, <1>1 DEF IInv, CheckoutOK
      <3>2. ASSUME NEW r \in npm' \ npm
            PROVE  r[3] = [d \in Needs[r[1]] |-> tree[1][d]]
        <4>1. r = <<At, tree[1][At], [d \in Needs[At] |-> tree[1][d]]>>
          BY <2>2 DEF Took
        <4>2. r[1] = At /\ r[3] = [d \in Needs[At] |-> tree[1][d]]
          BY <4>1
        <4> QED
          BY <4>2
      <3> QED
        BY <3>1, <3>2
    <2>3. npm' = npm \/ (job # "idle" /\ Took)
      <3>1. CASE Publish
        BY <3>1, <1>1, PublishStep DEF Publish
      <3>2. CASE Fails
        BY <3>2, <1>1, FailsStep DEF Fails
      <3> QED
        BY <1>1, <3>1, <3>2
           DEF ReleaseNext, releaseVars, MaintainMain, AddChangeset, Bump, Replicate,
               StartRelease, Work, Skip, Rewrite, Duplicate, Confirm, Kill
    <2> QED
      BY <2>1, <2>2, <2>3
  <1> HIDE DEF Together
  <1>2. [Together]_releaseVars <=> (Together \/ UNCHANGED releaseVars)
    OBVIOUS
  <1>3. IInv /\ [ReleaseNext]_releaseVars => [Together]_releaseVars
    BY <1>1, <1>2
  <1> QED
    BY <1>3, Invariance, PTL DEF ReleaseSpec, ReleasedTogether, Together

===============================================================================
