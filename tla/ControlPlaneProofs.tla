-------------------------- MODULE ControlPlaneProofs --------------------------
(***************************************************************************)
(* What holds of the control plane for every set of pages, of names the    *)
(* operators write and every number of their writes.  The invariant is     *)
(* stated of a database value, because a transaction is an operator on     *)
(* one: each operator of the bootstrap and of the migrations has a lemma   *)
(* that says what it changes, row by row, and everything else is proved    *)
(* from those.                                                             *)
(***************************************************************************)
EXTENDS ControlPlane, SequenceTheorems, FiniteSetTheorems, TLAPS

\* Every engine is there from the first bootstrap on, and a target an operator
\* or PatchPaw owns is there; only a deletion leaves a marker without its row.
Marked(d) ==
    /\ \A e \in Engines : d.engine[e] = Absent => d.engineMark[e] = "none"
    /\ \A t \in Targets : /\ d.targetMark[t] \in {"seeded", "override"} => d.target[t] # Absent
                          /\ d.target[t] # Absent => d.repo > 0
                          /\ d.targetMark[t] = "none" => d.target[t] = Absent
    /\ d.target["conversation"] = Absent => d.targetMark["conversation"] = "none"

\* BindingsHold, of a database.
Holds(d, t) ==
    d.target[t] # Absent =>
        /\ \A k \in BoundTo(d.target[t]) : d.asset["repository"][k] # Absent
        /\ d.target[t].help => d.asset["repository"]["help"] # Absent
        /\ d.target[t].on => MainFor(t) \in Active(d.target[t])
Bindings(d) == \A t \in Targets : Holds(d, t)

\* What PatchPaw owns is what it deployed: enabled, each binding too, with the
\* permission and the plan prompt its command has in some release.
FirstReview == On(<<"review", "retry", "closeout", "shared">>)
Deploys(d, t) ==
    LET c == d.target[t] IN
    d.targetMark[t] = "seeded" =>
        /\ c.on /\ BoundTo(c) \subseteq Active(c)
        /\ \A e \in Engines : d.engine[e] # Absent
        /\ t # "conflict" => c.permission = "read_only"
        /\ c.permission = "read_write_approval" => "plan" \in BoundTo(c)
        /\ "retry" \in BoundTo(c) => t = "review" /\ c.bound = FirstReview
Owned(d) == \A t \in Targets : Deploys(d, t)

\* A migration leaves the retired prompt only in a layout it had to skip.
Retired ==
    applied = Migrations => \A t \in Targets :
        db.targetMark[t] = "seeded" /\ "retry" \in BoundTo(db.target[t]) => t \in skipped

\* A page that still shows its row has the row's own revision, or an older one;
\* with that revision it shows what the row holds.
Fresher(d, v) ==
    /\ v.item[1] # "replace" => Row(d, v.item) # Absent
    /\ v.rev <= Revision(d, v.item)
    /\ v.rev = Revision(d, v.item) /\ Row(d, v.item) # Absent => Row(d, v.item) = v.seen
Pages ==
    \A c \in Clients : view[c] # NoView /\ view[c].step # "gone" =>
        /\ Fresher(db, view[c])
        /\ view[c].step \in {"setting", "removing"} => view[c].item = <<"engine", "provider">>
        /\ view[c].step = "saving" => /\ view[c].item = <<"target", "conversation">>
                                      /\ view[c].seen \in TargetRows

Inv == TypeOK /\ Marked(db) /\ Bindings(db) /\ Owned(db) /\ Retired /\ Pages

-----------------------------------------------------------------------------
(* Bindings: sequences of prompts *)

Binding == [slug : Prompts, on : BOOLEAN]
Bound(b) == {b[i].slug : i \in DOMAIN b}
Enabled(b) == {b[i].slug : i \in {j \in DOMAIN b : b[j].on}}

LEMMA BoundIs == \A c : BoundTo(c) = Bound(c.bound) /\ Active(c) = Enabled(c.bound)
  BY DEF BoundTo, Active, Bound, Enabled

LEMMA EnabledIsBound ==
  ASSUME NEW b \in Seq(Binding)
  PROVE  Enabled(b) \subseteq Bound(b) /\ Bound(b) \subseteq Prompts
  <1>1. \A i \in DOMAIN b : b[i] \in Binding
    BY LenProperties, ElementOfSeq
  <1>. QED  BY <1>1 DEF Bound, Enabled, Binding

\* Bindings that are put together bind what their parts bind.
LEMMA Concatenated ==
  ASSUME NEW b \in Seq(Binding), NEW e \in Seq(Binding)
  PROVE  /\ b \o e \in Seq(Binding)
         /\ Bound(b \o e) = Bound(b) \union Bound(e)
         /\ Enabled(b \o e) = Enabled(b) \union Enabled(e)
  <1> DEFINE s == b \o e
  <1>1. /\ s \in Seq(Binding) /\ Len(s) = Len(b) + Len(e)
        /\ \A i \in 1 .. Len(b) + Len(e) : s[i] = IF i <= Len(b) THEN b[i] ELSE e[i - Len(b)]
    BY ConcatProperties
  <1>2. Len(b) \in Nat /\ Len(e) \in Nat /\ DOMAIN b = 1 .. Len(b) /\ DOMAIN e = 1 .. Len(e)
        /\ DOMAIN s = 1 .. Len(b) + Len(e)
    BY <1>1, LenProperties
  <1> HIDE DEF s
  <1>3. \A i \in DOMAIN b : i \in DOMAIN s /\ s[i] = b[i]
    BY <1>1, <1>2
  <1>4. \A i \in DOMAIN e : i + Len(b) \in DOMAIN s /\ s[i + Len(b)] = e[i]
    BY <1>1, <1>2
  <1>5. \A i \in DOMAIN s : \/ i \in DOMAIN b /\ s[i] = b[i]
                            \/ i - Len(b) \in DOMAIN e /\ s[i] = e[i - Len(b)]
    BY <1>1, <1>2
  <1>6. Bound(s) = Bound(b) \union Bound(e)
    BY <1>3, <1>4, <1>5 DEF Bound
  <1>7. Enabled(s) = Enabled(b) \union Enabled(e)
    BY <1>3, <1>4, <1>5 DEF Enabled
  <1>. QED  BY <1>1, <1>6, <1>7 DEF s

LEMMA Single ==
  ASSUME NEW x \in Binding
  PROVE  /\ <<x>> \in Seq(Binding)
         /\ Bound(<<x>>) = {x.slug}
         /\ Enabled(<<x>>) = IF x.on THEN {x.slug} ELSE {}
  BY DEF Bound, Enabled

\* The bindings a layout starts with are all enabled.
LEMMA AllOn ==
  ASSUME NEW slugs \in Seq(Prompts)
  PROVE  /\ On(slugs) \in Seq(Binding)
         /\ Bound(On(slugs)) = Range(slugs)
         /\ Enabled(On(slugs)) = Range(slugs)
  <1>1. Len(slugs) \in Nat /\ DOMAIN slugs = 1 .. Len(slugs)
        /\ \A i \in DOMAIN slugs : slugs[i] \in Prompts
    BY LenProperties, ElementOfSeq
  <1>2. \A i \in DOMAIN slugs : [slug |-> slugs[i], on |-> TRUE] \in Binding
    BY <1>1 DEF Binding
  <1>3. On(slugs) \in [1 .. Len(slugs) -> Binding]
    BY <1>1, <1>2 DEF On
  <1>4. On(slugs) \in Seq(Binding)
    BY <1>1, <1>3, SeqDef
  <1>5. DOMAIN On(slugs) = DOMAIN slugs
        /\ \A i \in DOMAIN slugs : On(slugs)[i].slug = slugs[i] /\ On(slugs)[i].on
    BY DEF On
  <1>. QED  BY <1>4, <1>5 DEF Bound, Enabled, Range

\* A binding that is inserted is one more.
LEMMA Inserted ==
  ASSUME NEW b \in Seq(Binding), NEW x \in Binding, NEW i \in DOMAIN b
  PROVE  /\ InsertAt(b, i, x) \in Seq(Binding)
         /\ Bound(InsertAt(b, i, x)) = Bound(b) \union {x.slug}
         /\ Enabled(InsertAt(b, i, x)) = Enabled(b) \union Enabled(<<x>>)
  <1>1. Len(b) \in Nat /\ DOMAIN b = 1 .. Len(b) /\ \A j \in DOMAIN b : b[j] \in Binding
    BY LenProperties, ElementOfSeq
  <1> DEFINE p == SubSeq(b, 1, i - 1)
             q == SubSeq(b, i, Len(b))
  <1>2. p \in Seq(Binding) /\ q \in Seq(Binding)
    BY <1>1, SubSeqProperties
  <1>3. b = p \o q
    <2>1. 1 \in 1 .. Len(b) + 1 /\ i - 1 \in 1 - 1 .. Len(b) /\ Len(b) \in i - 1 .. Len(b)
          /\ (i - 1) + 1 = i
      BY <1>1
    <2>2. SubSeq(b, 1, i - 1) \o SubSeq(b, (i - 1) + 1, Len(b)) = SubSeq(b, 1, Len(b))
      BY <2>1, ConcatAdjacentSubSeq
    <2>. QED  BY <2>1, <2>2, SubSeqFull
  <1>4. InsertAt(b, i, x) = (p \o <<x>>) \o q
    BY DEF InsertAt
  <1> HIDE DEF p, q
  <1>5. Bound(b) = Bound(p) \union Bound(q) /\ Enabled(b) = Enabled(p) \union Enabled(q)
    BY <1>2, <1>3, Concatenated
  <1>6. /\ p \o <<x>> \in Seq(Binding)
        /\ Bound(p \o <<x>>) = Bound(p) \union {x.slug}
        /\ Enabled(p \o <<x>>) = Enabled(p) \union Enabled(<<x>>)
    <2>1. <<x>> \in Seq(Binding) /\ Bound(<<x>>) = {x.slug}
      BY Single
    <2>2. /\ p \o <<x>> \in Seq(Binding)
          /\ Bound(p \o <<x>>) = Bound(p) \union Bound(<<x>>)
          /\ Enabled(p \o <<x>>) = Enabled(p) \union Enabled(<<x>>)
      BY <1>2, <2>1, Concatenated
    <2>. QED  BY <2>1, <2>2
  <1>7. /\ (p \o <<x>>) \o q \in Seq(Binding)
        /\ Bound((p \o <<x>>) \o q) = (Bound(p) \union {x.slug}) \union Bound(q)
        /\ Enabled((p \o <<x>>) \o q) = (Enabled(p) \union Enabled(<<x>>)) \union Enabled(q)
    BY <1>2, <1>6, Concatenated
  <1>. QED  BY <1>4, <1>5, <1>7

LEMMA Appended ==
  ASSUME NEW b \in Seq(Binding), NEW x \in Binding
  PROVE  /\ Append(b, x) \in Seq(Binding)
         /\ Bound(Append(b, x)) = Bound(b) \union {x.slug}
         /\ Enabled(Append(b, x)) = Enabled(b) \union Enabled(<<x>>)
  <1>1. <<x>> \in Seq(Binding) /\ Bound(<<x>>) = {x.slug}
    BY Single
  <1>2. Append(b, x) = b \o <<x>>
    BY AppendIsConcat
  <1>3. /\ b \o <<x>> \in Seq(Binding)
        /\ Bound(b \o <<x>>) = Bound(b) \union Bound(<<x>>)
        /\ Enabled(b \o <<x>>) = Enabled(b) \union Enabled(<<x>>)
    BY <1>1, Concatenated
  <1>. QED  BY <1>1, <1>2, <1>3

LEMMA Removed ==
  ASSUME NEW b \in Seq(Binding), NEW i \in DOMAIN b
  PROVE  RemoveAt(b, i) \in Seq(Binding)
  <1>1. Len(b) \in Nat /\ DOMAIN b = 1 .. Len(b) /\ \A j \in DOMAIN b : b[j] \in Binding
    BY LenProperties, ElementOfSeq
  <1>2. SubSeq(b, 1, i - 1) \in Seq(Binding) /\ SubSeq(b, i + 1, Len(b)) \in Seq(Binding)
    BY <1>1, SubSeqProperties
  <1>. QED  BY <1>2, Concatenated DEF RemoveAt

LEMMA Flipped ==
  ASSUME NEW b \in Seq(Binding), NEW i \in DOMAIN b
  PROVE  [b EXCEPT ![i].on = ~@] \in Seq(Binding)
  <1>1. Len(b) \in Nat /\ DOMAIN b = 1 .. Len(b) /\ b[i] \in Binding
    BY LenProperties, ElementOfSeq
  <1>2. [b[i] EXCEPT !.on = ~@] \in Binding
    BY <1>1 DEF Binding
  <1>3. [b EXCEPT ![i] = [b[i] EXCEPT !.on = ~@]] \in Seq(Binding)
    BY <1>1, <1>2, ExceptSeq
  <1>. QED  BY <1>3

-----------------------------------------------------------------------------
(* Databases *)

LEMMA Fields ==
  ASSUME NEW d \in Databases
  PROVE  /\ \A s \in Scopes, k \in Slugs :
               d.asset[s][k] \in AssetRows \union {Absent} /\ d.mark[s][k] \in Marks
         /\ \A t \in Targets : d.target[t] \in TargetRows \union {Absent} /\ d.targetMark[t] \in Marks
         /\ \A g \in Engines : d.engine[g] \in EngineRows \union {Absent} /\ d.engineMark[g] \in Marks
         /\ d.repo \in Nat
  BY DEF Databases

LEMMA RowFields ==
  /\ Absent \notin AssetRows /\ Absent \notin TargetRows /\ Absent \notin EngineRows
  /\ \A r \in AssetRows : r.on \in BOOLEAN /\ r.rev \in Nat
  /\ \A r \in EngineRows : r.on \in BOOLEAN /\ r.rev \in Nat
  /\ \A r \in TargetRows : /\ r.on \in BOOLEAN /\ r.help \in BOOLEAN /\ r.rev \in Nat
                           /\ r.permission \in Permissions /\ r.bound \in Seq(Binding)
  BY AbsentAssumption DEF AssetRows, TargetRows, EngineRows, Binding

\* One field of a command or of the profile changes.
LEMMA RowUpdates ==
  ASSUME NEW r \in TargetRows
  PROVE  /\ \A x \in BOOLEAN : LET q == [r EXCEPT !.on = x] IN
               q \in TargetRows /\ q.on = x /\ q.help = r.help /\ q.permission = r.permission
               /\ q.bound = r.bound /\ q.rev = r.rev
         /\ \A x \in BOOLEAN : LET q == [r EXCEPT !.help = x] IN
               q \in TargetRows /\ q.on = r.on /\ q.help = x /\ q.permission = r.permission
               /\ q.bound = r.bound /\ q.rev = r.rev
         /\ \A x \in Permissions : LET q == [r EXCEPT !.permission = x] IN
               q \in TargetRows /\ q.on = r.on /\ q.help = r.help /\ q.permission = x
               /\ q.bound = r.bound /\ q.rev = r.rev
         /\ \A x \in Seq(Binding) : LET q == [r EXCEPT !.bound = x] IN
               q \in TargetRows /\ q.on = r.on /\ q.help = r.help /\ q.permission = r.permission
               /\ q.bound = x /\ q.rev = r.rev
         /\ \A x \in Nat : LET q == [r EXCEPT !.rev = x] IN
               q \in TargetRows /\ q.on = r.on /\ q.help = r.help /\ q.permission = r.permission
               /\ q.bound = r.bound /\ q.rev = x
         /\ LET q == Bumped(r) IN
               q \in TargetRows /\ q.on = r.on /\ q.help = r.help /\ q.permission = r.permission
               /\ q.bound = r.bound /\ q.rev = r.rev + 1
  <1>1. \A x \in BOOLEAN : LET q == [r EXCEPT !.on = x] IN
           q \in TargetRows /\ q.on = x /\ q.help = r.help /\ q.permission = r.permission
           /\ q.bound = r.bound /\ q.rev = r.rev
    BY DEF TargetRows, Bumped, Binding
  <1>2. \A x \in BOOLEAN : LET q == [r EXCEPT !.help = x] IN
           q \in TargetRows /\ q.on = r.on /\ q.help = x /\ q.permission = r.permission
           /\ q.bound = r.bound /\ q.rev = r.rev
    BY DEF TargetRows, Bumped, Binding
  <1>3. \A x \in Permissions : LET q == [r EXCEPT !.permission = x] IN
           q \in TargetRows /\ q.on = r.on /\ q.help = r.help /\ q.permission = x
           /\ q.bound = r.bound /\ q.rev = r.rev
    BY DEF TargetRows, Bumped, Binding
  <1>4. \A x \in Seq(Binding) : LET q == [r EXCEPT !.bound = x] IN
           q \in TargetRows /\ q.on = r.on /\ q.help = r.help /\ q.permission = r.permission
           /\ q.bound = x /\ q.rev = r.rev
    BY DEF TargetRows, Bumped, Binding
  <1>5. \A x \in Nat : LET q == [r EXCEPT !.rev = x] IN
           q \in TargetRows /\ q.on = r.on /\ q.help = r.help /\ q.permission = r.permission
           /\ q.bound = r.bound /\ q.rev = x
    BY DEF TargetRows, Bumped, Binding
  <1>6. LET q == Bumped(r) IN
           q \in TargetRows /\ q.on = r.on /\ q.help = r.help /\ q.permission = r.permission
           /\ q.bound = r.bound /\ q.rev = r.rev + 1
    BY DEF TargetRows, Bumped, Binding
  <1>. QED  BY <1>1, <1>2, <1>3, <1>4, <1>5, <1>6

LEMMA Rebound ==
  ASSUME NEW r \in TargetRows, NEW b \in Seq(Binding)
  PROVE  LET q == Bumped([r EXCEPT !.bound = b]) IN
         q \in TargetRows /\ q.on = r.on /\ q.help = r.help /\ q.permission = r.permission
         /\ q.bound = b /\ q.rev = r.rev + 1
  <1> DEFINE x == [r EXCEPT !.bound = b]
  <1>1. x \in TargetRows /\ x.on = r.on /\ x.help = r.help /\ x.permission = r.permission
        /\ x.bound = b /\ x.rev = r.rev
    BY DEF TargetRows, Binding
  <1> HIDE DEF x
  <1>2. Bumped(x) \in TargetRows /\ Bumped(x).on = x.on /\ Bumped(x).help = x.help
        /\ Bumped(x).permission = x.permission /\ Bumped(x).bound = x.bound
        /\ Bumped(x).rev = x.rev + 1
    BY <1>1, RowUpdates
  <1>. QED  BY <1>1, <1>2 DEF x

LEMMA Rewritten ==
  ASSUME NEW r \in AssetRows, NEW text \in {"shipped", "legacy", "own"}
  PROVE  LET q == Bumped([r EXCEPT !.text = text]) IN q \in AssetRows /\ q.rev = r.rev + 1
  <1> DEFINE x == [r EXCEPT !.text = text]
  <1>1. x \in AssetRows /\ x.rev = r.rev
    BY DEF AssetRows
  <1> HIDE DEF x
  <1>2. Bumped(x) \in AssetRows /\ Bumped(x).rev = x.rev + 1
    BY <1>1 DEF AssetRows, Bumped
  <1>. QED  BY <1>1, <1>2 DEF x

LEMMA NewIsRow ==
  ASSUME NEW on \in BOOLEAN, NEW text \in {"shipped", "legacy", "own"}
  PROVE  New(text, on) \in AssetRows
  BY DEF New, AssetRows

KeepsAssets(d, e) == e.asset = d.asset /\ e.mark = d.mark
KeepsTargets(d, e) == e.target = d.target /\ e.targetMark = d.targetMark
KeepsEngines(d, e) == e.engine = d.engine /\ e.engineMark = d.engineMark

\* One row of the assets, of the targets or of the engines is written.
AssetPut(d, e, s, k, r, m) ==
    /\ e \in Databases /\ KeepsTargets(d, e) /\ KeepsEngines(d, e)
    /\ \A z \in Scopes, x \in Slugs :
          IF z = s /\ x = k THEN e.asset[z][x] = r /\ e.mark[z][x] = m
          ELSE e.asset[z][x] = d.asset[z][x] /\ e.mark[z][x] = d.mark[z][x]
    /\ e.repo = IF s = "repository" THEN d.repo + 1 ELSE d.repo
TargetSet(d, e, t, r, m) ==
    /\ e \in Databases /\ KeepsAssets(d, e) /\ KeepsEngines(d, e)
    /\ \A u \in Targets :
          IF u = t THEN e.target[u] = r /\ e.targetMark[u] = m
          ELSE e.target[u] = d.target[u] /\ e.targetMark[u] = d.targetMark[u]
TargetPut(d, e, t, r, m) == TargetSet(d, e, t, r, m) /\ e.repo = d.repo + 1
EnginePut(d, e, g, r, m) ==
    /\ e \in Databases /\ KeepsAssets(d, e) /\ KeepsTargets(d, e)
    /\ \A h \in Engines :
          IF h = g THEN e.engine[h] = r /\ e.engineMark[h] = m
          ELSE e.engine[h] = d.engine[h] /\ e.engineMark[h] = d.engineMark[h]
    /\ e.repo = d.repo

LEMMA Updated ==
  ASSUME NEW d \in Databases
  PROVE  /\ \A x \in [Scopes -> [Slugs -> AssetRows \union {Absent}]] :
               [d EXCEPT !.asset = x] \in Databases
         /\ \A x \in [Scopes -> [Slugs -> Marks]] : [d EXCEPT !.mark = x] \in Databases
         /\ \A x \in [Targets -> TargetRows \union {Absent}] : [d EXCEPT !.target = x] \in Databases
         /\ \A x \in [Targets -> Marks] : [d EXCEPT !.targetMark = x] \in Databases
         /\ \A x \in [Engines -> EngineRows \union {Absent}] : [d EXCEPT !.engine = x] \in Databases
         /\ \A x \in [Engines -> Marks] : [d EXCEPT !.engineMark = x] \in Databases
         /\ \A x \in Nat : [d EXCEPT !.repo = x] \in Databases
  <1>1. \A x \in [Scopes -> [Slugs -> AssetRows \union {Absent}]] :
           [d EXCEPT !.asset = x] \in Databases
    BY DEF Databases
  <1>2. \A x \in [Scopes -> [Slugs -> Marks]] : [d EXCEPT !.mark = x] \in Databases
    BY DEF Databases
  <1>3. \A x \in [Targets -> TargetRows \union {Absent}] : [d EXCEPT !.target = x] \in Databases
    BY DEF Databases
  <1>4. \A x \in [Targets -> Marks] : [d EXCEPT !.targetMark = x] \in Databases
    BY DEF Databases
  <1>5. \A x \in [Engines -> EngineRows \union {Absent}] : [d EXCEPT !.engine = x] \in Databases
    BY DEF Databases
  <1>6. \A x \in [Engines -> Marks] : [d EXCEPT !.engineMark = x] \in Databases
    BY DEF Databases
  <1>7. \A x \in Nat : [d EXCEPT !.repo = x] \in Databases
    BY DEF Databases
  <1>. QED  BY <1>1, <1>2, <1>3, <1>4, <1>5, <1>6, <1>7

LEMMA PutAssetIs ==
  ASSUME NEW d \in Databases, NEW s \in Scopes, NEW k \in Slugs,
         NEW r \in AssetRows \union {Absent}, NEW m \in Marks
  PROVE  AssetPut(d, PutAsset(d, s, k, r, m), s, k, r, m)
  <1> DEFINE f == [d EXCEPT !.asset[s][k] = r]
             g == [f EXCEPT !.mark[s][k] = m]
             e == [g EXCEPT !.repo = @ + 1]
  <1>1. PutAsset(d, s, k, r, m) = IF s = "repository" THEN e ELSE g
    BY DEF PutAsset, putMarker, bumpRepository
  <1>2. f \in Databases
    <2>1. [d.asset EXCEPT ![s][k] = r] \in [Scopes -> [Slugs -> AssetRows \union {Absent}]]
      <3>1. d.asset \in [Scopes -> [Slugs -> AssetRows \union {Absent}]]
        BY DEF Databases
      <3>2. [d.asset[s] EXCEPT ![k] = r] \in [Slugs -> AssetRows \union {Absent}]
        BY <3>1
      <3>. QED  BY <3>1, <3>2
    <2>. QED  BY <2>1, Updated
  <1>3. g \in Databases
    <2> HIDE DEF f
    <2>1. [f.mark EXCEPT ![s][k] = m] \in [Scopes -> [Slugs -> Marks]]
      <3>1. f.mark \in [Scopes -> [Slugs -> Marks]]
        BY <1>2 DEF Databases
      <3>2. [f.mark[s] EXCEPT ![k] = m] \in [Slugs -> Marks]
        BY <3>1
      <3>. QED  BY <3>1, <3>2
    <2>. QED  BY <1>2, <2>1, Updated
  <1>4. e \in Databases
    <2> HIDE DEF g
    <2>1. g.repo + 1 \in Nat
      BY <1>3, Fields
    <2>. QED  BY <1>3, <2>1, Updated
  <1>5. AssetPut(d, g, s, k, r, m) \/ s = "repository"
    BY <1>3 DEF AssetPut, KeepsTargets, KeepsEngines, Databases
  <1>6. AssetPut(d, e, s, k, r, m) \/ s # "repository"
    BY <1>4 DEF AssetPut, KeepsTargets, KeepsEngines, Databases
  <1>. QED  BY <1>1, <1>5, <1>6

LEMMA PutTargetIs ==
  ASSUME NEW d \in Databases, NEW t \in Targets, NEW r \in TargetRows \union {Absent}, NEW m \in Marks
  PROVE  TargetPut(d, PutTarget(d, t, r, m), t, r, m)
  <1> DEFINE f == [d EXCEPT !.target[t] = r]
             g == [f EXCEPT !.targetMark[t] = m]
             e == [g EXCEPT !.repo = @ + 1]
  <1>1. PutTarget(d, t, r, m) = e
    BY DEF PutTarget, bumpRepository
  <1>2. f \in Databases
    <2>1. [d.target EXCEPT ![t] = r] \in [Targets -> TargetRows \union {Absent}]
      BY DEF Databases
    <2>. QED  BY <2>1, Updated
  <1>3. g \in Databases
    <2> HIDE DEF f
    <2>1. [f.targetMark EXCEPT ![t] = m] \in [Targets -> Marks]
      BY <1>2 DEF Databases
    <2>. QED  BY <1>2, <2>1, Updated
  <1>4. e \in Databases
    <2> HIDE DEF g
    <2>1. g.repo + 1 \in Nat
      BY <1>3, Fields
    <2>. QED  BY <1>3, <2>1, Updated
  <1>5. TargetPut(d, e, t, r, m)
    BY <1>4 DEF TargetPut, TargetSet, KeepsAssets, KeepsEngines, Databases
  <1>. QED  BY <1>1, <1>5

LEMMA SetTargetIs ==
  ASSUME NEW d \in Databases, NEW t \in Targets, NEW r \in TargetRows
  PROVE  LET e == [d EXCEPT !.target[t] = r] IN
         TargetSet(d, e, t, r, d.targetMark[t]) /\ e.repo = d.repo
  <1> DEFINE e == [d EXCEPT !.target[t] = r]
  <1>1. e \in Databases
    BY DEF Databases
  <1>. QED  BY <1>1 DEF TargetSet, KeepsAssets, KeepsEngines, Databases

LEMMA SaveEngineIs ==
  ASSUME NEW d \in Databases, NEW g \in Engines, NEW r \in EngineRows
  PROVE  /\ Bumped(r) \in EngineRows
         /\ EnginePut(d, SaveEngine(d, g, r), g, Bumped(r), Owner(r.on))
  <1>1. Bumped(r) \in EngineRows
    BY DEF Bumped, EngineRows
  <1>2. Owner(r.on) \in Marks
    BY DEF Owner, Marks
  <1> DEFINE e == SaveEngine(d, g, r)
  <1>3. e \in Databases
    BY <1>1, <1>2 DEF SaveEngine, Databases
  <1>. QED  BY <1>1, <1>3 DEF SaveEngine, EnginePut, KeepsAssets, KeepsTargets, Databases

-----------------------------------------------------------------------------
(* Maintenance: what a bootstrap and a migration may do to a row *)

\* A row of the assets is filled in where nobody deleted it, or has a text an
\* older release shipped; a target is created where nobody deleted it, is still
\* PatchPaw's, or has a layout PatchPaw deployed; an engine is filled in.
KeptAsset(d, e, s, k) == e.asset[s][k] = d.asset[s][k] /\ e.mark[s][k] = d.mark[s][k]
FilledAsset(d, e, s, k) ==
    /\ e.asset[s][k] \in AssetRows
    /\ s = "repository" => e.repo > d.repo
    /\ \/ d.asset[s][k] = Absent /\ d.mark[s][k] \notin Gone
       \/ /\ d.asset[s][k] # Absent /\ d.asset[s][k].on /\ d.asset[s][k].text = "legacy"
          /\ e.asset[s][k].rev > d.asset[s][k].rev
KeptTarget(d, e, t) == e.target[t] = d.target[t] /\ e.targetMark[t] = d.targetMark[t]
ConvergedTarget(d, e, t) ==
    /\ e.target[t] \in TargetRows
    /\ d.target[t] # Absent => e.target[t].rev > d.target[t].rev
    /\ "retry" \in BoundTo(e.target[t])
       => d.target[t] # Absent /\ "retry" \in BoundTo(d.target[t])
    /\ \/ d.target[t] = Absent /\ d.targetMark[t] \notin Gone /\ e.targetMark[t] = "seeded"
       \/ d.targetMark[t] = "seeded" /\ e.targetMark[t] = "seeded"
       \/ /\ d.target[t] # Absent /\ d.target[t].bound \in Historical(t, d.target[t].permission)
          /\ d.targetMark[t] \notin Gone /\ e.targetMark[t] = d.targetMark[t]
KeptEngine(d, e, g) == e.engine[g] = d.engine[g] /\ e.engineMark[g] = d.engineMark[g]
FilledEngine(d, e, g) ==
    d.engine[g] = Absent /\ e.engine[g] \in EngineRows /\ e.engineMark[g] = "seeded"

Maintains(d, e) ==
    /\ e \in Databases /\ e.repo >= d.repo
    /\ \A s \in Scopes, k \in Slugs : KeptAsset(d, e, s, k) \/ FilledAsset(d, e, s, k)
    /\ \A t \in Targets : KeptTarget(d, e, t) \/ ConvergedTarget(d, e, t)
    /\ \A g \in Engines : KeptEngine(d, e, g) \/ FilledEngine(d, e, g)

LEMMA MaintainsNothing == ASSUME NEW d \in Databases PROVE Maintains(d, d)
  BY Fields DEF Maintains, KeptAsset, KeptTarget, KeptEngine

\* One operator after another maintains as well.
LEMMA MaintainsThen ==
  ASSUME NEW d \in Databases, NEW e, NEW f, Maintains(d, e), Maintains(e, f)
  PROVE  Maintains(d, f)
  <1>1. e \in Databases /\ f \in Databases /\ d.repo \in Nat /\ e.repo \in Nat /\ f.repo \in Nat
        /\ d.repo <= e.repo /\ e.repo <= f.repo
    BY Fields DEF Maintains
  <1>2. ASSUME NEW s \in Scopes, NEW k \in Slugs
        PROVE  KeptAsset(d, f, s, k) \/ FilledAsset(d, f, s, k)
    <2>1. /\ KeptAsset(d, e, s, k) \/ FilledAsset(d, e, s, k)
          /\ KeptAsset(e, f, s, k) \/ FilledAsset(e, f, s, k)
      BY DEF Maintains
    <2>2. CASE KeptAsset(d, e, s, k) \/ KeptAsset(e, f, s, k)
      BY <1>1, <2>1, <2>2 DEF KeptAsset, FilledAsset
    <2>3. CASE FilledAsset(d, e, s, k) /\ FilledAsset(e, f, s, k)
      <3>1. d.asset[s][k] # Absent => d.asset[s][k].rev \in Nat
            /\ e.asset[s][k].rev \in Nat /\ f.asset[s][k].rev \in Nat
        BY <1>1, <2>3, Fields, RowFields DEF FilledAsset
      <3>2. e.asset[s][k] # Absent
        BY <2>3, RowFields DEF FilledAsset
      <3>. QED  BY <1>1, <2>3, <3>1, <3>2 DEF FilledAsset
    <2>. QED  BY <2>1, <2>2, <2>3
  <1>3. ASSUME NEW t \in Targets
        PROVE  KeptTarget(d, f, t) \/ ConvergedTarget(d, f, t)
    <2>1. /\ KeptTarget(d, e, t) \/ ConvergedTarget(d, e, t)
          /\ KeptTarget(e, f, t) \/ ConvergedTarget(e, f, t)
      BY DEF Maintains
    <2>2. CASE KeptTarget(d, e, t) \/ KeptTarget(e, f, t)
      BY <1>1, <2>1, <2>2 DEF KeptTarget, ConvergedTarget
    <2>3. CASE ConvergedTarget(d, e, t) /\ ConvergedTarget(e, f, t)
      <3>1. d.target[t] # Absent => d.target[t].rev \in Nat
        BY <1>1, Fields, RowFields
      <3>2. e.target[t].rev \in Nat /\ f.target[t].rev \in Nat /\ e.target[t] # Absent
        BY <2>3, RowFields DEF ConvergedTarget
      <3>. QED  BY <1>1, <2>3, <3>1, <3>2 DEF ConvergedTarget, Gone
    <2>. QED  BY <2>1, <2>2, <2>3
  <1>4. ASSUME NEW g \in Engines
        PROVE  KeptEngine(d, f, g) \/ FilledEngine(d, f, g)
    <2>1. EngineRows \intersect {Absent} = {}
      BY RowFields
    <2>. QED  BY <2>1 DEF Maintains, KeptEngine, FilledEngine
  <1>. QED  BY <1>1, <1>2, <1>3, <1>4 DEF Maintains

\* The invariant of a database.
Sound(d) == d \in Databases /\ Marked(d) /\ Bindings(d) /\ Owned(d)

\* Only the assets and the engines are maintained: a sound database stays so.
LEMMA FilledIsSound ==
  ASSUME NEW d, NEW e, Sound(d), Maintains(d, e), KeepsTargets(d, e)
  PROVE  Sound(e)
  <1>1. d \in Databases /\ e \in Databases /\ d.repo \in Nat /\ e.repo \in Nat /\ d.repo <= e.repo
    BY Fields DEF Sound, Maintains
  <1>2. /\ \A k \in Slugs : d.asset["repository"][k] # Absent => e.asset["repository"][k] # Absent
        /\ \A g \in Engines : d.engine[g] # Absent => e.engine[g] # Absent
        /\ \A g \in Engines : e.engine[g] = Absent => e.engineMark[g] = d.engineMark[g]
    BY RowFields DEF Maintains, KeptAsset, FilledAsset, KeptEngine, FilledEngine, Scopes
  <1>3. Marked(e)
    BY <1>1, <1>2 DEF Sound, Marked, KeepsTargets
  <1>4. Bindings(e)
    <2>1. \A t \in Targets : d.target[t] # Absent => BoundTo(d.target[t]) \subseteq Slugs
      BY <1>1, BoundIs, Fields, RowFields, EnabledIsBound DEF Slugs
    <2>. QED  BY <1>2, <2>1 DEF Sound, Bindings, Holds, KeepsTargets, Slugs
  <1>5. Owned(e)
    BY <1>2 DEF Sound, Owned, Deploys, KeepsTargets
  <1>. QED  BY <1>1, <1>3, <1>4, <1>5 DEF Sound

-----------------------------------------------------------------------------
(* The bootstrap *)

LEMMA SeedPublicMaintains ==
  ASSUME NEW d \in Databases
  PROVE  Maintains(d, SeedPublic(d)) /\ KeepsTargets(d, SeedPublic(d))
  <1> DEFINE missing == {k \in Slugs : d.asset["public"][k] = Absent /\ d.mark["public"][k] \notin Gone}
             assets == [k \in Slugs |-> IF k \in missing THEN New("shipped", TRUE)
                                        ELSE d.asset["public"][k]]
             marks == [k \in Slugs |-> IF k \in missing THEN "seeded" ELSE d.mark["public"][k]]
             f == [d EXCEPT !.asset["public"] = assets]
             e == [f EXCEPT !.mark["public"] = marks]
  <1>1. SeedPublic(d) = e
    BY DEF SeedPublic
  <1>2. assets \in [Slugs -> AssetRows \union {Absent}] /\ marks \in [Slugs -> Marks]
    BY Fields, NewIsRow DEF Marks, Scopes
  <1>3. f \in Databases
    <2> HIDE DEF assets, marks
    <2>1. [d.asset EXCEPT !["public"] = assets] \in [Scopes -> [Slugs -> AssetRows \union {Absent}]]
      BY <1>2 DEF Databases
    <2>. QED  BY <2>1, Updated
  <1>4. e \in Databases
    <2>1. f.mark = d.mark
      BY DEF Databases
    <2> HIDE DEF assets, marks, f
    <2>2. [f.mark EXCEPT !["public"] = marks] \in [Scopes -> [Slugs -> Marks]]
      BY <1>2, <1>3 DEF Databases
    <2>. QED  BY <1>3, <2>2, Updated
  <1>5. /\ e.target = d.target /\ e.targetMark = d.targetMark
        /\ e.engine = d.engine /\ e.engineMark = d.engineMark /\ e.repo = d.repo
        /\ \A s \in Scopes, k \in Slugs :
              IF s = "public" THEN e.asset[s][k] = assets[k] /\ e.mark[s][k] = marks[k]
              ELSE e.asset[s][k] = d.asset[s][k] /\ e.mark[s][k] = d.mark[s][k]
    <2> HIDE DEF assets, marks
    <2>. QED  BY DEF Databases
  <1> HIDE DEF e, f
  <1>6. \A s \in Scopes, k \in Slugs : KeptAsset(d, e, s, k) \/ FilledAsset(d, e, s, k)
    <2>1. New("shipped", TRUE) \in AssetRows
      BY NewIsRow
    <2>2. ASSUME NEW k \in missing PROVE FilledAsset(d, e, "public", k)
      BY <1>5, <2>1, <2>2 DEF FilledAsset, Scopes
    <2>3. ASSUME NEW k \in Slugs \ missing PROVE KeptAsset(d, e, "public", k)
      BY <1>5, <2>3 DEF KeptAsset, Scopes
    <2>4. \A k \in Slugs : KeptAsset(d, e, "repository", k)
      BY <1>5 DEF KeptAsset, Scopes
    <2>. QED  BY <2>2, <2>3, <2>4 DEF Scopes
  <1>7. e.repo >= d.repo
    BY <1>5, Fields
  <1>. QED  BY <1>1, <1>4, <1>5, <1>6, <1>7 DEF Maintains, KeptTarget, KeptEngine, KeepsTargets

LEMMA SeedEnginesMaintains ==
  ASSUME NEW d \in Databases
  PROVE  /\ Maintains(d, SeedEngines(d)) /\ KeepsTargets(d, SeedEngines(d))
         /\ \A g \in Engines : SeedEngines(d).engine[g] # Absent
  <1> DEFINE row == [on |-> TRUE, ref |-> "env", rev |-> 1]
             engines == [g \in Engines |-> IF d.engine[g] = Absent THEN row ELSE d.engine[g]]
             marks == [g \in Engines |-> IF d.engine[g] = Absent THEN "seeded" ELSE d.engineMark[g]]
             f == [d EXCEPT !.engine = engines]
             e == [f EXCEPT !.engineMark = marks]
  <1>1. SeedEngines(d) = e
    BY DEF SeedEngines
  <1>2. row \in EngineRows
    BY DEF EngineRows
  <1>3. engines \in [Engines -> EngineRows \union {Absent}] /\ marks \in [Engines -> Marks]
    <2> HIDE DEF row
    <2>. QED  BY <1>2, Fields DEF Marks
  <1>4. f \in Databases
    BY <1>3, Updated
  <1>5. e \in Databases
    BY <1>3, <1>4, Updated
  <1>6. /\ e.target = d.target /\ e.targetMark = d.targetMark
        /\ e.asset = d.asset /\ e.mark = d.mark /\ e.repo = d.repo
        /\ e.engine = engines /\ e.engineMark = marks
    <2> HIDE DEF engines, marks
    <2>. QED  BY DEF Databases
  <1> HIDE DEF e, f
  <1>7. \A g \in Engines : (KeptEngine(d, e, g) \/ FilledEngine(d, e, g)) /\ e.engine[g] # Absent
    <2> HIDE DEF row
    <2>. QED  BY <1>2, <1>6, RowFields DEF KeptEngine, FilledEngine
  <1>8. e.repo >= d.repo
    BY <1>6, Fields
  <1>. QED  BY <1>1, <1>5, <1>6, <1>7, <1>8 DEF Maintains, KeptTarget, KeptAsset, KeepsTargets

LEMMA ManageRepositoryMaintains ==
  ASSUME NEW d \in Databases
  PROVE  /\ Maintains(d, ManageRepository(d)) /\ KeepsTargets(d, ManageRepository(d))
         /\ ManageRepository(d).repo > 0 /\ ManageRepository(d).engine = d.engine
  <1> DEFINE e == [d EXCEPT !.repo = 1]
  <1>1. e \in Databases
    BY Updated
  <1>2. d.repo = 0 => Maintains(d, e) /\ KeepsTargets(d, e) /\ e.repo > 0 /\ e.engine = d.engine
    <2>1. e.repo = 1 /\ e.asset = d.asset /\ e.mark = d.mark /\ e.target = d.target
          /\ e.targetMark = d.targetMark /\ e.engine = d.engine /\ e.engineMark = d.engineMark
      BY DEF Databases
    <2> HIDE DEF e
    <2>. QED  BY <1>1, <2>1 DEF Maintains, KeptTarget, KeptAsset, KeptEngine, KeepsTargets
  <1>3. d.repo # 0 => d.repo > 0
    BY Fields
  <1>. QED  BY <1>2, <1>3, MaintainsNothing DEF ManageRepository, KeepsTargets

LEMMA CopyAssetsMaintains ==
  ASSUME NEW d \in Databases
  PROVE  /\ Maintains(d, CopyAssets(d)) /\ KeepsTargets(d, CopyAssets(d))
         /\ CopyAssets(d).engine = d.engine
  <1> DEFINE copies == {k \in Have(d, "public") \intersect NewRuns :
                           d.asset["repository"][k] = Absent /\ d.mark["repository"][k] \notin Gone}
             assets == [k \in Slugs |-> IF k \in copies
                          THEN New(d.asset["public"][k].text, d.asset["public"][k].on)
                          ELSE d.asset["repository"][k]]
             marks == [k \in Slugs |-> IF k \in copies THEN "seeded" ELSE d.mark["repository"][k]]
             f == [d EXCEPT !.asset["repository"] = assets]
             g == [f EXCEPT !.mark["repository"] = marks]
             e == [g EXCEPT !.repo = @ + 1]
  <1>1. CopyAssets(d) = IF copies = {} THEN d ELSE e
    BY DEF CopyAssets, bumpRepository
  <1>2. \A k \in copies : New(d.asset["public"][k].text, d.asset["public"][k].on) \in AssetRows
    <2>1. \A k \in copies : d.asset["public"][k] \in AssetRows
      BY Fields DEF Have, Scopes
    <2>. QED  BY <2>1 DEF New, AssetRows
  <1>3. assets \in [Slugs -> AssetRows \union {Absent}] /\ marks \in [Slugs -> Marks]
    <2> HIDE DEF copies
    <2>. QED  BY <1>2, Fields DEF Marks, Scopes
  <1>4. f \in Databases
    <2> HIDE DEF assets, marks
    <2>1. [d.asset EXCEPT !["repository"] = assets]
             \in [Scopes -> [Slugs -> AssetRows \union {Absent}]]
      BY <1>3 DEF Databases
    <2>. QED  BY <2>1, Updated
  <1>5. g \in Databases
    <2> HIDE DEF assets, marks, f
    <2>1. [f.mark EXCEPT !["repository"] = marks] \in [Scopes -> [Slugs -> Marks]]
      BY <1>3, <1>4 DEF Databases
    <2>. QED  BY <1>4, <2>1, Updated
  <1>6. e \in Databases
    <2> HIDE DEF g
    <2>. QED  BY <1>5, Fields, Updated
  <1>7. /\ e.target = d.target /\ e.targetMark = d.targetMark
        /\ e.engine = d.engine /\ e.engineMark = d.engineMark /\ e.repo = d.repo + 1
        /\ \A s \in Scopes, k \in Slugs :
              IF s = "repository" THEN e.asset[s][k] = assets[k] /\ e.mark[s][k] = marks[k]
              ELSE e.asset[s][k] = d.asset[s][k] /\ e.mark[s][k] = d.mark[s][k]
    <2> HIDE DEF assets, marks
    <2>. QED  BY DEF Databases
  <1> HIDE DEF e, f, g
  <1>8. e.repo > d.repo /\ e.repo >= d.repo
    BY <1>7, Fields
  <1>9. \A s \in Scopes, k \in Slugs : KeptAsset(d, e, s, k) \/ FilledAsset(d, e, s, k)
    <2>1. ASSUME NEW k \in copies PROVE FilledAsset(d, e, "repository", k)
      <3>1. k \in Slugs /\ d.asset["repository"][k] = Absent /\ d.mark["repository"][k] \notin Gone
        BY <2>1 DEF Have
      <3>2. e.asset["repository"][k] = New(d.asset["public"][k].text, d.asset["public"][k].on)
        BY <1>7, <2>1, <3>1 DEF Scopes
      <3>. QED  BY <1>2, <1>8, <2>1, <3>1, <3>2 DEF FilledAsset
    <2>2. ASSUME NEW k \in Slugs \ copies PROVE KeptAsset(d, e, "repository", k)
      BY <1>7, <2>2 DEF KeptAsset, Scopes
    <2>3. \A k \in Slugs : KeptAsset(d, e, "public", k)
      BY <1>7 DEF KeptAsset, Scopes
    <2>. QED  BY <2>1, <2>2, <2>3 DEF Scopes
  <1>10. Maintains(d, e) /\ KeepsTargets(d, e) /\ e.engine = d.engine
    BY <1>6, <1>7, <1>8, <1>9 DEF Maintains, KeptTarget, KeptEngine, KeepsTargets
  <1>. QED  BY <1>1, <1>10, MaintainsNothing DEF KeepsTargets

LEMMA PreparedMaintains ==
  ASSUME NEW d, Sound(d)
  PROVE  /\ Maintains(d, Prepared(d)) /\ KeepsTargets(d, Prepared(d)) /\ Sound(Prepared(d))
         /\ \A g \in Engines : Prepared(d).engine[g] # Absent
  <1> DEFINE a == SeedPublic(d)
             b == SeedEngines(a)
             c == ManageRepository(b)
             e == CopyAssets(c)
  <1>1. d \in Databases
    BY DEF Sound
  <1>2. Maintains(d, a) /\ KeepsTargets(d, a) /\ a \in Databases
    BY <1>1, SeedPublicMaintains DEF Maintains
  <1> HIDE DEF a
  <1>3. Maintains(a, b) /\ KeepsTargets(a, b) /\ b \in Databases /\ \A g \in Engines : b.engine[g] # Absent
    BY <1>2, SeedEnginesMaintains DEF Maintains
  <1> HIDE DEF b
  <1>4. Maintains(b, c) /\ KeepsTargets(b, c) /\ c \in Databases /\ c.engine = b.engine
    BY <1>3, ManageRepositoryMaintains DEF Maintains
  <1> HIDE DEF c
  <1>5. Maintains(c, e) /\ KeepsTargets(c, e) /\ e.engine = c.engine
    BY <1>4, CopyAssetsMaintains
  <1> HIDE DEF e
  <1>6. Maintains(d, e)
    BY <1>1, <1>2, <1>3, <1>4, <1>5, MaintainsThen
  <1>7. KeepsTargets(d, e)
    BY <1>2, <1>3, <1>4, <1>5 DEF KeepsTargets
  <1>8. Prepared(d) = e
    BY DEF Prepared, a, b, c, e
  <1>. QED  BY <1>3, <1>4, <1>5, <1>6, <1>7, <1>8, FilledIsSound

LEMMA Ranges ==
  /\ \A x \in Prompts : <<x>> \in Seq(Prompts) /\ Range(<<x>>) = {x}
  /\ \A x, y \in Prompts : <<x, y>> \in Seq(Prompts) /\ Range(<<x, y>>) = {x, y}
  /\ \A x, y, z \in Prompts : <<x, y, z>> \in Seq(Prompts) /\ Range(<<x, y, z>>) = {x, y, z}
  /\ \A x, y, z, w \in Prompts :
        <<x, y, z, w>> \in Seq(Prompts) /\ Range(<<x, y, z, w>>) = {x, y, z, w}
  /\ \A x, y, z, w, v \in Prompts :
        <<x, y, z, w, v>> \in Seq(Prompts) /\ Range(<<x, y, z, w, v>>) = {x, y, z, w, v}
  /\ <<>> \in Seq(Prompts) /\ Range(<<>>) = {}
  BY DEF Range

LEMMA PromptNames ==
  /\ Targets \subseteq Prompts /\ "review" \in Targets
  /\ "conflict" \in Targets /\ "conversation" \in Targets
  /\ "verify" \in Prompts /\ "plan" \in Prompts /\ "closeout" \in Prompts
  /\ "shared" \in Prompts /\ "retry" \in Prompts /\ Prompts \subseteq Slugs
  BY DEF Targets, Commands, Prompts, Slugs

LEMMA RangeOfBoth ==
  ASSUME NEW a \in Seq(Prompts), NEW b \in Seq(Prompts)
  PROVE  a \o b \in Seq(Prompts) /\ Range(a \o b) = Range(a) \union Range(b)
  BY ConcatProperties, RangeConcatenation

\* The layout of this release binds the main prompt, the closeout and the shared
\* one, all enabled; and the plan where a command writes after an approval.
LEMMA CurrentIs ==
  ASSUME NEW t \in Targets, NEW p \in Permissions
  PROVE  /\ Current(t, p) \in Seq(Binding)
         /\ Bound(Current(t, p)) =
               {t, "closeout", "shared"} \union
               (IF t # "conversation" /\ p = "read_write_approval" THEN {"plan"} ELSE {})
         /\ Enabled(Current(t, p)) = Bound(Current(t, p))
  <1>1. CASE t = "conversation"
    <2> DEFINE slugs == <<"conversation", "shared", "closeout">>
    <2>1. slugs \in Seq(Prompts) /\ Range(slugs) = {"conversation", "shared", "closeout"}
      BY Ranges, PromptNames
    <2>2. Current(t, p) = On(slugs)
      BY <1>1 DEF Current
    <2> HIDE DEF slugs
    <2>. QED  BY <1>1, <2>1, <2>2, AllOn
  <1>2. CASE t # "conversation"
    <2> DEFINE plan == IF p = "read_write_approval" THEN <<"plan">> ELSE <<>>
               first == <<t, "closeout">>
               last == <<"shared">>
    <2>1. /\ first \in Seq(Prompts) /\ Range(first) = {t, "closeout"}
          /\ last \in Seq(Prompts) /\ Range(last) = {"shared"}
      BY Ranges, PromptNames
    <2>2. /\ plan \in Seq(Prompts)
          /\ Range(plan) = IF p = "read_write_approval" THEN {"plan"} ELSE {}
      BY Ranges, PromptNames
    <2>3. Current(t, p) = On((first \o plan) \o last)
      BY <1>2 DEF Current
    <2> HIDE DEF plan, first, last
    <2>4. first \o plan \in Seq(Prompts) /\ Range(first \o plan) = Range(first) \union Range(plan)
      BY <2>1, <2>2, RangeOfBoth
    <2>5. /\ (first \o plan) \o last \in Seq(Prompts)
          /\ Range((first \o plan) \o last) = (Range(first) \union Range(plan)) \union Range(last)
      BY <2>1, <2>4, RangeOfBoth
    <2>6. /\ Current(t, p) \in Seq(Binding)
          /\ Bound(Current(t, p)) = Range((first \o plan) \o last)
          /\ Enabled(Current(t, p)) = Range((first \o plan) \o last)
      BY <2>3, <2>5, AllOn
    <2>. QED  BY <1>2, <2>1, <2>2, <2>5, <2>6
  <1>. QED  BY <1>1, <1>2

Auxiliaries(t) == {"closeout"} \union (IF t = "conflict" THEN {"plan"} ELSE {})

LEMMA AuxiliaryIs == ASSUME NEW t \in Targets PROVE Range(Auxiliary(t)) = Auxiliaries(t)
  BY Ranges, PromptNames DEF Auxiliary, Auxiliaries

\* The auxiliary prompts that are not bound.
LEMMA MissingIs ==
  ASSUME NEW d, NEW t \in Targets
  PROVE  /\ Missing(d, t) \in Seq(Prompts)
         /\ Range(Missing(d, t)) = Auxiliaries(t) \ BoundTo(d.target[t])
         /\ Missing(d, t) = <<>> <=> Range(Missing(d, t)) = {}
  <1> DEFINE a == Lacks(d, t, "closeout")
             b == IF t = "conflict" THEN Lacks(d, t, "plan") ELSE <<>>
  <1>1. a \in Seq(Prompts) /\ Range(a) = {"closeout"} \ BoundTo(d.target[t])
    BY Ranges, PromptNames DEF Lacks
  <1>2. b \in Seq(Prompts)
        /\ Range(b) = (IF t = "conflict" THEN {"plan"} ELSE {}) \ BoundTo(d.target[t])
    BY Ranges, PromptNames DEF Lacks
  <1>3. Missing(d, t) = a \o b
    BY DEF Missing
  <1> HIDE DEF a, b
  <1>4. a \o b \in Seq(Prompts) /\ Range(a \o b) = Range(a) \union Range(b)
    BY <1>1, <1>2, RangeOfBoth
  <1>5. \A s \in Seq(Prompts) : s = <<>> <=> Range(s) = {}
    <2>1. \A s \in Seq(Prompts) : s # <<>> => 1 \in DOMAIN s
      BY EmptySeq, LenProperties
    <2>. QED  BY <2>1, Ranges DEF Range
  <1>. QED  BY <1>1, <1>2, <1>3, <1>4, <1>5 DEF Auxiliaries

\* A transaction that writes one row of the targets, soundly.
LEMMA TargetConverges ==
  ASSUME NEW d, NEW e, NEW t \in Targets, NEW r \in TargetRows, NEW m \in Marks,
         Sound(d), TargetSet(d, e, t, r, m), e.repo >= d.repo, e.repo > 0, m # "none",
         KeptTarget(d, e, t) \/ ConvergedTarget(d, e, t), Holds(e, t), Deploys(e, t)
  PROVE  Maintains(d, e) /\ Sound(e)
  <1>1. d \in Databases /\ e \in Databases /\ r # Absent
    BY RowFields DEF Sound, TargetSet
  <1>2. Maintains(d, e)
    BY <1>1 DEF Maintains, TargetSet, KeepsAssets, KeepsEngines, KeptAsset, KeptTarget, KeptEngine
  <1>3. Marked(e)
    <2>1. \A g \in Engines : e.engine[g] = d.engine[g] /\ e.engineMark[g] = d.engineMark[g]
      BY DEF TargetSet, KeepsEngines
    <2>2. \A u \in Targets : u # t => e.target[u] = d.target[u] /\ e.targetMark[u] = d.targetMark[u]
      BY DEF TargetSet
    <2>3. e.target[t] = r /\ e.targetMark[t] = m
      BY DEF TargetSet
    <2>. QED  BY <1>1, <2>1, <2>2, <2>3, PromptNames DEF Sound, Marked
  <1>4. \A u \in Targets : u # t => Holds(e, u)
    BY DEF Sound, Bindings, Holds, TargetSet, KeepsAssets
  <1>5. \A u \in Targets : u # t => Deploys(e, u)
    BY DEF Sound, Owned, Deploys, TargetSet, KeepsEngines
  <1>. QED  BY <1>1, <1>2, <1>3, <1>4, <1>5 DEF Sound, Bindings, Owned

\* The transaction writes no other row.
Only(d, e, t) ==
    /\ KeepsAssets(d, e) /\ KeepsEngines(d, e)
    /\ \A u \in Targets \ {t} : KeptTarget(d, e, u)

LEMMA ConvergeTargetMaintains ==
  ASSUME NEW d, NEW t \in Targets, Sound(d), ~TargetRefused(d, t),
         \A g \in Engines : d.engine[g] # Absent
  PROVE  /\ Maintains(d, ConvergeTarget(d, t)) /\ Sound(ConvergeTarget(d, t))
         /\ Only(d, ConvergeTarget(d, t), t)
  <1> DEFINE c == d.target[t]
             e == ConvergeTarget(d, t)
  <1>1. d \in Databases /\ d.repo \in Nat /\ (c # Absent => c \in TargetRows /\ d.repo > 0)
    BY Fields DEF Sound, Marked
  <1>2. CASE c = Absent
    <2> DEFINE r == [on |-> TRUE, permission |-> Shipped(t), bound |-> Current(t, Shipped(t)),
                     help |-> TRUE, rev |-> 1]
    <2>1. e = PutTarget(d, t, r, "seeded")
      BY <1>2 DEF ConvergeTarget
    <2>2. /\ Shipped(t) \in Permissions
          /\ t # "conflict" => Shipped(t) = "read_only"
          /\ t = "conflict" => Shipped(t) = "read_write_approval"
      BY DEF Shipped, Permissions, Targets, Commands
    <2>3. Current(t, Shipped(t)) \in Seq(Binding)
      BY <2>2, CurrentIs
    <2>4. r \in TargetRows
      BY <2>2, <2>3 DEF TargetRows, Binding
    <2>5. /\ r.on /\ r.permission = Shipped(t) /\ r.bound = Current(t, Shipped(t))
          /\ BoundTo(r) = Bound(Current(t, Shipped(t))) /\ Active(r) = BoundTo(r)
      BY <2>2, CurrentIs, BoundIs
    <2> HIDE DEF r, e
    <2>6. TargetPut(d, e, t, r, "seeded")
      BY <1>1, <2>1, <2>4, PutTargetIs DEF Marks
    <2>7. e.repo >= d.repo /\ e.repo > 0 /\ e.target[t] = r /\ e.targetMark[t] = "seeded"
          /\ e.asset = d.asset /\ e.engine = d.engine
      BY <1>1, <2>6 DEF TargetPut, TargetSet, KeepsAssets, KeepsEngines
    <2>8. BoundTo(r) = {t, "closeout", "shared"} \union
                       (IF t = "conflict" THEN {"plan"} ELSE {})
      BY <2>2, <2>5, CurrentIs
    <2>9. ConvergedTarget(d, e, t)
      <3>1. d.targetMark[t] \notin Gone
        BY <1>2 DEF TargetRefused
      <3>2. "retry" \notin BoundTo(r)
        BY <2>8 DEF Targets, Commands
      <3>. QED  BY <1>2, <2>4, <2>7, <3>1, <3>2 DEF ConvergedTarget
    <2>10. Holds(e, t)
      <3>1. \A k \in {t} \union Auxiliaries(t) : Offered(d, k)
        BY <1>2, AuxiliaryIs DEF TargetRefused, MainFor
      <3>2. Usable(d, "shared") /\ Usable(d, "help")
        BY <1>2 DEF TargetRefused
      <3>. QED  BY <2>5, <2>7, <2>8, <3>1, <3>2 DEF Holds, Offered, Usable, Auxiliaries, MainFor
    <2>11. Deploys(e, t)
      BY <2>2, <2>5, <2>7, <2>8 DEF Deploys, Targets, Commands
    <2>12. Maintains(d, e) /\ Sound(e)
      BY <2>4, <2>6, <2>7, <2>9, <2>10, <2>11, TargetConverges DEF TargetPut, Marks
    <2>. QED  BY <2>6, <2>12 DEF TargetPut, TargetSet, Only, KeptTarget, e
  <1>3. CASE c # Absent /\ d.targetMark[t] # "seeded"
    <2>1. e = d
      BY <1>3 DEF ConvergeTarget
    <2>. QED  BY <1>1, <2>1, MaintainsNothing DEF Only, KeepsAssets, KeepsEngines, KeptTarget
  <1>4. CASE c # Absent /\ d.targetMark[t] = "seeded"
    <2> DEFINE p == IF t = "conflict" /\ c.permission = "read_write"
                    THEN Bumped([c EXCEPT !.permission = "read_write_approval"]) ELSE c
               b == c.bound \o On(Missing(d, t))
               q == Bumped([p EXCEPT !.bound = @ \o On(Missing(d, t))])
    <2>1. c \in TargetRows /\ d.repo > 0 /\ c.rev \in Nat /\ c.bound \in Seq(Binding)
          /\ Deploys(d, t) /\ Holds(d, t)
      BY <1>1, <1>4, RowFields DEF Sound, Owned, Bindings
    <2>2. /\ p \in TargetRows /\ p.bound = c.bound /\ p.on = c.on /\ p.help = c.help
          /\ p = c \/ p.rev = c.rev + 1
          /\ p.permission = IF t = "conflict" /\ c.permission = "read_write"
                            THEN "read_write_approval" ELSE c.permission
      <3> DEFINE x == [c EXCEPT !.permission = "read_write_approval"]
      <3>1. x \in TargetRows /\ x.bound = c.bound /\ x.on = c.on /\ x.help = c.help
            /\ x.permission = "read_write_approval" /\ x.rev = c.rev
        BY <2>1, RowUpdates DEF Permissions
      <3> HIDE DEF x
      <3>2. /\ Bumped(x) \in TargetRows /\ Bumped(x).bound = c.bound /\ Bumped(x).on = c.on
            /\ Bumped(x).help = c.help /\ Bumped(x).rev = c.rev + 1
            /\ Bumped(x).permission = "read_write_approval"
        BY <3>1, RowUpdates
      <3>3. p = IF t = "conflict" /\ c.permission = "read_write" THEN Bumped(x) ELSE c
        BY DEF x
      <3> HIDE DEF p
      <3>. QED  BY <2>1, <3>2, <3>3
    <2>3. /\ c.on /\ BoundTo(c) \subseteq Active(c)
          /\ \A g \in Engines : d.engine[g] # Absent
          /\ t # "conflict" => c.permission = "read_only"
          /\ c.permission = "read_write_approval" => "plan" \in BoundTo(c)
          /\ "retry" \in BoundTo(c) => t = "review" /\ c.bound = FirstReview
      BY <1>4, <2>1 DEF Deploys
    <2>4. /\ \A k \in BoundTo(c) : d.asset["repository"][k] # Absent
          /\ c.help => d.asset["repository"]["help"] # Absent
          /\ MainFor(t) \in Active(c)
      BY <1>4, <2>1, <2>3 DEF Holds
    <2>5. CASE Missing(d, t) = <<>>
      <3>1. e = [d EXCEPT !.target[t] = p]
        BY <1>4, <2>5 DEF ConvergeTarget
      <3>2. Auxiliaries(t) \subseteq BoundTo(c)
        BY <2>5, MissingIs
      <3>3. BoundTo(p) = BoundTo(c) /\ Active(p) = Active(c)
        BY <2>2, BoundIs
      <3> HIDE DEF p, q, b, e
      <3>4. TargetSet(d, e, t, p, "seeded") /\ e.repo = d.repo
        BY <1>1, <1>4, <2>2, <3>1, SetTargetIs
      <3>5. e.target[t] = p /\ e.targetMark[t] = "seeded" /\ e.asset = d.asset /\ e.engine = d.engine
        BY <3>4 DEF TargetSet, KeepsAssets, KeepsEngines
      <3>6. KeptTarget(d, e, t) \/ ConvergedTarget(d, e, t)
        BY <1>4, <2>1, <2>2, <3>3, <3>5 DEF KeptTarget, ConvergedTarget
      <3>7. Holds(e, t)
        BY <2>2, <2>4, <3>3, <3>5 DEF Holds
      <3>8. Deploys(e, t)
        BY <2>2, <2>3, <3>2, <3>3, <3>5 DEF Deploys, Auxiliaries
      <3>9. e.repo >= d.repo /\ e.repo > 0
        BY <1>1, <2>1, <3>4
      <3>10. Maintains(d, e) /\ Sound(e)
        BY <2>2, <3>4, <3>6, <3>7, <3>8, <3>9, TargetConverges DEF Marks
      <3>. QED  BY <3>4, <3>10 DEF TargetSet, Only, KeptTarget, e
    <2>6. CASE Missing(d, t) # <<>>
      <3>1. e = PutTarget(d, t, q, "seeded")
        BY <1>4, <2>6 DEF ConvergeTarget
      <3>2. On(Missing(d, t)) \in Seq(Binding)
            /\ Bound(On(Missing(d, t))) = Auxiliaries(t) \ BoundTo(c)
            /\ Enabled(On(Missing(d, t))) = Auxiliaries(t) \ BoundTo(c)
        BY MissingIs, AllOn
      <3>3. /\ b \in Seq(Binding)
            /\ Bound(b) = Bound(c.bound) \union (Auxiliaries(t) \ BoundTo(c))
            /\ Enabled(b) = Enabled(c.bound) \union (Auxiliaries(t) \ BoundTo(c))
        BY <2>1, <3>2, Concatenated
      <3>4. q = Bumped([p EXCEPT !.bound = b])
        BY <2>2
      <3> HIDE DEF b, p, q, e
      <3>5. /\ q \in TargetRows /\ q.bound = b /\ q.on = p.on /\ q.help = p.help
            /\ q.permission = p.permission /\ q.rev = p.rev + 1
        BY <2>2, <3>3, <3>4, Rebound
      <3>6. BoundTo(q) = BoundTo(c) \union Auxiliaries(t) /\ Active(c) \subseteq Active(q)
            /\ BoundTo(q) \subseteq Active(q)
        BY <2>3, <3>3, <3>5, BoundIs
      <3>7. TargetPut(d, e, t, q, "seeded")
        BY <1>1, <3>1, <3>5, PutTargetIs DEF Marks
      <3>8. e.target[t] = q /\ e.targetMark[t] = "seeded" /\ e.asset = d.asset /\ e.engine = d.engine
            /\ e.repo >= d.repo /\ e.repo > 0
        BY <1>1, <3>7 DEF TargetPut, TargetSet, KeepsAssets, KeepsEngines
      <3>9. \A k \in Auxiliaries(t) : k \in BoundTo(c) \/ d.asset["repository"][k] # Absent
        <4>1. \A k \in Range(Missing(d, t)) : Offered(d, k)
          BY <1>4 DEF TargetRefused, Range
        <4>. QED  BY <4>1, MissingIs DEF Offered, Usable
      <3>10. "retry" \notin Auxiliaries(t)
        BY DEF Auxiliaries
      <3>11. ConvergedTarget(d, e, t)
        BY <1>4, <2>1, <2>2, <3>5, <3>6, <3>8, <3>10 DEF ConvergedTarget
      <3>12. Holds(e, t)
        BY <2>2, <2>4, <3>5, <3>6, <3>8, <3>9 DEF Holds
      <3>13. Deploys(e, t)
        <4>1. "retry" \notin BoundTo(q)
          <5>1. SUFFICES ASSUME "retry" \in BoundTo(c) PROVE FALSE
            BY <3>6, <3>10
          <5>2. "closeout" \in BoundTo(c) /\ t = "review"
            <6>1. <<"review", "retry", "closeout", "shared">> \in Seq(Prompts)
                  /\ Range(<<"review", "retry", "closeout", "shared">>)
                        = {"review", "retry", "closeout", "shared"}
              BY Ranges, PromptNames
            <6>2. Bound(FirstReview) = Range(<<"review", "retry", "closeout", "shared">>)
              BY <6>1, AllOn DEF FirstReview
            <6>. QED  BY <2>3, <5>1, <6>1, <6>2, BoundIs
          <5>. QED  BY <2>6, <5>2, MissingIs DEF Auxiliaries
        <4>. QED  BY <2>2, <2>3, <3>5, <3>6, <3>8, <4>1 DEF Deploys, Auxiliaries
      <3>14. Maintains(d, e) /\ Sound(e)
        BY <3>5, <3>7, <3>8, <3>11, <3>12, <3>13, TargetConverges DEF TargetPut, Marks
      <3>. QED  BY <3>7, <3>14 DEF TargetPut, TargetSet, Only, KeptTarget, e
    <2>. QED  BY <2>5, <2>6
  <1>. QED  BY <1>2, <1>3, <1>4

\* What refuses a target is the state of the assets, the engines and the target.
LEMMA RefusedAlike ==
  ASSUME NEW d, NEW e, NEW t \in Targets, KeepsAssets(d, e), KeepsEngines(d, e), KeptTarget(d, e, t)
  PROVE  TargetRefused(e, t) = TargetRefused(d, t)
  <1>1. Missing(e, t) = Missing(d, t)
    BY DEF Missing, Lacks, KeptTarget
  <1>2. \A k : Usable(e, k) = Usable(d, k) /\ Offered(e, k) = Offered(d, k)
    BY DEF Offered, Usable, Copied, Have, KeepsAssets
  <1>. QED  BY <1>1, <1>2 DEF TargetRefused, KeptTarget, KeepsEngines

LEMMA BootstrapMaintains ==
  ASSUME NEW d, Sound(d), ~BootstrapRefused(d)
  PROVE  Maintains(d, Bootstrapped(d)) /\ Sound(Bootstrapped(d))
  <1> DEFINE p == Prepared(d)
             a == ConvergeTarget(p, "review")
             b == ConvergeTarget(a, "conflict")
             e == ConvergeTarget(b, "conversation")
  <1>1. Maintains(d, p) /\ Sound(p) /\ \A g \in Engines : p.engine[g] # Absent
    BY PreparedMaintains
  <1>2. \A t \in Targets : ~TargetRefused(p, t)
    BY DEF BootstrapRefused
  <1>3. Bootstrapped(d) = e
    BY DEF Bootstrapped
  <1> HIDE DEF p
  <1>4. Maintains(p, a) /\ Sound(a) /\ Only(p, a, "review")
    BY <1>1, <1>2, PromptNames, ConvergeTargetMaintains
  <1> HIDE DEF a
  <1>5. ~TargetRefused(a, "conflict") /\ ~TargetRefused(a, "conversation")
        /\ \A g \in Engines : a.engine[g] # Absent
    BY <1>1, <1>2, <1>4, PromptNames, RefusedAlike DEF Only, KeepsEngines
  <1>6. Maintains(a, b) /\ Sound(b) /\ Only(a, b, "conflict")
    BY <1>4, <1>5, PromptNames, ConvergeTargetMaintains
  <1> HIDE DEF b
  <1>7. ~TargetRefused(b, "conversation") /\ \A g \in Engines : b.engine[g] # Absent
    BY <1>5, <1>6, PromptNames, RefusedAlike DEF Only, KeepsEngines
  <1>8. Maintains(b, e) /\ Sound(e)
    BY <1>6, <1>7, PromptNames, ConvergeTargetMaintains
  <1> HIDE DEF e
  <1>9. Maintains(d, e)
    BY <1>1, <1>4, <1>6, <1>8, MaintainsThen DEF Sound
  <1>. QED  BY <1>3, <1>8, <1>9

-----------------------------------------------------------------------------
(* The builtin migrations *)

LEMMA LeastOne ==
  ASSUME NEW T \in SUBSET Nat, T # {}
  PROVE  \E x \in T : \A y \in T : x <= y
  <1> DEFINE R == {ss \in Nat \X Nat : ss[1] < ss[2]}
  <1>1. IsWellFoundedOn(R, Nat)
    BY NatLessThanWellFounded, Zenon DEF OpToRel
  <1>2. \E x \in T : \A y \in T : ~ (<<y, x>> \in R)
    <2> HIDE DEF R
    <2>. QED  BY <1>1, WFMin, Zenon
  <1>3. ASSUME NEW x \in Nat, NEW y \in Nat, ~ (<<y, x>> \in R) PROVE x <= y
    BY <1>3
  <1>. QED  BY <1>2, <1>3

\* The plan's binding goes before the shared prompt, or at the end.
LEMMA BeforeCommonIs ==
  ASSUME NEW b \in Seq(Binding), NEW x \in Binding, x.on
  PROVE  /\ BeforeCommon(b, x) \in Seq(Binding)
         /\ Bound(BeforeCommon(b, x)) = Bound(b) \union {x.slug}
         /\ Enabled(BeforeCommon(b, x)) = Enabled(b) \union {x.slug}
  <1> DEFINE commons == {i \in DOMAIN b : b[i].slug = "shared"}
  <1>1. Enabled(<<x>>) = {x.slug}
    BY Single
  <1>2. CASE commons = {}
    <2>1. BeforeCommon(b, x) = Append(b, x)
      BY <1>2 DEF BeforeCommon
    <2>. QED  BY <1>1, <2>1, Appended
  <1>3. CASE commons # {}
    <2> DEFINE i == CHOOSE i \in commons : \A j \in commons : i <= j
    <2>1. BeforeCommon(b, x) = InsertAt(b, i, x)
      BY <1>3 DEF BeforeCommon
    <2>2. commons \in SUBSET Nat
      BY LenProperties
    <2>3. i \in DOMAIN b
      <3>1. \E j \in commons : \A k \in commons : j <= k
        BY <1>3, <2>2, LeastOne
      <3>. QED  BY <3>1
    <2> HIDE DEF i
    <2>. QED  BY <1>1, <2>1, <2>3, Inserted
  <1>. QED  BY <1>2, <1>3

\* An asset that was not there and that nobody deleted.
LEMMA AssetFilled ==
  ASSUME NEW d, NEW s \in Scopes, NEW k \in Slugs, NEW r \in AssetRows, Sound(d),
         d.asset[s][k] = Absent, d.mark[s][k] \notin Gone
  PROVE  LET e == PutAsset(d, s, k, r, "seeded") IN
         Maintains(d, e) /\ Sound(e) /\ KeepsTargets(d, e)
  <1> DEFINE e == PutAsset(d, s, k, r, "seeded")
  <1>1. d \in Databases
    BY DEF Sound
  <1>2. AssetPut(d, e, s, k, r, "seeded")
    BY <1>1, PutAssetIs DEF Marks
  <1> HIDE DEF e
  <1>3. e.repo >= d.repo /\ (s = "repository" => e.repo > d.repo)
    BY <1>1, <1>2, Fields DEF AssetPut
  <1>4. FilledAsset(d, e, s, k)
    BY <1>2, <1>3 DEF AssetPut, FilledAsset
  <1>5. \A z \in Scopes, x \in Slugs : (z = s /\ x = k) \/ KeptAsset(d, e, z, x)
    BY <1>2 DEF AssetPut, KeptAsset
  <1>6. Maintains(d, e) /\ KeepsTargets(d, e)
    BY <1>2, <1>3, <1>4, <1>5
       DEF AssetPut, KeepsTargets, KeepsEngines, KeptTarget, KeptEngine, Maintains
  <1>. QED  BY <1>6, FilledIsSound DEF e

LEMMA EnsurePlansMaintain ==
  ASSUME NEW d, Sound(d)
  PROVE  /\ Maintains(d, EnsurePublicPlan(d)) /\ Sound(EnsurePublicPlan(d))
         /\ KeepsTargets(d, EnsurePublicPlan(d))
         /\ d.asset["public"]["plan"] # Absent =>
               /\ Maintains(d, EnsureRepositoryPlan(d)) /\ Sound(EnsureRepositoryPlan(d))
               /\ KeepsTargets(d, EnsureRepositoryPlan(d))
  <1>1. Maintains(d, d) /\ KeepsTargets(d, d)
    BY MaintainsNothing DEF Sound, KeepsTargets
  <1>2. New("shipped", TRUE) \in AssetRows
    BY NewIsRow
  <1>3. "public" \in Scopes /\ "repository" \in Scopes /\ "plan" \in Slugs
    BY PromptNames DEF Scopes
  <1>4. d.asset["public"]["plan"] # Absent => New(d.asset["public"]["plan"].text, TRUE) \in AssetRows
    <2>1. d.asset["public"]["plan"] \in AssetRows \union {Absent}
      BY <1>3, Fields DEF Sound
    <2>. QED  BY <2>1 DEF New, AssetRows
  <1>5. /\ Maintains(d, EnsurePublicPlan(d)) /\ Sound(EnsurePublicPlan(d))
        /\ KeepsTargets(d, EnsurePublicPlan(d))
    BY <1>1, <1>2, <1>3, AssetFilled DEF EnsurePublicPlan
  <1>6. d.asset["public"]["plan"] # Absent =>
               /\ Maintains(d, EnsureRepositoryPlan(d)) /\ Sound(EnsureRepositoryPlan(d))
               /\ KeepsTargets(d, EnsureRepositoryPlan(d))
    BY <1>1, <1>3, <1>4, AssetFilled DEF EnsureRepositoryPlan
  <1>. QED  BY <1>5, <1>6

LEMMA ConvergeConflictMaintains ==
  ASSUME NEW d, Sound(d), d.target["conflict"] # Absent, d.targetMark["conflict"] = "seeded",
         Available(d, "repository", "plan")
  PROVE  Maintains(d, ConvergeConflict(d)) /\ Sound(ConvergeConflict(d))
  <1> DEFINE t == "conflict"
             c == d.target["conflict"]
             add == "plan" \notin BoundTo(c)
             change == c.permission = "read_write"
             plan == [slug |-> "plan", on |-> TRUE]
             bound == IF add THEN BeforeCommon(c.bound, plan) ELSE c.bound
             p == IF change THEN "read_write_approval" ELSE c.permission
             r == Bumped([c EXCEPT !.permission = p, !.bound = bound])
             e == PutTarget(d, t, r, "seeded")
  <1>1. d \in Databases /\ t \in Targets /\ c \in TargetRows /\ d.repo \in Nat
        /\ Holds(d, t) /\ Deploys(d, t)
    BY Fields, PromptNames DEF Sound, Bindings, Owned
  <1>2. c.bound \in Seq(Binding) /\ c.permission \in Permissions /\ c.rev \in Nat
    BY <1>1, RowFields
  <1>3. ConvergeConflict(d) = d \/ ConvergeConflict(d) = e
    BY DEF ConvergeConflict
  <1>4. plan \in Binding /\ plan.on /\ plan.slug = "plan"
    BY PromptNames DEF Binding
  <1>5. bound \in Seq(Binding) /\ Bound(bound) = BoundTo(c) \union {"plan"}
        /\ Active(c) \subseteq Enabled(bound) /\ (BoundTo(c) \subseteq Active(c) => Bound(bound) \subseteq Enabled(bound))
    <2> HIDE DEF plan
    <2>. QED  BY <1>2, <1>4, BeforeCommonIs, BoundIs
  <1> HIDE DEF bound
  <1>6. p \in Permissions /\ p # "read_write"
        /\ (p = c.permission \/ p = "read_write_approval")
    BY <1>2 DEF Permissions
  <1> HIDE DEF p
  <1>7. r \in TargetRows /\ r.on = c.on /\ r.help = c.help /\ r.permission = p /\ r.bound = bound
        /\ r.rev = c.rev + 1
    <2> DEFINE x == [c EXCEPT !.permission = p]
               y == [x EXCEPT !.bound = bound]
    <2>1. r = Bumped(y)
      OBVIOUS
    <2>2. x \in TargetRows /\ x.on = c.on /\ x.help = c.help /\ x.permission = p /\ x.rev = c.rev
      <3> HIDE DEF c, add, change
      <3>. QED  BY <1>1, <1>6, RowUpdates
    <2> HIDE DEF x
    <2>3. y \in TargetRows /\ y.on = c.on /\ y.help = c.help /\ y.permission = p /\ y.rev = c.rev
          /\ y.bound = bound
      BY <1>5, <2>2, RowUpdates
    <2> HIDE DEF y, r
    <2>. QED  BY <2>1, <2>3, RowUpdates
  <1> HIDE DEF r
  <1>8. TargetPut(d, e, t, r, "seeded")
    BY <1>1, <1>7, PutTargetIs DEF Marks
  <1> HIDE DEF e
  <1>9. e.repo >= d.repo /\ e.repo > 0 /\ e.target[t] = r /\ e.targetMark[t] = "seeded"
        /\ e.asset = d.asset /\ e.engine = d.engine
    BY <1>1, <1>8 DEF TargetPut, TargetSet, KeepsAssets, KeepsEngines
  <1>10. BoundTo(r) = BoundTo(c) \union {"plan"} /\ Active(c) \subseteq Active(r)
         /\ (BoundTo(c) \subseteq Active(c) => BoundTo(r) \subseteq Active(r))
    BY <1>5, <1>7, BoundIs
  <1>11. ConvergedTarget(d, e, t)
    BY <1>2, <1>7, <1>9, <1>10 DEF ConvergedTarget
  <1>12. Holds(e, t)
    BY <1>1, <1>7, <1>9, <1>10 DEF Holds, Available
  <1>13. Deploys(e, t)
    BY <1>1, <1>7, <1>9, <1>10 DEF Deploys
  <1>14. Maintains(d, e) /\ Sound(e)
    BY <1>1, <1>7, <1>8, <1>9, <1>11, <1>12, <1>13, TargetConverges DEF TargetPut, Marks
  <1>. QED  BY <1>1, <1>3, <1>14, MaintainsNothing

LEMMA PlanModeMaintains ==
  ASSUME NEW d, Sound(d)
  PROVE  Maintains(d, PlanMode(d)) /\ Sound(PlanMode(d))
  <1> DEFINE e == EnsurePublicPlan(d)
             f == EnsureRepositoryPlan(e)
             g == ConvergeConflict(f)
             owned == d.target["conflict"] # Absent /\ d.targetMark["conflict"] = "seeded"
  <1>1. Maintains(d, e) /\ Sound(e) /\ KeepsTargets(d, e)
    BY EnsurePlansMaintain
  <1> HIDE DEF e
  <1>2. PlanMode(d) = IF ~Available(e, "public", "plan") \/ ~owned THEN e
                      ELSE IF ~Available(f, "repository", "plan") THEN f ELSE g
    BY DEF PlanMode, e
  <1>3. CASE Available(e, "public", "plan") /\ owned
    <2>1. Maintains(e, f) /\ Sound(f) /\ KeepsTargets(e, f)
      BY <1>1, <1>3, EnsurePlansMaintain DEF Available
    <2> HIDE DEF f
    <2>2. Available(f, "repository", "plan") => Maintains(f, g) /\ Sound(g)
      BY <1>1, <1>3, <2>1, ConvergeConflictMaintains DEF KeepsTargets
    <2> HIDE DEF g
    <2>3. Maintains(d, f)
      BY <1>1, <2>1, MaintainsThen DEF Sound
    <2>4. Available(f, "repository", "plan") => Maintains(d, g)
      BY <2>2, <2>3, MaintainsThen DEF Sound
    <2>. QED  BY <1>2, <1>3, <2>1, <2>2, <2>3, <2>4
  <1>. QED  BY <1>1, <1>2, <1>3

LEMMA ConvergePromptsMaintains ==
  ASSUME NEW d, Sound(d)
  PROVE  /\ Maintains(d, ConvergePrompts(d)) /\ Sound(ConvergePrompts(d))
         /\ KeepsTargets(d, ConvergePrompts(d))
  <1> DEFINE fresh(s, k) == Bumped([d.asset[s][k] EXCEPT !.text = "shipped"])
             assets == [s \in Scopes |-> [k \in Slugs |->
                           IF k \in Legacy(d, s) THEN fresh(s, k) ELSE d.asset[s][k]]]
             n == Cardinality(Legacy(d, "repository"))
             f == [d EXCEPT !.asset = assets]
             e == [f EXCEPT !.repo = @ + n]
  <1>1. d \in Databases
    BY DEF Sound
  <1>2. ConvergePrompts(d) = e
    BY DEF ConvergePrompts
  <1>3. \A s \in Scopes : Legacy(d, s) \subseteq Opaque /\ Opaque \subseteq Slugs
    BY DEF Legacy, Opaque, Slugs, Prompts
  <1>4. n \in Nat /\ \A k \in Legacy(d, "repository") : n > 0
    <2>1. IsFiniteSet(Opaque)
      <3>1. IsFiniteSet({"review"})
        BY FS_Singleton
      <3>2. IsFiniteSet({"review"} \union {"conflict"})
        BY <3>1, FS_AddElement
      <3>3. IsFiniteSet(({"review"} \union {"conflict"}) \union {"conversation"})
        BY <3>2, FS_AddElement
      <3>4. IsFiniteSet((({"review"} \union {"conflict"}) \union {"conversation"}) \union {"verify"})
        BY <3>3, FS_AddElement
      <3>5. IsFiniteSet(((({"review"} \union {"conflict"}) \union {"conversation"}) \union {"verify"})
                          \union {"closeout"})
        BY <3>4, FS_AddElement
      <3>6. Opaque = (((({"review"} \union {"conflict"}) \union {"conversation"}) \union {"verify"})
                        \union {"closeout"})
        BY DEF Opaque
      <3>. QED  BY <3>5, <3>6
    <2>2. IsFiniteSet(Legacy(d, "repository"))
      BY <1>3, <2>1, FS_Subset DEF Scopes
    <2>3. n \in Nat /\ (n = 0 <=> Legacy(d, "repository") = {})
      BY <2>2, FS_CardinalityType, FS_EmptySet
    <2>. QED  BY <2>3
  <1> HIDE DEF n
  <1>5. \A s \in Scopes : \A k \in Legacy(d, s) :
           /\ d.asset[s][k] \in AssetRows /\ d.asset[s][k].on /\ d.asset[s][k].text = "legacy"
           /\ fresh(s, k) \in AssetRows /\ fresh(s, k).rev > d.asset[s][k].rev
    <2> SUFFICES ASSUME NEW s \in Scopes, NEW k \in Legacy(d, s)
                 PROVE  /\ d.asset[s][k] \in AssetRows /\ d.asset[s][k].on
                        /\ d.asset[s][k].text = "legacy"
                        /\ fresh(s, k) \in AssetRows /\ fresh(s, k).rev > d.asset[s][k].rev
      OBVIOUS
    <2>1. k \in Slugs /\ d.asset[s][k] # Absent /\ d.asset[s][k].on /\ d.asset[s][k].text = "legacy"
      BY <1>3 DEF Legacy, Available
    <2>2. d.asset[s][k] \in AssetRows
      BY <1>1, <2>1, Fields
    <2>3. fresh(s, k) \in AssetRows /\ fresh(s, k).rev = d.asset[s][k].rev + 1
      BY <2>2, Rewritten
    <2> HIDE DEF fresh
    <2>. QED  BY <2>1, <2>2, <2>3, RowFields
  <1>6. assets \in [Scopes -> [Slugs -> AssetRows \union {Absent}]]
    <2>1. \A s \in Scopes, k \in Slugs : assets[s][k] \in AssetRows \union {Absent}
      <3> HIDE DEF fresh
      <3>. QED  BY <1>1, <1>5, Fields
    <2>. QED  BY <2>1
  <1>7. f \in Databases
    <2> HIDE DEF assets
    <2>. QED  BY <1>1, <1>6, Updated
  <1>8. e \in Databases
    <2> HIDE DEF f
    <2>1. f.repo + n \in Nat
      BY <1>4, <1>7, Fields
    <2>. QED  BY <1>7, <2>1, Updated
  <1>9. /\ e.target = d.target /\ e.targetMark = d.targetMark
        /\ e.engine = d.engine /\ e.engineMark = d.engineMark /\ e.mark = d.mark
        /\ e.repo = d.repo + n /\ e.asset = assets
    <2> HIDE DEF assets
    <2>. QED  BY <1>1 DEF Databases
  <1>10. e.repo >= d.repo /\ \A k \in Legacy(d, "repository") : e.repo > d.repo
    BY <1>1, <1>4, <1>9, Fields
  <1> HIDE DEF e, f
  <1>11. \A s \in Scopes, k \in Slugs : KeptAsset(d, e, s, k) \/ FilledAsset(d, e, s, k)
    <2>1. ASSUME NEW s \in Scopes, NEW k \in Slugs, k \in Legacy(d, s)
          PROVE  FilledAsset(d, e, s, k)
      <3>1. e.asset[s][k] = fresh(s, k)
        <4> HIDE DEF fresh
        <4>. QED  BY <1>9, <2>1
      <3>2. d.asset[s][k] # Absent
        BY <2>1 DEF Legacy, Available
      <3> HIDE DEF fresh
      <3>. QED  BY <1>5, <1>10, <2>1, <3>1, <3>2 DEF FilledAsset
    <2>2. ASSUME NEW s \in Scopes, NEW k \in Slugs, k \notin Legacy(d, s)
          PROVE  KeptAsset(d, e, s, k)
      BY <1>9, <2>2 DEF KeptAsset
    <2>. QED  BY <2>1, <2>2
  <1>12. Maintains(d, e) /\ KeepsTargets(d, e)
    BY <1>8, <1>9, <1>10, <1>11 DEF Maintains, KeptTarget, KeptEngine, KeepsTargets
  <1>. QED  BY <1>2, <1>12, FilledIsSound

LEMMA ConvergeLayoutMaintains ==
  ASSUME NEW d, NEW t \in Commands, Sound(d)
  PROVE  /\ Maintains(d, ConvergeLayout(d, t)) /\ Sound(ConvergeLayout(d, t))
         /\ Only(d, ConvergeLayout(d, t), t)
         /\ \/ ConvergeLayout(d, t) = d
            \/ "retry" \notin BoundTo(ConvergeLayout(d, t).target[t])
  <1> DEFINE c == d.target[t]
             next == Current(t, c.permission)
             r == Bumped([c EXCEPT !.bound = next])
             e == PutTarget(d, t, r, d.targetMark[t])
  <1>1. d \in Databases /\ t \in Targets /\ t # "conversation"
    BY DEF Sound, Targets, Commands
  <1>2. CASE /\ c # Absent
             /\ c.bound \in Historical(t, c.permission)
             /\ \A k \in BoundTo(c) : Usable(d, k)
             /\ d.targetMark[t] \notin Gone
             /\ \A i \in DOMAIN next : Usable(d, next[i].slug)
    <2>1. ConvergeLayout(d, t) = e
      BY <1>2 DEF ConvergeLayout
    <2>2. /\ c \in TargetRows /\ d.repo \in Nat /\ d.repo > 0 /\ d.targetMark[t] # "none"
          /\ d.targetMark[t] \in Marks /\ Holds(d, t) /\ Deploys(d, t)
      BY <1>1, <1>2, Fields DEF Sound, Marked, Bindings, Owned
    <2>3. c.permission \in Permissions /\ c.rev \in Nat
      BY <2>2, RowFields
    <2>4. /\ next \in Seq(Binding)
          /\ Bound(next) = {t, "closeout", "shared"} \union
                (IF c.permission = "read_write_approval" THEN {"plan"} ELSE {})
          /\ Enabled(next) = Bound(next)
      BY <1>1, <2>3, CurrentIs
    <2>5. \A k \in Bound(next) : d.asset["repository"][k] # Absent
      BY <1>2 DEF Bound, Usable
    <2> HIDE DEF next
    <2>6. /\ r \in TargetRows /\ r.on = c.on /\ r.help = c.help /\ r.permission = c.permission
          /\ r.bound = next /\ r.rev = c.rev + 1
      <3> HIDE DEF c
      <3>. QED  BY <2>2, <2>4, Rebound
    <2> HIDE DEF r
    <2>7. BoundTo(r) = Bound(next) /\ Active(r) = Bound(next)
      BY <2>4, <2>6, BoundIs
    <2>8. "retry" \notin BoundTo(r)
      BY <2>4, <2>7 DEF Commands
    <2>9. TargetPut(d, e, t, r, d.targetMark[t])
      BY <1>1, <2>2, <2>6, PutTargetIs
    <2> HIDE DEF e
    <2>10. e.repo >= d.repo /\ e.repo > 0 /\ e.target[t] = r /\ e.targetMark[t] = d.targetMark[t]
           /\ e.asset = d.asset /\ e.engine = d.engine
      BY <1>1, <2>2, <2>9 DEF TargetPut, TargetSet, KeepsAssets, KeepsEngines
    <2>11. ConvergedTarget(d, e, t)
      BY <1>2, <2>3, <2>6, <2>8, <2>10 DEF ConvergedTarget
    <2>12. Holds(e, t)
      BY <1>2, <2>2, <2>4, <2>5, <2>6, <2>7, <2>10 DEF Holds, MainFor
    <2>13. Deploys(e, t)
      BY <2>2, <2>4, <2>6, <2>7, <2>8, <2>10 DEF Deploys
    <2>14. Maintains(d, e) /\ Sound(e)
      BY <1>1, <2>2, <2>6, <2>9, <2>10, <2>11, <2>12, <2>13, TargetConverges DEF TargetPut
    <2>. QED  BY <2>1, <2>8, <2>9, <2>10, <2>14 DEF TargetPut, TargetSet, Only, KeptTarget
  <1>3. CASE ~(/\ c # Absent
               /\ c.bound \in Historical(t, c.permission)
               /\ \A k \in BoundTo(c) : Usable(d, k)
               /\ d.targetMark[t] \notin Gone
               /\ \A i \in DOMAIN next : Usable(d, next[i].slug))
    <2>1. ConvergeLayout(d, t) = d
      BY <1>3 DEF ConvergeLayout
    <2>. QED  BY <1>1, <2>1, MaintainsNothing DEF Only, KeepsAssets, KeepsEngines, KeptTarget
  <1>. QED  BY <1>2, <1>3

\* A first layout of /review that is not converged had a prompt that was missing
\* or disabled.
LEMMA LayoutLeft ==
  ASSUME NEW d, Sound(d), ConvergeLayout(d, "review") = d,
         d.targetMark["review"] = "seeded", "retry" \in BoundTo(d.target["review"])
  PROVE  Unready(d, "review")
  <1> DEFINE c == d.target["review"]
             next == Current("review", c.permission)
  <1>1. d \in Databases /\ c \in TargetRows /\ c # Absent /\ c.bound = FirstReview
    BY PromptNames, Fields DEF Sound, Marked, Owned, Deploys
  <1>2. c.bound \in Historical("review", c.permission)
    BY <1>1 DEF Historical, FirstReview
  <1>3. c.permission \in Permissions
    BY <1>1, RowFields
  <1>4. "retry" \notin Bound(next)
    BY <1>3, CurrentIs, PromptNames
  <1>5. SUFFICES ASSUME ~Unready(d, "review") PROVE FALSE
    OBVIOUS
  <1>6. \A k \in BoundTo(c) \union Bound(next) : Usable(d, k)
    <2>1. BoundTo([bound |-> next]) = Bound(next)
      BY BoundIs
    <2>. QED  BY <1>1, <1>5, <2>1 DEF Unready
  <1>7. \A i \in DOMAIN next : Usable(d, next[i].slug)
    BY <1>6 DEF Bound
  <1>8. d.targetMark["review"] \notin Gone
    BY DEF Gone
  <1>9. ConvergeLayout(d, "review") = PutTarget(d, "review", Bumped([c EXCEPT !.bound = next]), "seeded")
    BY <1>1, <1>2, <1>6, <1>7, <1>8 DEF ConvergeLayout
  <1>10. "retry" \notin BoundTo(ConvergeLayout(d, "review").target["review"])
    <2> HIDE DEF next
    <2>1. next \in Seq(Binding)
      BY <1>3, CurrentIs, PromptNames DEF next
    <2> DEFINE r == Bumped([c EXCEPT !.bound = next])
    <2>3. r \in TargetRows /\ r.bound = next
      <3> HIDE DEF c
      <3>. QED  BY <1>1, <2>1, Rebound
    <2>5. ConvergeLayout(d, "review") = PutTarget(d, "review", r, "seeded")
      BY <1>9
    <2> HIDE DEF r
    <2>4. TargetPut(d, PutTarget(d, "review", r, "seeded"), "review", r, "seeded")
      BY <1>1, <2>3, PromptNames, PutTargetIs DEF Marks
    <2>. QED  BY <1>4, <2>3, <2>4, <2>5, PromptNames, BoundIs DEF TargetPut, TargetSet
  <1>. QED  BY <1>10

LEMMA OpaqueOutputMaintains ==
  ASSUME NEW d, Sound(d)
  PROVE  LET e == OpaqueOutput(d) IN
         /\ Maintains(d, e) /\ Sound(e)
         /\ \A t \in Targets : e.targetMark[t] = "seeded" /\ "retry" \in BoundTo(e.target[t])
                               => t \in Commands /\ Unready(e, t)
  <1> DEFINE p == ConvergePrompts(d)
             a == ConvergeLayout(p, "review")
             e == ConvergeLayout(a, "conflict")
  <1>1. OpaqueOutput(d) = e
    BY DEF OpaqueOutput
  <1>2. "review" \in Commands /\ "conflict" \in Commands
    BY DEF Commands
  <1>3. Maintains(d, p) /\ Sound(p)
    BY ConvergePromptsMaintains
  <1> HIDE DEF p
  <1>4. Maintains(p, a) /\ Sound(a) /\ (a = p \/ "retry" \notin BoundTo(a.target["review"]))
    BY <1>2, <1>3, ConvergeLayoutMaintains
  <1>5. a = p /\ a.targetMark["review"] = "seeded" /\ "retry" \in BoundTo(a.target["review"])
        => Unready(a, "review")
    BY <1>3, LayoutLeft
  <1> HIDE DEF a
  <1>6. Maintains(a, e) /\ Sound(e) /\ Only(a, e, "conflict")
    BY <1>2, <1>4, ConvergeLayoutMaintains
  <1> HIDE DEF e
  <1>7. Maintains(d, e)
    BY <1>3, <1>4, <1>6, MaintainsThen DEF Sound
  <1>8. Unready(e, "review") = Unready(a, "review")
        /\ e.target["review"] = a.target["review"] /\ e.targetMark["review"] = a.targetMark["review"]
    BY <1>6, PromptNames DEF Only, KeepsAssets, KeptTarget, Unready, Usable
  <1>9. \A t \in Targets : e.targetMark[t] = "seeded" /\ "retry" \in BoundTo(e.target[t])
                           => t \in Commands /\ Unready(e, t)
    <2>1. \A t \in Targets : e.targetMark[t] = "seeded" /\ "retry" \in BoundTo(e.target[t])
                             => t = "review"
      BY <1>6 DEF Sound, Owned, Deploys
    <2>. QED  BY <1>2, <1>4, <1>5, <1>8, <2>1
  <1>. QED  BY <1>1, <1>6, <1>7, <1>9

-----------------------------------------------------------------------------
(* The installations *)

LEMMA FreshIsSound == Sound(Fresh)
  <1>1. Fresh \in Databases
    BY DEF Fresh, Databases, Marks
  <1>2. Marked(Fresh) /\ Bindings(Fresh) /\ Owned(Fresh)
    BY PromptNames DEF Fresh, Marked, Bindings, Holds, Owned, Deploys
  <1>. QED  BY <1>1, <1>2 DEF Sound

LEMMA DeployedIsSound ==
  ASSUME NEW conflict \in Seq(Prompts), NEW permission \in {"read_write", "read_write_approval"},
         "conflict" \in Range(conflict), "retry" \notin Range(conflict),
         permission = "read_write_approval" => "plan" \in Range(conflict)
  PROVE  Sound(Deployed(conflict, permission))
  <1> DEFINE slugs == Slugs \ (IF "plan" \in Range(conflict) THEN {} ELSE {"plan"})
             row(k) == New(IF k \in Opaque THEN "legacy" ELSE "shipped", TRUE)
             command(p, bound) ==
                [on |-> TRUE, permission |-> p, bound |-> On(bound), help |-> TRUE, rev |-> 1]
             engine == [on |-> TRUE, ref |-> "env", rev |-> 1]
             assets == [s \in Scopes |-> [k \in Slugs |-> IF k \in slugs THEN row(k) ELSE Absent]]
             marks == [s \in Scopes |-> [k \in Slugs |-> IF k \in slugs THEN "seeded" ELSE "none"]]
             review == <<"review", "retry", "closeout", "shared">>
             conversation == <<"conversation", "shared", "closeout">>
             targets == [t \in Targets |->
                CASE t = "review" -> command("read_only", review)
                  [] t = "conflict" -> command(permission, conflict)
                  [] t = "conversation" -> command("read_only", conversation)]
             targetMarks == [t \in Targets |-> "seeded"]
             engines == [g \in Engines |-> engine]
             engineMarks == [g \in Engines |-> "seeded"]
             f1 == [Fresh EXCEPT !.asset = assets]
             f2 == [f1 EXCEPT !.mark = marks]
             f3 == [f2 EXCEPT !.target = targets]
             f4 == [f3 EXCEPT !.targetMark = targetMarks]
             f5 == [f4 EXCEPT !.engine = engines]
             f6 == [f5 EXCEPT !.engineMark = engineMarks]
             d == [f6 EXCEPT !.repo = 1]
  <1>1. /\ Deployed(conflict, permission) = d
        /\ d.asset = assets /\ d.mark = marks /\ d.target = targets /\ d.targetMark = targetMarks
        /\ d.engine = engines /\ d.engineMark = engineMarks /\ d.repo = 1
    <2>1. Deployed(conflict, permission) = d
      BY DEF Deployed
    <2> HIDE DEF assets, marks, targets, targetMarks, engines, engineMarks
    <2>. QED  BY <2>1 DEF Fresh
  <1>2. review \in Seq(Prompts) /\ Range(review) = {"review", "retry", "closeout", "shared"}
        /\ conversation \in Seq(Prompts) /\ Range(conversation) = {"conversation", "shared", "closeout"}
    BY Ranges, PromptNames
  <1>3. /\ targets["review"] = command("read_only", review)
        /\ targets["conflict"] = command(permission, conflict)
        /\ targets["conversation"] = command("read_only", conversation)
        /\ Targets = {"review", "conflict", "conversation"}
    BY DEF Targets, Commands
  <1>4. FirstReview = On(review)
    BY DEF FirstReview
  <1> HIDE DEF review, conversation
  <1>5. \A p \in Permissions, b \in Seq(Prompts) :
           /\ command(p, b) \in TargetRows /\ command(p, b).on /\ command(p, b).help
           /\ command(p, b).permission = p /\ command(p, b).bound = On(b)
           /\ BoundTo(command(p, b)) = Range(b) /\ Active(command(p, b)) = Range(b)
    <2> SUFFICES ASSUME NEW p \in Permissions, NEW b \in Seq(Prompts)
                 PROVE  /\ command(p, b) \in TargetRows /\ command(p, b).on /\ command(p, b).help
                        /\ command(p, b).permission = p /\ command(p, b).bound = On(b)
                        /\ BoundTo(command(p, b)) = Range(b) /\ Active(command(p, b)) = Range(b)
      OBVIOUS
    <2>1. On(b) \in Seq(Binding) /\ Bound(On(b)) = Range(b) /\ Enabled(On(b)) = Range(b)
      BY AllOn
    <2>. QED  BY <2>1, BoundIs DEF TargetRows, Binding
  <1>6. permission \in Permissions /\ "read_only" \in Permissions
    BY DEF Permissions
  <1> HIDE DEF command, targets
  <1> DEFINE Ships(t) ==
           /\ targets[t] \in TargetRows /\ targets[t].on /\ targets[t].help
           /\ BoundTo(targets[t]) \subseteq slugs /\ BoundTo(targets[t]) = Active(targets[t])
           /\ MainFor(t) \in Active(targets[t])
           /\ t # "conflict" => targets[t].permission = "read_only"
           /\ targets[t].permission = "read_write_approval" => "plan" \in BoundTo(targets[t])
           /\ "retry" \in BoundTo(targets[t]) => t = "review" /\ targets[t].bound = FirstReview
  <1>7. \A t \in Targets : Ships(t)
    <2>1. Range(conflict) \subseteq slugs
      BY PromptNames, RangeOfSeq
    <2>2. Range(review) \subseteq slugs /\ Range(conversation) \subseteq slugs
      BY <1>2, PromptNames
    <2> HIDE DEF slugs
    <2>3. Ships("review")
      <3> DEFINE r == command("read_only", review)
      <3>1. /\ r \in TargetRows /\ r.on /\ r.help /\ r.permission = "read_only" /\ r.bound = On(review)
            /\ BoundTo(r) = Range(review) /\ Active(r) = Range(review)
        BY <1>2, <1>5, <1>6
      <3>2. targets["review"] = r
        BY <1>3
      <3> HIDE DEF r
      <3>3. "review" \in Range(review)
        BY <1>2
      <3>. QED  BY <1>4, <2>2, <3>1, <3>2, <3>3 DEF MainFor
    <2>4. Ships("conflict")
      BY <1>3, <1>5, <1>6, <2>1 DEF MainFor
    <2>5. Ships("conversation")
      <3> DEFINE r == command("read_only", conversation)
      <3>1. /\ r \in TargetRows /\ r.on /\ r.help /\ r.permission = "read_only" /\ r.bound = On(conversation)
            /\ BoundTo(r) = Range(conversation) /\ Active(r) = Range(conversation)
        BY <1>2, <1>5, <1>6
      <3>2. targets["conversation"] = r
        BY <1>3
      <3> HIDE DEF r
      <3>3. "conversation" \in Range(conversation) /\ "retry" \notin Range(conversation)
        BY <1>2
      <3>. QED  BY <1>4, <2>2, <3>1, <3>2, <3>3 DEF MainFor
    <2> HIDE DEF Ships
    <2>. QED  BY <1>3, <2>3, <2>4, <2>5
  <1>8. \A k \in Slugs : row(k) \in AssetRows
    BY NewIsRow
  <1>9. engine \in EngineRows /\ engine # Absent
    <2>1. engine \in EngineRows
      BY DEF EngineRows
    <2> HIDE DEF engine
    <2>. QED  BY <2>1, RowFields
  <1> HIDE DEF row, engine
  <1>10. assets \in [Scopes -> [Slugs -> AssetRows \union {Absent}]]
         /\ marks \in [Scopes -> [Slugs -> Marks]]
    BY <1>8 DEF Marks
  <1>11. \A k \in slugs : assets["repository"][k] # Absent
    BY <1>8, RowFields DEF Scopes
  <1>12. targets \in [Targets -> TargetRows \union {Absent}]
    BY <1>7 DEF targets
  <1> HIDE DEF assets, marks, slugs
  <1>13. d \in Databases
    <2>1. targetMarks \in [Targets -> Marks] /\ engineMarks \in [Engines -> Marks]
          /\ engines \in [Engines -> EngineRows \union {Absent}]
      BY <1>9 DEF Marks
    <2> HIDE DEF targetMarks, engineMarks, engines
    <2>2. f1 \in Databases
      BY <1>10, FreshIsSound, Updated DEF Sound
    <2> HIDE DEF f1
    <2>3. f2 \in Databases
      BY <1>10, <2>2, Updated
    <2> HIDE DEF f2
    <2>4. f3 \in Databases
      BY <1>12, <2>3, Updated
    <2> HIDE DEF f3
    <2>5. f4 \in Databases
      BY <2>1, <2>4, Updated
    <2> HIDE DEF f4
    <2>6. f5 \in Databases
      BY <2>1, <2>5, Updated
    <2> HIDE DEF f5
    <2>7. f6 \in Databases
      BY <2>1, <2>6, Updated
    <2> HIDE DEF f6
    <2>. QED  BY <2>7, Updated
  <1> HIDE DEF d
  <1>14. \A t \in Targets : targets[t] # Absent
    BY <1>7, RowFields
  <1>15. Marked(d)
    BY <1>1, <1>9, <1>14, PromptNames DEF Marked
  <1>16. Bindings(d)
    <2>1. "help" \in slugs
      BY DEF slugs, Slugs
    <2>. QED  BY <1>1, <1>7, <1>11, <2>1 DEF Bindings, Holds
  <1>17. Owned(d)
    BY <1>1, <1>7, <1>9 DEF Owned, Deploys
  <1>. QED  BY <1>1, <1>13, <1>15, <1>16, <1>17 DEF Sound

LEMMA InstallationsAreSound == \A d \in Installations : Sound(d)
  <1> DEFINE a == <<"conflict", "verify", "closeout", "shared">>
             b == <<"conflict", "verify", "closeout", "shared", "plan">>
             c == <<"conflict", "verify", "closeout", "plan", "shared">>
  <1>1. /\ a \in Seq(Prompts) /\ Range(a) = {"conflict", "verify", "closeout", "shared"}
        /\ b \in Seq(Prompts) /\ Range(b) = {"conflict", "verify", "closeout", "shared", "plan"}
        /\ c \in Seq(Prompts) /\ Range(c) = {"conflict", "verify", "closeout", "plan", "shared"}
    BY Ranges, PromptNames
  <1>2. Installations = {Fresh, Deployed(a, "read_write"), Deployed(b, "read_write_approval"),
                         Deployed(c, "read_write_approval")}
    BY DEF Installations
  <1> HIDE DEF a, b, c
  <1>3. Sound(Deployed(a, "read_write"))
    BY <1>1, DeployedIsSound
  <1>4. Sound(Deployed(b, "read_write_approval"))
    BY <1>1, DeployedIsSound
  <1>5. Sound(Deployed(c, "read_write_approval"))
    BY <1>1, DeployedIsSound
  <1>. QED  BY <1>2, <1>3, <1>4, <1>5, FreshIsSound

-----------------------------------------------------------------------------
(* Pages *)

LEMMA ItemCases ==
  ASSUME NEW item \in Items
  PROVE  \/ /\ item[1] \in Scopes /\ item[2] \in Slugs /\ item = <<item[1], item[2]>>
            /\ item[1] # "replace"
            /\ \A d : Row(d, item) = d.asset[item[1]][item[2]] /\ Revision(d, item) = Row(d, item).rev
         \/ /\ item[1] = "replace" /\ item[2] \in Slugs
            /\ \A d : Row(d, item) = d.asset["repository"][item[2]] /\ Revision(d, item) = d.repo
         \/ /\ item[1] = "target" /\ item[2] \in Targets /\ item = <<item[1], item[2]>>
            /\ \A d : Row(d, item) = d.target[item[2]] /\ Revision(d, item) = Row(d, item).rev
         \/ /\ item[1] = "engine" /\ item[2] \in Engines /\ item = <<item[1], item[2]>>
            /\ \A d : Row(d, item) = d.engine[item[2]] /\ Revision(d, item) = Row(d, item).rev
  <1>1. \/ item \in {"public", "repository"} \X Slugs
        \/ item \in {"replace"} \X Slugs
        \/ item \in {"target"} \X Targets
        \/ item \in {"engine"} \X Engines
    BY EditableAssumption DEF Items
  <1>. QED  BY <1>1 DEF Row, Revision, Scopes

LEMMA RowTyped ==
  ASSUME NEW d \in Databases, NEW item \in Items
  PROVE  /\ Row(d, item) \in AssetRows \union TargetRows \union EngineRows \union {Absent}
         /\ Row(d, item) # Absent => Row(d, item).rev \in Nat
         /\ d.repo \in Nat
  <1>1. "repository" \in Scopes
    BY DEF Scopes
  <1>2. \/ Row(d, item) \in AssetRows \union {Absent}
        \/ Row(d, item) \in TargetRows \union {Absent}
        \/ Row(d, item) \in EngineRows \union {Absent}
    <2>1. CASE item[1] \in Scopes /\ item[2] \in Slugs
               /\ \A f : Row(f, item) = f.asset[item[1]][item[2]]
      BY <2>1, Fields
    <2>2. CASE item[2] \in Slugs /\ \A f : Row(f, item) = f.asset["repository"][item[2]]
      BY <1>1, <2>2, Fields
    <2>3. CASE item[2] \in Targets /\ \A f : Row(f, item) = f.target[item[2]]
      BY <2>3, Fields
    <2>4. CASE item[2] \in Engines /\ \A f : Row(f, item) = f.engine[item[2]]
      BY <2>4, Fields
    <2>. QED  BY <2>1, <2>2, <2>3, <2>4, ItemCases
  <1>. QED  BY <1>2, Fields, RowFields

\* What a transaction may do to a row a page shows: a new content comes with a
\* later revision; that of a copy to replace is the repository's.
Grows(d, e, item) ==
    IF item[1] = "replace"
    THEN e.repo >= d.repo /\ (e.repo = d.repo => Row(e, item) = Row(d, item))
    ELSE Row(d, item) # Absent =>
            /\ Row(e, item) # Absent
            /\ Row(e, item) = Row(d, item) \/ Row(e, item).rev > Row(d, item).rev

LEMMA FresherKept ==
  ASSUME NEW d \in Databases, NEW e \in Databases, NEW v, v.item \in Items, v.rev \in Nat,
         Fresher(d, v), Grows(d, e, v.item)
  PROVE  Fresher(e, v)
  <1>1. /\ d.repo \in Nat /\ e.repo \in Nat
        /\ Row(d, v.item) # Absent => Row(d, v.item).rev \in Nat
        /\ Row(e, v.item) # Absent => Row(e, v.item).rev \in Nat
    BY RowTyped
  <1>2. CASE v.item[1] = "replace"
    BY <1>1, <1>2 DEF Fresher, Grows, Revision
  <1>3. CASE v.item[1] # "replace"
    BY <1>1, <1>3 DEF Fresher, Grows, Revision
  <1>. QED  BY <1>2, <1>3

LEMMA MaintainsGrows ==
  ASSUME NEW d \in Databases, NEW e, Maintains(d, e), NEW item \in Items
  PROVE  Grows(d, e, item)
  <1>1. d.repo \in Nat /\ e.repo \in Nat /\ e.repo >= d.repo /\ e \in Databases
    BY Fields DEF Maintains
  <1>2. CASE item[1] \in Scopes /\ item[2] \in Slugs /\ item[1] # "replace"
             /\ \A f : Row(f, item) = f.asset[item[1]][item[2]]
    <2>1. KeptAsset(d, e, item[1], item[2]) \/ FilledAsset(d, e, item[1], item[2])
      BY <1>2 DEF Maintains
    <2>2. Absent \notin AssetRows
      BY RowFields
    <2>. QED  BY <1>2, <2>1, <2>2 DEF Grows, KeptAsset, FilledAsset
  <1>3. CASE item[1] = "replace" /\ item[2] \in Slugs
             /\ \A f : Row(f, item) = f.asset["repository"][item[2]]
    <2>1. KeptAsset(d, e, "repository", item[2]) \/ FilledAsset(d, e, "repository", item[2])
      BY <1>3 DEF Maintains, Scopes
    <2>. QED  BY <1>1, <1>3, <2>1 DEF Grows, KeptAsset, FilledAsset
  <1>4. CASE item[1] = "target" /\ item[2] \in Targets /\ \A f : Row(f, item) = f.target[item[2]]
    <2>1. KeptTarget(d, e, item[2]) \/ ConvergedTarget(d, e, item[2])
      BY <1>4 DEF Maintains
    <2>2. Absent \notin TargetRows
      BY RowFields
    <2>. QED  BY <1>4, <2>1, <2>2 DEF Grows, KeptTarget, ConvergedTarget
  <1>5. CASE item[1] = "engine" /\ item[2] \in Engines /\ \A f : Row(f, item) = f.engine[item[2]]
    <2>1. KeptEngine(d, e, item[2]) \/ FilledEngine(d, e, item[2])
      BY <1>5 DEF Maintains
    <2>. QED  BY <1>5, <2>1 DEF Grows, KeptEngine, FilledEngine
  <1>. QED  BY <1>2, <1>3, <1>4, <1>5, ItemCases

\* A row that is written gets a later revision, or no page shows it any more.
LEMMA AssetGrows ==
  ASSUME NEW d \in Databases, NEW e, NEW s \in Scopes, NEW k \in Slugs, NEW r, NEW m,
         AssetPut(d, e, s, k, r, m), NEW item \in Items,
         d.asset[s][k] # Absent /\ item = <<s, k>> => r # Absent /\ r.rev > d.asset[s][k].rev
  PROVE  Grows(d, e, item)
  <1>1. d.repo \in Nat /\ e.repo = IF s = "repository" THEN d.repo + 1 ELSE d.repo
    BY Fields DEF AssetPut
  <1>2. CASE item[1] \in Scopes /\ item[2] \in Slugs /\ item[1] # "replace"
             /\ item = <<item[1], item[2]>> /\ \A f : Row(f, item) = f.asset[item[1]][item[2]]
    BY <1>2 DEF Grows, AssetPut
  <1>3. CASE item[1] = "replace" /\ item[2] \in Slugs
             /\ \A f : Row(f, item) = f.asset["repository"][item[2]]
    <2>1. s = "repository" \/ e.asset["repository"][item[2]] = d.asset["repository"][item[2]]
      BY <1>3 DEF AssetPut, Scopes
    <2>. QED  BY <1>1, <1>3, <2>1 DEF Grows
  <1>4. CASE item[1] = "target" /\ item[2] \in Targets /\ \A f : Row(f, item) = f.target[item[2]]
    BY <1>4 DEF Grows, AssetPut, KeepsTargets
  <1>5. CASE item[1] = "engine" /\ item[2] \in Engines /\ \A f : Row(f, item) = f.engine[item[2]]
    BY <1>5 DEF Grows, AssetPut, KeepsEngines
  <1>. QED  BY <1>2, <1>3, <1>4, <1>5, ItemCases

LEMMA TargetGrows ==
  ASSUME NEW d \in Databases, NEW e, NEW t \in Targets, NEW r, NEW m,
         TargetPut(d, e, t, r, m), NEW item \in Items,
         d.target[t] # Absent /\ item = <<"target", t>> => r # Absent /\ r.rev > d.target[t].rev
  PROVE  Grows(d, e, item)
  <1>1. d.repo \in Nat /\ e.repo = d.repo + 1 /\ e.asset = d.asset /\ e.engine = d.engine
    BY Fields DEF TargetPut, TargetSet, KeepsAssets, KeepsEngines
  <1>2. CASE item[1] \in Scopes /\ item[2] \in Slugs /\ item[1] # "replace"
             /\ \A f : Row(f, item) = f.asset[item[1]][item[2]]
    BY <1>1, <1>2 DEF Grows
  <1>3. CASE item[1] = "replace"
    BY <1>1, <1>3 DEF Grows
  <1>4. CASE item[1] = "target" /\ item[2] \in Targets /\ item = <<item[1], item[2]>>
             /\ \A f : Row(f, item) = f.target[item[2]]
    BY <1>4 DEF Grows, TargetPut, TargetSet
  <1>5. CASE item[1] = "engine" /\ item[2] \in Engines /\ \A f : Row(f, item) = f.engine[item[2]]
    BY <1>1, <1>5 DEF Grows
  <1>. QED  BY <1>2, <1>3, <1>4, <1>5, ItemCases

LEMMA EngineGrows ==
  ASSUME NEW d \in Databases, NEW e, NEW g \in Engines, NEW r, NEW m,
         EnginePut(d, e, g, r, m), NEW item \in Items, r # Absent, r.rev > d.engine[g].rev
  PROVE  Grows(d, e, item)
  <1>1. d.repo \in Nat /\ e.repo = d.repo /\ e.asset = d.asset /\ e.target = d.target
    BY Fields DEF EnginePut, KeepsAssets, KeepsTargets
  <1>2. CASE item[1] \in Scopes /\ item[2] \in Slugs /\ item[1] # "replace"
             /\ \A f : Row(f, item) = f.asset[item[1]][item[2]]
    BY <1>1, <1>2 DEF Grows
  <1>3. CASE item[1] = "replace" /\ \A f : Row(f, item) = f.asset["repository"][item[2]]
    BY <1>1, <1>3 DEF Grows
  <1>4. CASE item[1] = "target" /\ item[2] \in Targets /\ \A f : Row(f, item) = f.target[item[2]]
    BY <1>1, <1>4 DEF Grows
  <1>5. CASE item[1] = "engine" /\ item[2] \in Engines /\ \A f : Row(f, item) = f.engine[item[2]]
    BY <1>5 DEF Grows, EnginePut
  <1>. QED  BY <1>2, <1>3, <1>4, <1>5, ItemCases

-----------------------------------------------------------------------------
(* The operators' transactions *)

LEMMA AssetPutIsSound ==
  ASSUME NEW d, NEW e, NEW s \in Scopes, NEW k \in Slugs, NEW r, NEW m,
         Sound(d), AssetPut(d, e, s, k, r, m), r # Absent \/ ~(s = "repository" /\ IsBound(d, k))
  PROVE  Sound(e) /\ KeepsTargets(d, e)
  <1>1. e \in Databases /\ KeepsTargets(d, e) /\ KeepsEngines(d, e) /\ d.repo \in Nat
        /\ (e.repo = d.repo \/ e.repo = d.repo + 1)
    BY Fields DEF AssetPut, Sound
  <1>2. Marked(e)
    BY <1>1 DEF Sound, Marked, KeepsTargets, KeepsEngines
  <1>3. Owned(e)
    BY <1>1 DEF Sound, Owned, Deploys, KeepsTargets, KeepsEngines
  <1>4. Bindings(e)
    <2>1. \A t \in Targets : d.target[t] # Absent => BoundTo(d.target[t]) \subseteq Slugs
      BY BoundIs, Fields, RowFields, EnabledIsBound, PromptNames DEF Sound
    <2>2. "help" \in Slugs /\ "repository" \in Scopes
      BY DEF Slugs, Scopes
    <2>3. \A x \in Slugs : IF s = "repository" /\ x = k
                           THEN e.asset["repository"][x] # Absent \/ ~IsBound(d, x)
                           ELSE e.asset["repository"][x] = d.asset["repository"][x]
      BY <2>2 DEF AssetPut
    <2>4. ASSUME NEW t \in Targets, d.target[t] # Absent
          PROVE  Holds(e, t)
      <3>1. \A x \in BoundTo(d.target[t]) : x \in Slugs /\ IsBound(d, x)
        BY <2>1, <2>4 DEF IsBound
      <3>2. d.target[t].help => IsBound(d, "help")
        BY <2>4 DEF IsBound
      <3>3. Holds(d, t)
        BY DEF Sound, Bindings
      <3> HIDE DEF IsBound
      <3>. QED  BY <1>1, <2>2, <2>3, <2>4, <3>1, <3>2, <3>3 DEF Holds, KeepsTargets
    <2>. QED  BY <1>1, <2>4 DEF Bindings, Holds, KeepsTargets
  <1>. QED  BY <1>1, <1>2, <1>3, <1>4 DEF Sound

LEMMA TargetPutIsSound ==
  ASSUME NEW d, NEW e, NEW t \in Targets, NEW r \in TargetRows, NEW m \in {"override", "disabled"},
         Sound(d), TargetPut(d, e, t, r, m),
         \A k \in BoundTo(r) : d.asset["repository"][k] # Absent,
         r.help => d.asset["repository"]["help"] # Absent,
         r.on => MainFor(t) \in Active(r)
  PROVE  Sound(e)
  <1>1. d \in Databases /\ e \in Databases /\ d.repo \in Nat /\ e.repo = d.repo + 1 /\ r # Absent
        /\ e.engine = d.engine /\ e.engineMark = d.engineMark /\ e.asset = d.asset
        /\ e.target[t] = r /\ e.targetMark[t] = m
        /\ \A u \in Targets \ {t} : e.target[u] = d.target[u] /\ e.targetMark[u] = d.targetMark[u]
    BY Fields, RowFields DEF TargetPut, TargetSet, KeepsAssets, KeepsEngines, Sound
  <1>2. Marked(e)
    BY <1>1, PromptNames DEF Sound, Marked
  <1>3. \A u \in Targets : Deploys(e, u)
    BY <1>1 DEF Sound, Owned, Deploys
  <1>4. \A u \in Targets : Holds(e, u)
    BY <1>1 DEF Sound, Bindings, Holds
  <1>. QED  BY <1>1, <1>2, <1>3, <1>4 DEF Sound, Bindings, Owned

LEMMA TargetGoneIsSound ==
  ASSUME NEW d, NEW e, NEW t \in Commands, Sound(d), TargetPut(d, e, t, Absent, "tombstone")
  PROVE  Sound(e)
  <1>1. d \in Databases /\ e \in Databases /\ d.repo \in Nat /\ e.repo = d.repo + 1
        /\ t \in Targets /\ t # "conversation"
        /\ e.engine = d.engine /\ e.engineMark = d.engineMark /\ e.asset = d.asset
        /\ e.target[t] = Absent /\ e.targetMark[t] = "tombstone"
        /\ \A u \in Targets \ {t} : e.target[u] = d.target[u] /\ e.targetMark[u] = d.targetMark[u]
    BY Fields DEF TargetPut, TargetSet, KeepsAssets, KeepsEngines, Sound, Targets, Commands
  <1>2. Marked(e)
    BY <1>1, PromptNames DEF Sound, Marked
  <1>3. \A u \in Targets : Deploys(e, u)
    BY <1>1 DEF Sound, Owned, Deploys
  <1>4. \A u \in Targets : Holds(e, u)
    BY <1>1 DEF Sound, Bindings, Holds
  <1>. QED  BY <1>1, <1>2, <1>3, <1>4 DEF Sound, Bindings, Owned

LEMMA EnginePutIsSound ==
  ASSUME NEW d, NEW e, NEW g \in Engines, NEW r \in EngineRows, NEW m, Sound(d), EnginePut(d, e, g, r, m)
  PROVE  Sound(e) /\ KeepsTargets(d, e)
  <1>1. e \in Databases /\ KeepsTargets(d, e) /\ e.asset = d.asset /\ e.repo = d.repo /\ r # Absent
        /\ e.engine[g] = r
        /\ \A h \in Engines \ {g} : e.engine[h] = d.engine[h] /\ e.engineMark[h] = d.engineMark[h]
    BY RowFields DEF EnginePut, KeepsAssets
  <1>2. Marked(e)
    BY <1>1 DEF Sound, Marked, KeepsTargets
  <1>3. Owned(e)
    BY <1>1 DEF Sound, Owned, Deploys, KeepsTargets
  <1>4. Bindings(e)
    BY <1>1 DEF Sound, Bindings, Holds, KeepsTargets
  <1>. QED  BY <1>1, <1>2, <1>3, <1>4 DEF Sound

-----------------------------------------------------------------------------
(* The steps *)

LEMMA ViewFields ==
  /\ NoView \notin Views
  /\ \A v \in Views : /\ v.item \in Items /\ v.rev \in Nat /\ v.step \in Steps
                      /\ v.seen \in AssetRows \union TargetRows \union EngineRows
  BY NoViewAssumption DEF Views

\* A request that goes on shows what it showed.
LEMMA Stepped ==
  ASSUME NEW v \in Views, NEW s \in Steps
  PROVE  LET w == [v EXCEPT !.step = s] IN
         w \in Views /\ w.item = v.item /\ w.rev = v.rev /\ w.seen = v.seen /\ w.step = s
  BY DEF Views

Page(d, v) ==
    v.step # "gone" =>
        /\ Fresher(d, v)
        /\ v.step \in {"setting", "removing"} => v.item = <<"engine", "provider">>
        /\ v.step = "saving" => v.item = <<"target", "conversation">> /\ v.seen \in TargetRows

LEMMA PagesIs == Pages <=> \A c \in Clients : view[c] # NoView => Page(db, view[c])
  BY DEF Pages, Page

\* A page keeps what it showed.
Same(v, w) == w.item = v.item /\ w.rev = v.rev /\ w.seen = v.seen

LEMMA PageKept ==
  ASSUME NEW d \in Databases, NEW e \in Databases, NEW v \in Views, NEW w \in Views,
         Page(d, v), v.step # "gone", Same(v, w), Grows(d, e, v.item),
         w.step \in {"setting", "removing"} => w.item = <<"engine", "provider">>,
         w.step = "saving" => w.item = <<"target", "conversation">> /\ w.seen \in TargetRows
  PROVE  Page(e, w)
  <1>1. v.item \in Items /\ v.rev \in Nat /\ Fresher(d, v)
    BY ViewFields DEF Page
  <1>2. Fresher(e, v)
    BY <1>1, FresherKept
  <1>3. Fresher(e, w)
    BY <1>2 DEF Fresher, Same
  <1>. QED  BY <1>3 DEF Page

\* After a transaction on rows the open pages still show something of, or not at
\* all, every page is in order.
LEMMA PagesKept ==
  ASSUME TypeOK, Pages, db' \in Databases, view' \in [Clients -> Views \union {NoView}],
         \A c \in Clients :
            \/ view'[c] = NoView
            \/ view'[c].step = "gone"
            \/ view[c] # NoView /\ view'[c] = view[c] /\ Grows(db, db', view[c].item)
  PROVE  Pages'
  <1> SUFFICES ASSUME NEW c \in Clients, view'[c] # NoView PROVE Page(db', view'[c])
    BY DEF Pages, Page
  <1>1. CASE view'[c].step = "gone"
    BY <1>1 DEF Page
  <1>2. CASE view[c] # NoView /\ view'[c] = view[c] /\ Grows(db, db', view[c].item)
    <2>1. db \in Databases /\ view[c] \in Views /\ Page(db, view[c])
      BY <1>2, PagesIs DEF TypeOK
    <2>2. view[c].step # "gone" => Page(db', view[c])
      BY <1>2, <2>1, PageKept DEF Page, Same
    <2>. QED  BY <1>2, <2>2 DEF Page
  <1>. QED  BY <1>1, <1>2

\* A write of an operator, which keeps the database sound, and PatchPaw's layouts.
LEMMA WriteKeeps ==
  ASSUME Inv, NEW d, Write(d), Sound(d),
         \A t \in Targets : KeptTarget(db, d, t) \/ d.targetMark[t] # "seeded",
         slot' \in BOOLEAN, view' \in [Clients -> Views \union {NoView}], Pages'
  PROVE  Inv'
  <1>1. db' = d /\ applied' = applied /\ run' = run /\ skipped' = skipped
        /\ writes < MaxWrites /\ writes' = writes + 1
    BY DEF Write
  <1>2. writes' \in 0 .. MaxWrites
    BY <1>1, WritesAssumption DEF Inv, TypeOK
  <1>3. TypeOK'
    BY <1>1, <1>2 DEF Inv, TypeOK, Sound
  <1>4. Retired'
    BY <1>1 DEF Inv, Retired, KeptTarget
  <1>. QED  BY <1>1, <1>3, <1>4 DEF Inv, Sound

LEMMA MaintenanceKeeps ==
  ASSUME Inv, Maintains(db, db'), Sound(db'), UNCHANGED <<slot, view, writes>>,
         run' \in {"idle", "ready", "refused"},
         applied' \in SUBSET Migrations, skipped' \in SUBSET Commands, Retired'
  PROVE  Inv'
  <1>1. TypeOK'
    BY DEF Inv, TypeOK, Sound
  <1>2. Pages'
    <2>1. \A c \in Clients : view[c] # NoView => Grows(db, db', view[c].item)
      BY MaintainsGrows, ViewFields DEF Inv, TypeOK
    <2>. QED  BY <2>1, PagesKept DEF Inv, TypeOK, Sound
  <1>. QED  BY <1>1, <1>2 DEF Inv, Sound

LEMMA BootstrapKeeps ==
  ASSUME Inv, ~BootstrapRefused(db), db' = Bootstrapped(db),
         UNCHANGED <<applied, slot, view, writes, skipped>>, run' \in {"idle", "ready", "refused"}
  PROVE  Inv' /\ Maintains(db, db')
  <1>1. Sound(db)
    BY DEF Inv, TypeOK, Sound
  <1>2. Maintains(db, db') /\ Sound(db')
    BY <1>1, BootstrapMaintains
  <1>3. Retired'
    <2> SUFFICES ASSUME applied' = Migrations, NEW t \in Targets, db'.targetMark[t] = "seeded",
                        "retry" \in BoundTo(db'.target[t])
                 PROVE  t \in skipped'
      BY DEF Retired
    <2>1. KeptTarget(db, db', t) \/ ConvergedTarget(db, db', t)
      BY <1>2 DEF Maintains
    <2>2. db.targetMark[t] = "seeded" /\ "retry" \in BoundTo(db.target[t])
      BY <2>1 DEF KeptTarget, ConvergedTarget
    <2>. QED  BY <2>2 DEF Inv, Retired
  <1>. QED  BY <1>2, <1>3, MaintenanceKeeps DEF Inv, TypeOK

LEMMA MigrateKeeps ==
  ASSUME Inv, Migrate
  PROVE  Inv' /\ Maintains(db, db')
  <1> DEFINE p == PlanMode(db)
             e == OpaqueOutput(p)
  <1>1. Sound(db)
    BY DEF Inv, TypeOK, Sound
  <1>2. Maintains(db, p) /\ Sound(p)
    BY <1>1, PlanModeMaintains
  <1>3. db' = e /\ applied' = Migrations /\ skipped' = {t \in Commands : Unready(db', t)}
        /\ UNCHANGED <<slot, view, run, writes>>
    BY DEF Migrate
  <1> HIDE DEF p
  <1>4. /\ Maintains(p, e) /\ Sound(e)
        /\ \A t \in Targets : e.targetMark[t] = "seeded" /\ "retry" \in BoundTo(e.target[t])
                              => t \in Commands /\ Unready(e, t)
    BY <1>2, OpaqueOutputMaintains
  <1> HIDE DEF e
  <1>5. Maintains(db, e)
    BY <1>1, <1>2, <1>4, MaintainsThen DEF Sound
  <1>6. Retired'
    BY <1>3, <1>4 DEF Retired
  <1>7. applied' \in SUBSET Migrations /\ skipped' \in SUBSET Commands
    BY <1>3
  <1>. QED  BY <1>3, <1>4, <1>5, <1>6, <1>7, MaintenanceKeeps DEF Inv, TypeOK

\* What an accepted request found: the row its page shows.
LEMMA Expected ==
  ASSUME Inv, NEW c \in Clients, NEW kind, assertExpectedRevision(c, kind)
  PROVE  LET v == view[c] IN
         /\ v \in Views /\ v # NoView /\ v.step = "shown" /\ v.item \in Items /\ v.item[1] = kind
         /\ Row(db, v.item) # Absent /\ Row(db, v.item) = v.seen
  <1>1. view[c] \in Views
    BY DEF assertExpectedRevision, Inv, TypeOK
  <1>. QED  BY <1>1, ViewFields DEF assertExpectedRevision, Inv, Pages, Fresher

-----------------------------------------------------------------------------
(* What the operators write *)

LEMMA AssetWritten ==
  ASSUME Inv, NEW s \in Scopes, NEW k \in Slugs, NEW r \in AssetRows, NEW m \in Marks,
         db.asset[s][k] # Absent => r.rev > db.asset[s][k].rev
  PROVE  LET d == PutAsset(db, s, k, r, m) IN
         /\ Sound(d)
         /\ \A t \in Targets : KeptTarget(db, d, t)
         /\ \A item \in Items : Grows(db, d, item)
  <1> DEFINE d == PutAsset(db, s, k, r, m)
  <1>1. Sound(db) /\ db \in Databases /\ r # Absent
    BY RowFields DEF Inv, TypeOK, Sound
  <1>2. AssetPut(db, d, s, k, r, m)
    BY <1>1, PutAssetIs
  <1> HIDE DEF d
  <1>3. Sound(d) /\ KeepsTargets(db, d)
    BY <1>1, <1>2, AssetPutIsSound
  <1>4. \A item \in Items : Grows(db, d, item)
    BY <1>1, <1>2, AssetGrows
  <1>. QED  BY <1>3, <1>4 DEF d, KeptTarget, KeepsTargets

LEMMA AssetDeleted ==
  ASSUME Inv, NEW s \in Scopes, NEW k \in Slugs, ~(s = "repository" /\ IsBound(db, k))
  PROVE  LET d == PutAsset(db, s, k, Absent, "tombstone") IN
         /\ Sound(d)
         /\ \A t \in Targets : KeptTarget(db, d, t)
         /\ \A item \in Items : item # <<s, k>> => Grows(db, d, item)
  <1> DEFINE d == PutAsset(db, s, k, Absent, "tombstone")
  <1>1. Sound(db) /\ db \in Databases /\ "tombstone" \in Marks
    BY DEF Inv, TypeOK, Sound, Marks
  <1>2. AssetPut(db, d, s, k, Absent, "tombstone")
    BY <1>1, PutAssetIs
  <1> HIDE DEF d
  <1>3. Sound(d) /\ KeepsTargets(db, d)
    BY <1>1, <1>2, AssetPutIsSound
  <1>4. \A item \in Items : item # <<s, k>> => Grows(db, d, item)
    BY <1>1, <1>2, AssetGrows
  <1>. QED  BY <1>3, <1>4 DEF d, KeptTarget, KeepsTargets

LEMMA TargetWritten ==
  ASSUME Inv, NEW t \in Targets, NEW r \in TargetRows, NEW m \in {"override", "disabled"},
         BindingsValid(t, r), db.target[t] # Absent => r.rev > db.target[t].rev
  PROVE  LET d == PutTarget(db, t, r, m) IN
         /\ Sound(d)
         /\ \A u \in Targets : KeptTarget(db, d, u) \/ d.targetMark[u] # "seeded"
         /\ \A item \in Items : Grows(db, d, item)
  <1> DEFINE d == PutTarget(db, t, r, m)
  <1>1. Sound(db) /\ db \in Databases /\ r # Absent /\ m \in Marks
    BY RowFields DEF Inv, TypeOK, Sound, Marks
  <1>2. TargetPut(db, d, t, r, m)
    BY <1>1, PutTargetIs
  <1> HIDE DEF d
  <1>3. Sound(d)
    <2>1. /\ \A k \in BoundTo(r) : db.asset["repository"][k] # Absent
          /\ r.help => db.asset["repository"]["help"] # Absent
          /\ r.on => MainFor(t) \in Active(r)
      BY DEF BindingsValid, Usable
    <2>. QED  BY <1>1, <1>2, <2>1, TargetPutIsSound
  <1>4. \A item \in Items : Grows(db, d, item)
    BY <1>1, <1>2, TargetGrows
  <1>. QED  BY <1>2, <1>3, <1>4 DEF d, KeptTarget, TargetPut, TargetSet

LEMMA TargetDeleted ==
  ASSUME Inv, NEW t \in Commands
  PROVE  LET d == PutTarget(db, t, Absent, "tombstone") IN
         /\ Sound(d)
         /\ \A u \in Targets : KeptTarget(db, d, u) \/ d.targetMark[u] # "seeded"
         /\ \A item \in Items : item # <<"target", t>> => Grows(db, d, item)
  <1> DEFINE d == PutTarget(db, t, Absent, "tombstone")
  <1>1. Sound(db) /\ db \in Databases /\ "tombstone" \in Marks /\ t \in Targets
    BY DEF Inv, TypeOK, Sound, Marks, Targets
  <1>2. TargetPut(db, d, t, Absent, "tombstone")
    BY <1>1, PutTargetIs
  <1> HIDE DEF d
  <1>3. Sound(d)
    BY <1>1, <1>2, TargetGoneIsSound
  <1>4. \A item \in Items : item # <<"target", t>> => Grows(db, d, item)
    BY <1>1, <1>2, TargetGrows
  <1>. QED  BY <1>2, <1>3, <1>4 DEF d, KeptTarget, TargetPut, TargetSet

LEMMA EngineWritten ==
  ASSUME Inv, NEW g \in Engines, NEW r \in EngineRows, db.engine[g] # Absent, r.rev = db.engine[g].rev
  PROVE  LET d == SaveEngine(db, g, r) IN
         /\ Sound(d)
         /\ \A u \in Targets : KeptTarget(db, d, u)
         /\ \A item \in Items : Grows(db, d, item)
  <1> DEFINE d == SaveEngine(db, g, r)
             q == Bumped(r)
  <1>1. Sound(db) /\ db \in Databases
    BY DEF Inv, TypeOK, Sound
  <1>2. q \in EngineRows /\ EnginePut(db, d, g, q, Owner(r.on))
    BY <1>1, SaveEngineIs
  <1>3. q # Absent /\ q.rev > db.engine[g].rev
    <2>1. r.rev \in Nat /\ q.rev = r.rev + 1
      BY RowFields DEF Bumped, EngineRows
    <2>. QED  BY <1>2, <2>1, RowFields
  <1> HIDE DEF d, q
  <1>4. Sound(d) /\ KeepsTargets(db, d)
    BY <1>1, <1>2, EnginePutIsSound
  <1>5. \A item \in Items : Grows(db, d, item)
    BY <1>1, <1>2, <1>3, EngineGrows
  <1>. QED  BY <1>4, <1>5 DEF d, KeptTarget, KeepsTargets

\* The change an operator asks for leaves a command's row a row.
LEMMA EditsAreRows ==
  ASSUME NEW r \in TargetRows, NEW next \in Edits(r)
  PROVE  next \in TargetRows /\ next.rev = r.rev
  <1> DEFINE removed(i) == RemoveAt(r.bound, i)
             flipped(i) == [r.bound EXCEPT ![i].on = ~@]
             added(k) == Append(r.bound, [slug |-> k, on |-> TRUE])
             others == Editable \ (BoundTo(r) \union {"help"})
             bounds == {removed(i) : i \in DOMAIN r.bound} \union {flipped(i) : i \in DOMAIN r.bound}
                       \union {added(k) : k \in others}
  <1>1. \/ next = [r EXCEPT !.on = ~@]
        \/ next = [r EXCEPT !.help = ~@]
        \/ \E p \in Permissions : next = [r EXCEPT !.permission = p]
        \/ \E b \in bounds : next = [r EXCEPT !.bound = b]
    BY Zenon DEF Edits
  <1>2. r.bound \in Seq(Binding)
    BY RowFields
  <1>3. ASSUME NEW b \in bounds PROVE b \in Seq(Binding)
    <2>1. \A i \in DOMAIN r.bound : removed(i) \in Seq(Binding)
      BY <1>2, Removed
    <2>2. \A i \in DOMAIN r.bound : flipped(i) \in Seq(Binding)
      BY <1>2, Flipped
    <2>3. ASSUME NEW k \in others PROVE added(k) \in Seq(Binding)
      <3>1. [slug |-> k, on |-> TRUE] \in Binding
        BY EditableAssumption DEF Slugs, Binding
      <3>. QED  BY <1>2, <3>1, Appended
    <2> HIDE DEF removed, flipped, added, others
    <2>. QED  BY <2>1, <2>2, <2>3
  <1> HIDE DEF bounds
  <1>4. CASE next = [r EXCEPT !.on = ~@]
    BY <1>4 DEF TargetRows
  <1>5. CASE next = [r EXCEPT !.help = ~@]
    BY <1>5 DEF TargetRows
  <1>6. CASE \E p \in Permissions : next = [r EXCEPT !.permission = p]
    BY <1>6 DEF TargetRows
  <1>7. CASE \E b \in bounds : next = [r EXCEPT !.bound = b]
    <2>1. PICK b \in bounds : next = [r EXCEPT !.bound = b]
      BY <1>7
    <2>2. b \in Seq(Binding)
      BY <1>3
    <2>. QED  BY <2>1, <2>2 DEF TargetRows, Binding
  <1>. QED  BY <1>1, <1>4, <1>5, <1>6, <1>7

LEMMA BumpedEdit ==
  ASSUME NEW t, NEW r \in TargetRows, BindingsValid(t, r)
  PROVE  BindingsValid(t, Bumped(r)) /\ Bumped(r) \in TargetRows /\ Bumped(r).rev = r.rev + 1
  <1> DEFINE q == Bumped(r)
  <1>1. q \in TargetRows /\ q.on = r.on /\ q.help = r.help /\ q.bound = r.bound /\ q.rev = r.rev + 1
    BY RowUpdates
  <1> HIDE DEF q
  <1>2. BoundTo(q) = BoundTo(r) /\ Active(q) = Active(r)
    BY <1>1, BoundIs
  <1>3. BindingsValid(t, q)
    BY <1>1, <1>2 DEF BindingsValid
  <1>. QED  BY <1>1, <1>3 DEF q

-----------------------------------------------------------------------------
(* The operators' requests *)

LEMMA CommitKeeps ==
  ASSUME Inv, NEW c \in Clients, NEW d, Commit(c, d), Sound(d),
         \A t \in Targets : KeptTarget(db, d, t) \/ d.targetMark[t] # "seeded",
         \A item \in Items : Grows(db, d, item)
  PROVE  Inv'
  <1>1. Write(d) /\ db' = d /\ slot' = slot /\ view' = [view EXCEPT ![c] = NoView]
        /\ db' \in Databases
    BY DEF Commit, Write, Sound
  <1>2. view \in [Clients -> Views \union {NoView}] /\ slot \in BOOLEAN
    BY DEF Inv, TypeOK
  <1>3. view' \in [Clients -> Views \union {NoView}]
        /\ \A e \in Clients : view'[e] = NoView \/ view'[e] = view[e]
    BY <1>1, <1>2
  <1>4. Pages'
    <2>1. \A e \in Clients : view[e] # NoView => Grows(db, db', view[e].item)
      BY <1>1, <1>2, ViewFields
    <2>. QED  BY <1>1, <1>3, <2>1, PagesKept DEF Inv
  <1>. QED  BY <1>1, <1>2, <1>3, <1>4, WriteKeeps

LEMMA CreateKeeps ==
  ASSUME Inv, NEW d, Write(d), UNCHANGED <<slot, view>>, Sound(d),
         \A t \in Targets : KeptTarget(db, d, t) \/ d.targetMark[t] # "seeded",
         \A item \in Items : Grows(db, d, item)
  PROVE  Inv'
  <1>1. db' = d /\ db' \in Databases
    BY DEF Write, Sound
  <1>2. view \in [Clients -> Views \union {NoView}] /\ slot \in BOOLEAN
    BY DEF Inv, TypeOK
  <1>3. Pages'
    <2>1. \A e \in Clients : view[e] # NoView => Grows(db, db', view[e].item)
      BY <1>1, <1>2, ViewFields
    <2>. QED  BY <1>1, <1>2, <2>1, PagesKept DEF Inv
  <1>. QED  BY <1>1, <1>2, <1>3, WriteKeeps

LEMMA DeleteKeeps ==
  ASSUME Inv, NEW c \in Clients, NEW d, Delete(c, d), Sound(d),
         \A t \in Targets : KeptTarget(db, d, t) \/ d.targetMark[t] # "seeded",
         \A item \in Items : item # view[c].item => Grows(db, d, item)
  PROVE  Inv'
  <1>1. Write(d) /\ db' = d /\ slot' = slot /\ db' \in Databases
    BY DEF Delete, Write, Sound
  <1>2. view \in [Clients -> Views \union {NoView}] /\ slot \in BOOLEAN
    BY DEF Inv, TypeOK
  <1>3. view' \in [Clients -> Views \union {NoView}]
        /\ \A e \in Clients : \/ view'[e] = NoView
                              \/ view'[e].step = "gone"
                              \/ view[e] # NoView /\ view'[e] = view[e] /\ view[e].item # view[c].item
    <2>1. \A e \in Clients : view[e] # NoView =>
             [view[e] EXCEPT !.step = "gone"] \in Views /\ [view[e] EXCEPT !.step = "gone"].step = "gone"
      <3>1. "gone" \in Steps
        BY DEF Steps
      <3>. QED  BY <1>2, <3>1, Stepped
    <2>2. view' = [e \in Clients |->
                      IF e = c THEN NoView
                      ELSE IF view[e] # NoView /\ view[e].item = view[c].item
                      THEN [view[e] EXCEPT !.step = "gone"] ELSE view[e]]
      BY DEF Delete
    <2>3. \A e \in Clients : view'[e] \in Views \union {NoView}
      BY <1>2, <2>1, <2>2
    <2>. QED  BY <1>2, <2>1, <2>2, <2>3
  <1>4. Pages'
    <2>1. \A e \in Clients : view[e] # NoView /\ view[e].item # view[c].item
                             => Grows(db, db', view[e].item)
      BY <1>1, <1>2, ViewFields
    <2>. QED  BY <1>1, <1>3, <2>1, PagesKept DEF Inv
  <1>. QED  BY <1>1, <1>2, <1>3, <1>4, WriteKeeps

-----------------------------------------------------------------------------
(* Every step *)

LEMMA InvInit == ASSUME Init PROVE Inv
  <1>1. Sound(db)
    BY InstallationsAreSound DEF Init
  <1>2. TypeOK
    <2>1. writes \in 0 .. MaxWrites
      BY WritesAssumption DEF Init
    <2>2. view \in [Clients -> Views \union {NoView}]
      BY DEF Init
    <2>3. run \in {"idle", "ready", "refused"} /\ slot \in BOOLEAN
          /\ applied \in SUBSET Migrations /\ skipped \in SUBSET Commands
      BY DEF Init
    <2>. QED  BY <1>1, <2>1, <2>2, <2>3 DEF TypeOK, Sound
  <1>3. Retired /\ Pages
    BY DEF Init, Retired, Pages, Migrations
  <1>. QED  BY <1>1, <1>2, <1>3 DEF Inv, Sound

\* What a page shows when it is opened is the row.
LEMMA OpenKeeps == ASSUME Inv, NEW c \in Clients, Open(c) PROVE Inv'
  <1>1. PICK item \in Items :
           /\ Row(db, item) # Absent
           /\ view' = [view EXCEPT ![c] = [item |-> item, seen |-> Row(db, item),
                                           rev |-> Revision(db, item), step |-> "shown"]]
    BY DEF Open
  <1> DEFINE v == [item |-> item, seen |-> Row(db, item), rev |-> Revision(db, item), step |-> "shown"]
  <1>2. view \in [Clients -> Views \union {NoView}] /\ db \in Databases
        /\ UNCHANGED <<db, applied, slot, run, writes, skipped>>
    BY DEF Inv, TypeOK, Open
  <1>3. v \in Views
    <2>1. Revision(db, item) \in Nat
      BY <1>1, <1>2, RowTyped DEF Revision
    <2>2. Row(db, item) \in AssetRows \union TargetRows \union EngineRows
      BY <1>1, <1>2, RowTyped
    <2>. QED  BY <2>1, <2>2 DEF Views, Steps
  <1>4. v.item = item /\ v.seen = Row(db, item) /\ v.rev = Revision(db, item) /\ v.step = "shown"
    OBVIOUS
  <1> HIDE DEF v
  <1>5. view' = [view EXCEPT ![c] = v]
    BY <1>1 DEF v
  <1>6. Pages'
    <2> SUFFICES ASSUME NEW e \in Clients, view'[e] # NoView PROVE Page(db', view'[e])
      BY DEF Pages, Page
    <2>1. CASE e = c
      <3>1. view'[e] = v /\ db' = db
        BY <1>2, <1>5, <2>1
      <3>2. v.rev \in Nat
        BY <1>3, ViewFields
      <3>. QED  BY <1>1, <1>4, <3>1, <3>2 DEF Page, Fresher
    <2>2. CASE e # c
      BY <1>2, <1>5, <2>2, PagesIs DEF Inv
    <2>. QED  BY <2>1, <2>2
  <1>7. view' \in [Clients -> Views \union {NoView}]
    BY <1>2, <1>3, <1>5
  <1>. QED  BY <1>2, <1>6, <1>7 DEF Inv, TypeOK, Retired

\* A page that is closed, or whose request goes on, shows what it showed.
LEMMA PageMoves ==
  ASSUME Inv, NEW c \in Clients, NEW w \in Views \union {NoView}, view' = [view EXCEPT ![c] = w],
         UNCHANGED <<db, applied, run, writes, skipped>>, slot' \in BOOLEAN,
         w # NoView => /\ view[c] # NoView /\ view[c].step # "gone" /\ Same(view[c], w)
                       /\ w.step \in {"setting", "removing"} => w.item = <<"engine", "provider">>
                       /\ w.step = "saving" => /\ w.item = <<"target", "conversation">>
                                               /\ w.seen \in TargetRows
  PROVE  Inv'
  <1>1. view \in [Clients -> Views \union {NoView}] /\ db \in Databases
    BY DEF Inv, TypeOK
  <1>2. view' \in [Clients -> Views \union {NoView}]
    BY <1>1
  <1>3. Pages'
    <2> SUFFICES ASSUME NEW e \in Clients, view'[e] # NoView PROVE Page(db', view'[e])
      BY DEF Pages, Page
    <2>1. CASE e = c
      <3>1. view'[e] = w /\ w \in Views /\ view[c] \in Views /\ Page(db, view[c])
        BY <1>1, <2>1, PagesIs DEF Inv
      <3>2. view[c].item \in Items
        BY <3>1, ViewFields
      <3>3. Grows(db, db, view[c].item)
        BY <1>1, <3>2, MaintainsNothing, MaintainsGrows
      <3>4. w # NoView
        BY <2>1, <3>1
      <3>5. Page(db, w)
        BY <1>1, <3>1, <3>3, <3>4, PageKept
      <3>. QED  BY <3>1, <3>5
    <2>2. CASE e # c
      BY <1>1, <2>2, PagesIs DEF Inv
    <2>. QED  BY <2>1, <2>2
  <1>. QED  BY <1>1, <1>2, <1>3 DEF Inv, TypeOK, Retired

LEMMA CreateAssetKeeps ==
  ASSUME Inv, NEW slugs, CreateAsset(slugs)
  PROVE  Inv'
  <1>1. PICK s \in Scopes, k \in slugs \intersect Editable, on \in BOOLEAN :
           /\ db.asset[s][k] = Absent
           /\ Write(PutAsset(db, s, k, New("own", on), Owner(on)))
           /\ UNCHANGED <<slot, view>>
    BY DEF CreateAsset
  <1>2. k \in Slugs /\ New("own", on) \in AssetRows /\ Owner(on) \in Marks
    BY EditableAssumption, NewIsRow DEF Owner, Marks
  <1> DEFINE r == New("own", on)
             m == Owner(on)
             d == PutAsset(db, s, k, r, m)
  <1>3. Write(d)
    BY <1>1
  <1> HIDE DEF r, m
  <1>4. r \in AssetRows /\ m \in Marks
    BY <1>2 DEF r, m
  <1>5. /\ Sound(d)
        /\ \A t \in Targets : KeptTarget(db, d, t)
        /\ \A item \in Items : Grows(db, d, item)
    BY <1>1, <1>2, <1>4, AssetWritten
  <1> HIDE DEF d
  <1>. QED  BY <1>1, <1>3, <1>5, CreateKeeps

LEMMA CopyAssetKeeps ==
  ASSUME Inv, NEW slugs, CopyAsset(slugs)
  PROVE  Inv'
  <1>1. PICK k \in slugs \intersect Editable :
           /\ db.asset["public"][k] # Absent /\ db.asset["repository"][k] = Absent
           /\ Write(PutAsset(db, "repository", k,
                 New(db.asset["public"][k].text, db.asset["public"][k].on), "seeded"))
           /\ UNCHANGED <<slot, view>>
    BY DEF CopyAsset
  <1> DEFINE p == db.asset["public"][k]
             r == New(p.text, p.on)
             d == PutAsset(db, "repository", k, r, "seeded")
  <1>2. k \in Slugs /\ "repository" \in Scopes /\ "public" \in Scopes /\ "seeded" \in Marks
        /\ db \in Databases
    BY EditableAssumption DEF Scopes, Marks, Inv, TypeOK
  <1>3. p \in AssetRows
    BY <1>1, <1>2, Fields
  <1>4. r \in AssetRows
    <2> HIDE DEF p
    <2>1. p.on \in BOOLEAN /\ p.text \in {"shipped", "legacy", "own"}
      BY <1>3 DEF AssetRows
    <2>. QED  BY <2>1, NewIsRow
  <1>5. Write(d)
    BY <1>1
  <1> HIDE DEF r, p
  <1>6. /\ Sound(d)
        /\ \A t \in Targets : KeptTarget(db, d, t)
        /\ \A item \in Items : Grows(db, d, item)
    BY <1>1, <1>2, <1>4, AssetWritten
  <1> HIDE DEF d
  <1>. QED  BY <1>1, <1>5, <1>6, CreateKeeps

\* The page of an accepted request: its item names an existing row of its kind.
LEMMA Shown ==
  ASSUME Inv, NEW c \in Clients, NEW kind, assertExpectedRevision(c, kind)
  PROVE  LET v == view[c] IN
         /\ kind \in Scopes => /\ v.item = <<kind, v.item[2]>> /\ v.item[2] \in Slugs
                               /\ db.asset[kind][v.item[2]] \in AssetRows
         /\ kind = "replace" => v.item[2] \in Slugs /\ db.asset["repository"][v.item[2]] \in AssetRows
         /\ kind = "target" => /\ v.item = <<kind, v.item[2]>> /\ v.item[2] \in Targets
                               /\ db.target[v.item[2]] \in TargetRows
         /\ kind = "engine" => /\ v.item = <<kind, v.item[2]>> /\ v.item[2] \in Engines
                               /\ db.engine[v.item[2]] \in EngineRows
  <1> DEFINE x == view[c].item
  <1>1. x \in Items /\ x[1] = kind /\ Row(db, x) # Absent /\ db \in Databases
    BY Expected DEF Inv, TypeOK
  <1> HIDE DEF x
  <1>2. "repository" \in Scopes /\ "target" \notin Scopes /\ "engine" \notin Scopes
        /\ "replace" \notin Scopes
    BY DEF Scopes
  <1>3. kind \in Scopes => x = <<kind, x[2]>> /\ x[2] \in Slugs /\ Row(db, x) = db.asset[kind][x[2]]
    BY <1>1, <1>2, ItemCases
  <1>4. kind = "replace" => x[2] \in Slugs /\ Row(db, x) = db.asset["repository"][x[2]]
    BY <1>1, <1>2, ItemCases
  <1>5. kind = "target" => x = <<kind, x[2]>> /\ x[2] \in Targets /\ Row(db, x) = db.target[x[2]]
    BY <1>1, <1>2, ItemCases
  <1>6. kind = "engine" => x = <<kind, x[2]>> /\ x[2] \in Engines /\ Row(db, x) = db.engine[x[2]]
    BY <1>1, <1>2, ItemCases
  <1>7. (kind \in Scopes => db.asset[kind][x[2]] \in AssetRows)
        /\ (kind = "replace" => db.asset["repository"][x[2]] \in AssetRows)
    BY <1>1, <1>2, <1>3, <1>4, Fields
  <1>8. (kind = "target" => db.target[x[2]] \in TargetRows)
        /\ (kind = "engine" => db.engine[x[2]] \in EngineRows)
    BY <1>1, <1>5, <1>6, Fields
  <1>. QED  BY <1>3, <1>4, <1>5, <1>6, <1>7, <1>8 DEF x

LEMMA UpdateAssetKeeps ==
  ASSUME Inv, NEW slugs, NEW c \in Clients, UpdateAsset(c, slugs)
  PROVE  Inv'
  <1> DEFINE k == view[c].item[2]
  <1>1. PICK s \in Scopes, on \in BOOLEAN, rewrite \in BOOLEAN :
           /\ assertExpectedRevision(c, s)
           /\ Commit(c, PutAsset(db, s, k, Bumped([db.asset[s][k] EXCEPT !.on = on,
                            !.text = IF rewrite THEN "own" ELSE @]), Owner(on)))
    BY Zenon DEF UpdateAsset
  <1> DEFINE r == db.asset[s][k]
             q == Bumped([r EXCEPT !.on = on, !.text = IF rewrite THEN "own" ELSE @])
             m == Owner(on)
             d == PutAsset(db, s, k, q, m)
  <1>2. k \in Slugs /\ r \in AssetRows
    <2>1. assertExpectedRevision(c, s)
      BY <1>1
    <2>. QED  BY <2>1, Shown
  <1>3. q \in AssetRows /\ q.rev > r.rev /\ m \in Marks
    <2> HIDE DEF r
    <2> DEFINE text == IF rewrite THEN "own" ELSE r.text
               w == [r EXCEPT !.on = on]
    <2>1. w \in AssetRows /\ w.text = r.text /\ w.rev = r.rev /\ r.rev \in Nat
          /\ r.text \in {"shipped", "legacy", "own"}
      BY <1>2 DEF AssetRows
    <2>2. text \in {"shipped", "legacy", "own"}
      BY <2>1
    <2>3. q = Bumped([w EXCEPT !.text = text])
      BY <1>2 DEF AssetRows
    <2> HIDE DEF w, text, q
    <2>4. q \in AssetRows /\ q.rev = w.rev + 1
      BY <2>1, <2>2, <2>3, Rewritten
    <2>5. m \in Marks
      BY DEF Owner, Marks
    <2>. QED  BY <2>1, <2>4, <2>5
  <1>4. Commit(c, d)
    BY <1>1
  <1> HIDE DEF q, m, k
  <1>5. /\ Sound(d)
        /\ \A t \in Targets : KeptTarget(db, d, t)
        /\ \A item \in Items : Grows(db, d, item)
    BY <1>2, <1>3, AssetWritten
  <1> HIDE DEF d
  <1>. QED  BY <1>4, <1>5, CommitKeeps

LEMMA DeleteAssetKeeps ==
  ASSUME Inv, NEW slugs, NEW c \in Clients, DeleteAsset(c, slugs)
  PROVE  Inv'
  <1> DEFINE k == view[c].item[2]
  <1>1. PICK s \in Scopes :
           /\ assertExpectedRevision(c, s)
           /\ ~(s = "repository" /\ IsBound(db, k))
           /\ Delete(c, PutAsset(db, s, k, Absent, "tombstone"))
    BY DEF DeleteAsset
  <1> DEFINE d == PutAsset(db, s, k, Absent, "tombstone")
  <1>2. k \in Slugs /\ view[c].item = <<s, k>>
    BY <1>1, Shown
  <1>3. Delete(c, d) /\ ~(s = "repository" /\ IsBound(db, k))
    BY <1>1
  <1> HIDE DEF k
  <1>4. /\ Sound(d)
        /\ \A t \in Targets : KeptTarget(db, d, t)
        /\ \A item \in Items : item # <<s, k>> => Grows(db, d, item)
    BY <1>2, <1>3, AssetDeleted
  <1> HIDE DEF d
  <1>. QED  BY <1>2, <1>3, <1>4, DeleteKeeps

LEMMA ReplaceAssetKeeps ==
  ASSUME Inv, NEW slugs, NEW c \in Clients, ReplaceAsset(c, slugs)
  PROVE  Inv'
  <1> DEFINE k == view[c].item[2]
             p == db.asset["public"][k]
             r == db.asset["repository"][k]
             q == [p EXCEPT !.rev = r.rev + 1]
             d == PutAsset(db, "repository", k, q, "override")
  <1>1. p # Absent /\ Commit(c, d)
    BY DEF ReplaceAsset
  <1>2. k \in Slugs /\ r \in AssetRows
    <2>1. assertExpectedRevision(c, "replace")
      BY Zenon DEF ReplaceAsset
    <2>. QED  BY <2>1, Shown
  <1>3. "repository" \in Scopes /\ "public" \in Scopes /\ "override" \in Marks /\ db \in Databases
    BY DEF Scopes, Marks, Inv, TypeOK
  <1>4. p \in AssetRows
    BY <1>1, <1>2, <1>3, Fields
  <1>5. q \in AssetRows /\ q.rev > r.rev
    <2> HIDE DEF p, r
    <2>1. r.rev \in Nat
      BY <1>2, RowFields
    <2>. QED  BY <1>4, <2>1 DEF AssetRows
  <1> HIDE DEF q, k
  <1>6. /\ Sound(d)
        /\ \A t \in Targets : KeptTarget(db, d, t)
        /\ \A item \in Items : Grows(db, d, item)
    BY <1>2, <1>3, <1>5, AssetWritten
  <1> HIDE DEF d
  <1>. QED  BY <1>1, <1>6, CommitKeeps

LEMMA CreateCommandKeeps == ASSUME Inv, CreateCommand PROVE Inv'
  <1> DEFINE row(t, p) == [on |-> TRUE, permission |-> p, bound |-> Current(t, p), help |-> FALSE, rev |-> 1]
  <1>1. PICK t \in Commands, p \in Permissions :
           /\ db.target[t] = Absent /\ BindingsValid(t, row(t, p))
           /\ Write(PutTarget(db, t, row(t, p), "override")) /\ UNCHANGED <<slot, view>>
    BY Zenon DEF CreateCommand
  <1> DEFINE r == row(t, p)
             d == PutTarget(db, t, r, "override")
  <1>2. t \in Targets
    BY DEF Targets
  <1>3. r \in TargetRows
    <2>1. Current(t, p) \in Seq(Binding)
      BY <1>2, CurrentIs
    <2>. QED  BY <2>1 DEF TargetRows, Binding
  <1>4. Write(d) /\ BindingsValid(t, r)
    BY <1>1
  <1> HIDE DEF r, row
  <1>5. /\ Sound(d)
        /\ \A u \in Targets : KeptTarget(db, d, u) \/ d.targetMark[u] # "seeded"
        /\ \A item \in Items : Grows(db, d, item)
    BY <1>1, <1>2, <1>3, <1>4, TargetWritten
  <1> HIDE DEF d
  <1>. QED  BY <1>1, <1>4, <1>5, CreateKeeps

LEMMA UpdateCommandKeeps == ASSUME Inv, NEW c \in Clients, UpdateCommand(c) PROVE Inv'
  <1> DEFINE t == view[c].item[2]
  <1>1. PICK next \in Edits(db.target[t]) :
           BindingsValid(t, next) /\ Commit(c, PutTarget(db, t, Bumped(next), Owner(next.on)))
    BY DEF UpdateCommand
  <1>2. t \in Targets /\ db.target[t] \in TargetRows
    <2>1. assertExpectedRevision(c, "target")
      BY DEF UpdateCommand
    <2>. QED  BY <2>1, Shown
  <1> DEFINE q == Bumped(next)
             m == Owner(next.on)
             d == PutTarget(db, t, q, m)
  <1>3. Commit(c, d)
    BY <1>1
  <1> HIDE DEF t
  <1>4. next \in TargetRows /\ next.rev = db.target[t].rev
    BY <1>1, <1>2, EditsAreRows
  <1>5. q \in TargetRows /\ BindingsValid(t, q) /\ q.rev = next.rev + 1
    BY <1>1, <1>4, BumpedEdit
  <1>6. m \in {"override", "disabled"} /\ db.target[t].rev \in Nat
    BY <1>2, RowFields DEF Owner
  <1> HIDE DEF q, m
  <1>7. q.rev > db.target[t].rev
    BY <1>4, <1>5, <1>6
  <1>8. /\ Sound(d)
        /\ \A u \in Targets : KeptTarget(db, d, u) \/ d.targetMark[u] # "seeded"
        /\ \A item \in Items : Grows(db, d, item)
    BY <1>2, <1>5, <1>6, <1>7, TargetWritten
  <1> HIDE DEF d
  <1>. QED  BY <1>3, <1>8, CommitKeeps

LEMMA DeleteCommandKeeps == ASSUME Inv, NEW c \in Clients, DeleteCommand(c) PROVE Inv'
  <1> DEFINE t == view[c].item[2]
             d == PutTarget(db, t, Absent, "tombstone")
  <1>1. t \in Commands /\ Delete(c, d)
    BY DEF DeleteCommand
  <1>2. view[c].item = <<"target", t>>
    <2>1. assertExpectedRevision(c, "target")
      BY DEF DeleteCommand
    <2>. QED  BY <2>1, Shown
  <1> HIDE DEF t
  <1>3. /\ Sound(d)
        /\ \A u \in Targets : KeptTarget(db, d, u) \/ d.targetMark[u] # "seeded"
        /\ \A item \in Items : item # <<"target", t>> => Grows(db, d, item)
    BY <1>1, TargetDeleted
  <1> HIDE DEF d
  <1>. QED  BY <1>1, <1>2, <1>3, DeleteKeeps

LEMMA ReadProfileKeeps == ASSUME Inv, NEW c \in Clients, ReadProfile(c) PROVE Inv'
  <1> DEFINE v == view[c]
             w == [v EXCEPT !.step = "saving"]
  <1>1. assertExpectedRevision(c, "target") /\ v.item[2] = "conversation"
        /\ UNCHANGED <<db, applied, slot, run, writes, skipped>>
    BY DEF ReadProfile
  <1>2. view' = [view EXCEPT ![c] = w]
    BY DEF ReadProfile
  <1>3. v \in Views /\ v # NoView /\ v.step = "shown" /\ Row(db, v.item) = v.seen
    BY <1>1, Expected
  <1>4. v.item = <<"target", "conversation">> /\ db.target["conversation"] \in TargetRows
    BY <1>1, Shown
  <1>5. v.seen \in TargetRows
    BY <1>3, <1>4 DEF Row, Scopes
  <1> HIDE DEF v
  <1>6. "saving" \in Steps /\ slot' \in BOOLEAN
    BY <1>1 DEF Steps, Inv, TypeOK
  <1>7. w \in Views /\ Same(v, w) /\ w.step = "saving"
    BY <1>3, <1>6, Stepped DEF Same
  <1> HIDE DEF w
  <1>8. v.step # "gone" /\ w.item = <<"target", "conversation">> /\ w.seen \in TargetRows
    BY <1>3, <1>4, <1>5, <1>7 DEF Same
  <1>. QED  BY <1>1, <1>2, <1>3, <1>6, <1>7, <1>8, PageMoves DEF v

LEMMA SaveProfileKeeps == ASSUME Inv, NEW c \in Clients, SaveProfile(c) PROVE Inv'
  <1> DEFINE t == "conversation"
             p == db.target[t]
  <1>1. PICK next \in Edits(view[c].seen) :
           /\ next.on /\ BindingsValid(t, next)
           /\ Commit(c, PutTarget(db, t, Bumped([next EXCEPT !.rev = p.rev]), "override"))
    BY DEF SaveProfile
  <1>2. view[c] # NoView /\ view[c].step = "saving"
    BY DEF SaveProfile
  <1>3. db \in Databases /\ t \in Targets
    BY DEF Inv, TypeOK, Targets
  <1>4. view[c].seen \in TargetRows /\ p \in TargetRows
    <2>1. Page(db, view[c])
      BY <1>2, PagesIs DEF Inv
    <2>2. view[c].item = <<"target", t>> /\ view[c].seen \in TargetRows /\ Row(db, view[c].item) # Absent
      BY <1>2, <2>1 DEF Page, Fresher
    <2>3. Row(db, view[c].item) = p
      BY <2>2 DEF Row, Scopes
    <2>. QED  BY <1>3, <2>2, <2>3, Fields
  <1> DEFINE n == [next EXCEPT !.rev = p.rev]
             q == Bumped(n)
             d == PutTarget(db, t, q, "override")
  <1>5. Commit(c, d)
    BY <1>1
  <1>6. next \in TargetRows /\ p.rev \in Nat
    BY <1>1, <1>4, EditsAreRows, RowFields
  <1>7. n \in TargetRows /\ n.on = next.on /\ n.help = next.help /\ n.bound = next.bound /\ n.rev = p.rev
    <2> HIDE DEF p
    <2>. QED  BY <1>6, RowUpdates
  <1> HIDE DEF t, p, n
  <1>8. BindingsValid(t, n)
    <2>1. BoundTo(n) = BoundTo(next) /\ Active(n) = Active(next)
      BY <1>7, BoundIs
    <2>. QED  BY <1>1, <1>7, <2>1 DEF BindingsValid
  <1>9. q \in TargetRows /\ BindingsValid(t, q) /\ q.rev > p.rev
    <2>1. q \in TargetRows /\ BindingsValid(t, q) /\ q.rev = n.rev + 1
      BY <1>7, <1>8, BumpedEdit
    <2>. QED  BY <1>6, <1>7, <2>1
  <1> HIDE DEF q
  <1>10. /\ Sound(d)
         /\ \A u \in Targets : KeptTarget(db, d, u) \/ d.targetMark[u] # "seeded"
         /\ \A item \in Items : Grows(db, d, item)
    BY <1>3, <1>9, TargetWritten DEF p
  <1> HIDE DEF d
  <1>. QED  BY <1>5, <1>10, CommitKeeps

LEMMA UpdateEngineKeeps ==
  ASSUME Inv, NEW c \in Clients, NEW g \in Engines, UpdateEngine(c, g)
  PROVE  Inv'
  <1> DEFINE r == db.engine[g]
  <1>1. PICK on \in BOOLEAN : Commit(c, SaveEngine(db, g, [r EXCEPT !.on = on]))
    BY DEF UpdateEngine
  <1>2. r \in EngineRows /\ r # Absent
    <2>1. assertExpectedRevision(c, "engine") /\ view[c].item[2] = g
      BY DEF UpdateEngine
    <2>. QED  BY <2>1, Shown, RowFields
  <1> DEFINE q == [r EXCEPT !.on = on]
             d == SaveEngine(db, g, q)
  <1>3. q \in EngineRows /\ q.rev = r.rev
    <2> HIDE DEF r
    <2>. QED  BY <1>2 DEF EngineRows
  <1>4. Commit(c, d)
    BY <1>1
  <1> HIDE DEF q
  <1>5. /\ Sound(d)
        /\ \A u \in Targets : KeptTarget(db, d, u)
        /\ \A item \in Items : Grows(db, d, item)
    BY <1>2, <1>3, EngineWritten
  <1> HIDE DEF d
  <1>. QED  BY <1>4, <1>5, CommitKeeps

\* The credential's requests: the two steps of one that sets it ...
LEMMA WriteSecretKeeps == ASSUME Inv, NEW c \in Clients, WriteSecret(c) PROVE Inv'
  <1> DEFINE v == view[c]
             w == [v EXCEPT !.step = "setting"]
  <1>1. assertExpectedRevision(c, "engine") /\ v.item[2] = "provider" /\ slot' = TRUE
        /\ UNCHANGED <<db, applied, run, writes, skipped>>
    BY DEF WriteSecret
  <1>2. view' = [view EXCEPT ![c] = w]
    BY DEF WriteSecret
  <1>3. v \in Views /\ v # NoView /\ v.step = "shown"
    BY <1>1, Expected
  <1>4. v.item = <<"engine", "provider">>
    BY <1>1, Shown
  <1> HIDE DEF v
  <1>5. "setting" \in Steps /\ slot' \in BOOLEAN
    BY <1>1 DEF Steps
  <1>6. w \in Views /\ Same(v, w) /\ w.step = "setting"
    BY <1>3, <1>5, Stepped DEF Same
  <1> HIDE DEF w
  <1>7. v.step # "gone" /\ w.item = <<"engine", "provider">>
    BY <1>3, <1>4, <1>6 DEF Same
  <1>. QED  BY <1>1, <1>2, <1>3, <1>5, <1>6, <1>7, PageMoves DEF v

LEMMA ReferSecretKeeps == ASSUME Inv, NEW c \in Clients, ReferSecret(c) PROVE Inv'
  <1> DEFINE r == db.engine["provider"]
             q == [r EXCEPT !.ref = "slot"]
             d == SaveEngine(db, "provider", q)
  <1>1. view[c] # NoView /\ view[c].step = "setting" /\ Commit(c, d)
    BY DEF ReferSecret
  <1>2. db \in Databases /\ "provider" \in Engines
    BY DEF Inv, TypeOK, Engines
  <1>3. r \in EngineRows /\ r # Absent
    <2>1. Page(db, view[c])
      BY <1>1, PagesIs DEF Inv
    <2>2. view[c].item = <<"engine", "provider">> /\ Row(db, view[c].item) # Absent
      BY <1>1, <2>1 DEF Page, Fresher
    <2>3. Row(db, view[c].item) = r
      BY <2>2 DEF Row, Scopes
    <2>. QED  BY <1>2, <2>2, <2>3, Fields
  <1>4. q \in EngineRows /\ q.rev = r.rev
    <2> HIDE DEF r
    <2>. QED  BY <1>3 DEF EngineRows
  <1> HIDE DEF q
  <1>5. /\ Sound(d)
        /\ \A u \in Targets : KeptTarget(db, d, u)
        /\ \A item \in Items : Grows(db, d, item)
    BY <1>2, <1>3, <1>4, EngineWritten
  <1> HIDE DEF d
  <1>. QED  BY <1>1, <1>5, CommitKeeps

\* ... and the first of one that removes it.
LEMMA ForgetSecretKeeps == ASSUME Inv, NEW c \in Clients, ForgetSecret(c) PROVE Inv'
  <1> DEFINE r == db.engine["provider"]
             q == [r EXCEPT !.ref = "none"]
             d == SaveEngine(db, "provider", q)
             v == view[c]
             w == [v EXCEPT !.step = "removing"]
  <1>1. assertExpectedRevision(c, "engine") /\ v.item[2] = "provider" /\ slot' = slot
    BY DEF ForgetSecret
  <1>2. Write(d)
    BY DEF ForgetSecret
  <1>3. view' = [view EXCEPT ![c] = IF r.ref = "slot" THEN w ELSE NoView]
    BY DEF ForgetSecret
  <1>4. v \in Views /\ v # NoView /\ v.step = "shown"
    BY <1>1, Expected
  <1>5. v.item = <<"engine", "provider">> /\ r \in EngineRows /\ r # Absent
    BY <1>1, Shown, RowFields
  <1>6. "removing" \in Steps /\ "provider" \in Engines /\ slot' \in BOOLEAN
        /\ view \in [Clients -> Views \union {NoView}] /\ db \in Databases
    BY <1>1 DEF Steps, Engines, Inv, TypeOK
  <1>7. q \in EngineRows /\ q.rev = r.rev
    <2> HIDE DEF r
    <2>. QED  BY <1>5 DEF EngineRows
  <1> HIDE DEF q
  <1>8. /\ Sound(d)
        /\ \A u \in Targets : KeptTarget(db, d, u)
        /\ \A item \in Items : Grows(db, d, item)
    BY <1>5, <1>6, <1>7, EngineWritten
  <1>9. db' = d /\ db' \in Databases
    BY <1>2, <1>8 DEF Write, Sound
  <1> HIDE DEF d, v
  <1>10. w \in Views /\ Same(v, w) /\ w.step = "removing"
    BY <1>4, <1>6, Stepped DEF Same
  <1> HIDE DEF w
  <1>11. view' \in [Clients -> Views \union {NoView}]
    BY <1>3, <1>6, <1>10
  <1>12. Pages'
    <2> SUFFICES ASSUME NEW e \in Clients, view'[e] # NoView PROVE Page(db', view'[e])
      BY DEF Pages, Page
    <2>1. view[e] # NoView /\ view[e] \in Views /\ view[e].item \in Items
      BY <1>3, <1>4, <1>6, ViewFields DEF v
    <2>2. Grows(db, db', view[e].item) /\ Page(db, view[e])
      BY <1>8, <1>9, <2>1, PagesIs DEF Inv
    <2>3. CASE e = c
      <3>1. view'[e] = w /\ view[e] = v
        BY <1>3, <1>6, <2>3 DEF v
      <3>2. w.item = <<"engine", "provider">> /\ v.step # "gone"
        BY <1>4, <1>5, <1>10 DEF Same
      <3>. QED  BY <1>4, <1>6, <1>9, <1>10, <2>2, <3>1, <3>2, PageKept
    <2>4. CASE e # c
      <3>1. view'[e] = view[e]
        BY <1>3, <1>6, <2>4
      <3>2. view[e].step # "gone" => Page(db', view[e])
        BY <1>6, <1>9, <2>1, <2>2, PageKept DEF Page, Same
      <3>. QED  BY <3>1, <3>2 DEF Page
    <2>. QED  BY <2>3, <2>4
  <1>. QED  BY <1>2, <1>6, <1>8, <1>11, <1>12, WriteKeeps

LEMMA OperatorsKeep == ASSUME Inv, NEW c \in Clients, Operators(c) PROVE Inv'
  <1>1. CASE Open(c)
    BY <1>1, OpenKeeps
  <1>2. CASE GiveUp(c)
    <2>1. view' = [view EXCEPT ![c] = NoView] /\ slot' = slot
          /\ UNCHANGED <<db, applied, run, writes, skipped>>
      BY <1>2 DEF GiveUp
    <2>2. slot' \in BOOLEAN
      BY <2>1 DEF Inv, TypeOK
    <2>. QED  BY <2>1, <2>2, PageMoves
  <1>3. CASE UpdatePrompt(c) \/ UpdateSkill(c)
    BY <1>3, UpdateAssetKeeps DEF UpdatePrompt, UpdateSkill
  <1>4. CASE DeletePrompt(c) \/ DeleteSkill(c)
    BY <1>4, DeleteAssetKeeps DEF DeletePrompt, DeleteSkill
  <1>5. CASE CopyPublicPrompt(c) \/ CopyPublicSkill(c)
    BY <1>5, CopyAssetKeeps, ReplaceAssetKeeps DEF CopyPublicPrompt, CopyPublicSkill
  <1>6. CASE UpdateCommand(c) \/ DeleteCommand(c)
    BY <1>6, UpdateCommandKeeps, DeleteCommandKeeps
  <1>7. CASE ReadProfile(c) \/ SaveProfile(c)
    BY <1>7, ReadProfileKeeps, SaveProfileKeeps
  <1>8. CASE UpdateProvider(c) \/ UpdateProviderModel(c)
    <2>1. "provider" \in Engines /\ "model" \in Engines
      BY DEF Engines
    <2>. QED  BY <1>8, <2>1, UpdateEngineKeeps DEF UpdateProvider, UpdateProviderModel
  <1>9. CASE WriteSecret(c) \/ ReferSecret(c) \/ ForgetSecret(c)
    BY <1>9, WriteSecretKeeps, ReferSecretKeeps, ForgetSecretKeeps
  <1>10. CASE RemoveSecret(c)
    <2>1. view' = [view EXCEPT ![c] = NoView] /\ slot' = FALSE
          /\ UNCHANGED <<db, applied, run, writes, skipped>>
      BY <1>10 DEF RemoveSecret
    <2>2. slot' \in BOOLEAN
      BY <2>1
    <2>. QED  BY <2>1, <2>2, PageMoves
  <1>. QED
    BY <1>1, <1>2, <1>3, <1>4, <1>5, <1>6, <1>7, <1>8, <1>9, <1>10 DEF Operators

LEMMA InvStep == ASSUME Inv, [Next]_vars PROVE Inv'
  <1>1. CASE Bootstrap
    <2>1. run' \in {"idle", "ready", "refused"}
      BY <1>1 DEF Bootstrap, Inv, TypeOK
    <2>. QED  BY <1>1, <2>1, BootstrapKeeps DEF Bootstrap
  <1>2. CASE Migrate
    BY <1>2, MigrateKeeps
  <1>3. CASE Start
    <2>1. CASE BootstrapRefused(db)
      BY <1>3, <2>1 DEF Start, Inv, TypeOK, Retired, Pages
    <2>2. CASE ~BootstrapRefused(db)
      BY <1>3, <2>2, BootstrapKeeps DEF Start
    <2>. QED  BY <2>1, <2>2
  <1>4. CASE \E t \in Targets : Resolve(t)
    BY <1>4 DEF Resolve, Inv, TypeOK, Retired, Pages
  <1>5. CASE End
    BY <1>5 DEF End, Inv, TypeOK, Retired, Pages
  <1>6. CASE CreatePrompt \/ CreateSkill
    BY <1>6, CreateAssetKeeps DEF CreatePrompt, CreateSkill
  <1>7. CASE CreateCommand
    BY <1>7, CreateCommandKeeps
  <1>8. CASE \E c \in Clients : Operators(c)
    BY <1>8, OperatorsKeep
  <1>9. CASE UNCHANGED vars
    BY <1>9 DEF vars, Inv, TypeOK, Retired, Pages
  <1>. QED  BY <1>1, <1>2, <1>3, <1>4, <1>5, <1>6, <1>7, <1>8, <1>9 DEF Next

LEMMA Invariant == Spec => []Inv
  BY InvInit, InvStep, PTL DEF Spec

\* The rows, the markers, the pages and the counters have their types.
THEOREM TypeCorrect == Spec => []TypeOK
  <1>1. Inv => TypeOK
    BY DEF Inv
  <1>. QED  BY <1>1, Invariant, PTL

\* A command or the profile binds only assets that exist, and has its main
\* prompt while it is enabled: the guards of deletePrompt and deleteSkill, of the
\* saves, and of the bootstrap and the migrations, keep it together.
THEOREM BindingsAlwaysHold == Spec => []BindingsHold
  <1>1. Inv => BindingsHold
    BY DEF Inv, Bindings, Holds, BindingsHold
  <1>. QED  BY <1>1, Invariant, PTL

-----------------------------------------------------------------------------
(* Migrated installations *)

LEMMA InvResolves == ASSUME Inv PROVE MigratedInstallsResolve
  <1> SUFFICES ASSUME applied = Migrations, NEW t \in Targets, db.targetMark[t] = "seeded",
                      t \in skipped => "retry" \notin BoundTo(db.target[t]),
                      \A k \in BoundTo(db.target[t]) \union {"help"} : Usable(db, k),
                      \A e \in Engines : db.engine[e].on /\ db.engine["provider"].ref # "none"
               PROVE  Resolvable(db, t)
    BY DEF MigratedInstallsResolve
  <1> DEFINE c == db.target[t]
  <1>1. c # Absent /\ db.repo > 0
    BY DEF Inv, Marked
  <1>2. /\ c.on /\ BoundTo(c) \subseteq Active(c)
        /\ \A e \in Engines : db.engine[e] # Absent
        /\ c.permission = "read_write_approval" => "plan" \in BoundTo(c)
    BY DEF Inv, Owned, Deploys
  <1>3. "retry" \notin BoundTo(c)
    BY DEF Inv, Retired
  <1>4. c \in TargetRows
    BY <1>1, Fields DEF Inv, TypeOK
  <1> HIDE DEF c
  <1>5. Active(c) \subseteq BoundTo(c) /\ BoundTo(c) \subseteq Slugs
    BY <1>4, RowFields, BoundIs, EnabledIsBound DEF Slugs
  <1>6. MainFor(t) \in Active(c)
    BY <1>1, <1>2 DEF c, Inv, Bindings, Holds
  <1>7. Active(c) \subseteq NewRuns
    BY <1>3, <1>5 DEF NewRuns
  <1>8. /\ \A k \in Active(c) : Usable(db, k)
        /\ c.help => Usable(db, "help")
        /\ db.engine["provider"].ref # "none"
    BY <1>5 DEF c, Engines
  <1>. QED  BY <1>1, <1>2, <1>6, <1>7, <1>8 DEF Resolvable, c

\* After the migrations a target PatchPaw owns resolves, whichever release
\* installed the repository and whatever else the operators did.
THEOREM MigratedTargetsResolve == Spec => []MigratedInstallsResolve
  BY InvResolves, Invariant, PTL

-----------------------------------------------------------------------------
(* Maintenance respects the operators *)

LEMMA MaintainsRespects ==
  ASSUME Inv, Maintains(db, db')
  PROVE  OperatorRespected
  <1>1. ASSUME NEW s \in Scopes, NEW k \in Slugs
        PROVE  LET r == db.asset[s][k] IN
               /\ r = Absent /\ db.mark[s][k] \in Gone => db'.asset[s][k] = Absent
               /\ r # Absent => (~r.on \/ r.text = "own" => db'.asset[s][k] = r)
    BY DEF Maintains, KeptAsset, FilledAsset
  <1>2. ASSUME NEW t \in Targets
        PROVE  LET c == db.target[t] IN
               /\ db.targetMark[t] \in Gone => db'.target[t] = c
               /\ db.targetMark[t] = "override" =>
                     db'.target[t] = c \/ c.bound \in Historical(t, c.permission)
    BY DEF Inv, Marked, Maintains, KeptTarget, ConvergedTarget, Gone
  <1>3. ASSUME NEW e \in Engines, db.engineMark[e] \notin {"none", "seeded"}
        PROVE  db'.engine[e] = db.engine[e]
    BY <1>3 DEF Inv, Marked, Maintains, KeptEngine, FilledEngine
  <1>. QED  BY <1>1, <1>2, <1>3 DEF OperatorRespected

LEMMA WritesCount == ASSUME Inv, NEW d, Write(d) PROVE writes' # writes
  BY WritesAssumption DEF Write, Inv, TypeOK

\* A request writes nothing, or copies an asset, or replaces or deletes the row
\* its page shows at the revision it shows, or goes on with a save it began.
Accepted(c, d) ==
    /\ \E kind : assertExpectedRevision(c, kind)
    /\ Write(d)
    /\ Delete(c, d) \/ \E x : view' = [view EXCEPT ![c] = x]
Requested(c) ==
    \/ UNCHANGED <<db, writes>>
    \/ view' = view /\ \E d : Write(d)
    \/ \E d : Accepted(c, d)
    \/ (SaveProfile(c) \/ ReferSecret(c)) /\ \E d : Commit(c, d)

LEMMA Requests == ASSUME NEW c \in Clients, Operators(c) PROVE Requested(c)
  <1>1. CASE Open(c) \/ GiveUp(c) \/ ReadProfile(c) \/ WriteSecret(c) \/ RemoveSecret(c)
    BY <1>1 DEF Open, GiveUp, ReadProfile, WriteSecret, RemoveSecret, Requested
  <1>2. CASE SaveProfile(c)
    BY <1>2 DEF SaveProfile, Requested
  <1>3. CASE ReferSecret(c)
    BY <1>3 DEF ReferSecret, Requested
  <1>4. ASSUME NEW slugs, UpdateAsset(c, slugs) PROVE Requested(c)
    <2>1. \E d : Commit(c, d) /\ \E kind : assertExpectedRevision(c, kind)
      BY <1>4, Zenon DEF UpdateAsset
    <2>. QED  BY <2>1 DEF Commit, Accepted, Requested
  <1>5. ASSUME NEW slugs, DeleteAsset(c, slugs) PROVE Requested(c)
    <2>1. \E d : Delete(c, d) /\ \E kind : assertExpectedRevision(c, kind)
      BY <1>5, Zenon DEF DeleteAsset
    <2>. QED  BY <2>1 DEF Delete, Accepted, Requested
  <1>6. ASSUME NEW slugs, CopyAsset(slugs) PROVE Requested(c)
    <2>1. view' = view /\ \E d : Write(d)
      BY <1>6 DEF CopyAsset
    <2>. QED  BY <2>1 DEF Requested
  <1>7. ASSUME NEW slugs, ReplaceAsset(c, slugs) PROVE Requested(c)
    <2>1. \E d : Commit(c, d) /\ \E kind : assertExpectedRevision(c, kind)
      BY <1>7, Zenon DEF ReplaceAsset
    <2>. QED  BY <2>1 DEF Commit, Accepted, Requested
  <1>8. CASE UpdateCommand(c)
    <2>1. \E d : Commit(c, d) /\ \E kind : assertExpectedRevision(c, kind)
      BY <1>8, Zenon DEF UpdateCommand
    <2>. QED  BY <2>1 DEF Commit, Accepted, Requested
  <1>9. CASE DeleteCommand(c)
    <2>1. \E d : Delete(c, d) /\ \E kind : assertExpectedRevision(c, kind)
      BY <1>9, Zenon DEF DeleteCommand
    <2>. QED  BY <2>1 DEF Delete, Accepted, Requested
  <1>10. ASSUME NEW g, UpdateEngine(c, g) PROVE Requested(c)
    <2>1. \E d : Commit(c, d) /\ \E kind : assertExpectedRevision(c, kind)
      BY <1>10, Zenon DEF UpdateEngine
    <2>. QED  BY <2>1 DEF Commit, Accepted, Requested
  <1>11. CASE ForgetSecret(c)
    <2>1. \E d : Write(d) /\ \E kind : assertExpectedRevision(c, kind)
      BY <1>11, Zenon DEF ForgetSecret
    <2>2. \E x : view' = [view EXCEPT ![c] = x]
      BY <1>11, Zenon DEF ForgetSecret
    <2>. QED  BY <2>1, <2>2 DEF Accepted, Requested
  <1>. QED
    BY <1>1, <1>2, <1>3, <1>4, <1>5, <1>6, <1>7, <1>8, <1>9, <1>10, <1>11
    DEF Operators, UpdatePrompt, UpdateSkill, DeletePrompt, DeleteSkill, CopyPublicPrompt,
        CopyPublicSkill, UpdateProvider, UpdateProviderModel

\* What an operator creates is in no page's way.
LEMMA Creations ==
  ASSUME CreatePrompt \/ CreateSkill \/ CreateCommand
  PROVE  view' = view /\ \E d : Write(d)
  BY DEF CreatePrompt, CreateSkill, CreateAsset, CreateCommand

LEMMA StepRespects == ASSUME Inv, [Next]_vars PROVE OperatorRespected
  <1> SUFFICES ASSUME writes' = writes PROVE OperatorRespected
    BY DEF OperatorRespected
  <1>1. \/ Bootstrap \/ Migrate \/ Start
        \/ (\E d : Write(d))
        \/ db' = db
    <2>1. ASSUME NEW c \in Clients, Operators(c) PROVE (\E d : Write(d)) \/ db' = db
      BY <2>1, Requests DEF Requested, Accepted, Commit
    <2>. QED  BY <2>1, Creations DEF Next, vars, Resolve, End
  <1>2. db \in Databases /\ run \in {"idle", "ready", "refused"}
    BY DEF Inv, TypeOK
  <1>3. CASE db' = db
    BY <1>2, <1>3, MaintainsNothing, MaintainsRespects
  <1>4. CASE Bootstrap
    BY <1>2, <1>4, BootstrapKeeps, MaintainsRespects DEF Bootstrap
  <1>5. CASE Migrate
    BY <1>5, MigrateKeeps, MaintainsRespects
  <1>6. CASE Start
    BY <1>2, <1>3, <1>6, BootstrapKeeps, MaintainsRespects DEF Start
  <1>7. ASSUME NEW d, Write(d) PROVE FALSE
    BY <1>7, WritesCount
  <1>. QED  BY <1>1, <1>3, <1>4, <1>5, <1>6, <1>7

\* No bootstrap and no migration undoes what an operator decided.
THEOREM OperatorsAreRespected == Spec => MaintenanceRespectsOperator
  BY StepRespects, Invariant, PTL DEF Spec, MaintenanceRespectsOperator

-----------------------------------------------------------------------------
(* Saves *)

LEMMA StepReplaces == ASSUME Inv, [Next]_vars PROVE ReplacesWhatWasSeen
  <1> SUFFICES ASSUME NEW c \in Clients, view[c] # NoView, view'[c] = NoView,
                      view[c].item # <<"target", "conversation">>, writes' = writes + 1
               PROVE  Row(db, view[c].item) = view[c].seen
    BY DEF ReplacesWhatWasSeen
  <1>1. writes \in Nat /\ view \in [Clients -> Views \union {NoView}]
    BY WritesAssumption DEF Inv, TypeOK
  <1>2. writes' # writes
    BY <1>1
  <1>3. PICK e \in Clients : Operators(e)
    BY <1>2, Creations DEF Next, vars, Bootstrap, Migrate, Start, Resolve, End
  <1>4. \/ \E d : Accepted(e, d)
        \/ (SaveProfile(e) \/ ReferSecret(e)) /\ \E d : Commit(e, d)
    BY <1>2, <1>3, Requests DEF Requested
  <1>5. e = c
    <2>1. \/ \E x : view' = [view EXCEPT ![e] = x]
          \/ \E d : Delete(e, d)
      BY <1>4 DEF Accepted, Commit
    <2>2. ASSUME NEW x, view' = [view EXCEPT ![e] = x] PROVE e = c
      BY <1>1, <2>2
    <2>3. ASSUME NEW d, Delete(e, d), e # c PROVE FALSE
      <3>1. view[c] \in Views /\ "gone" \in Steps
        BY <1>1 DEF Steps
      <3>2. [view[c] EXCEPT !.step = "gone"] # NoView
        BY <3>1, Stepped, ViewFields
      <3>. QED  BY <2>3, <3>2 DEF Delete
    <2>. QED  BY <2>1, <2>2, <2>3
  <1>6. CASE \E kind : assertExpectedRevision(e, kind)
    BY <1>5, <1>6, Expected
  <1>7. Page(db, view[c])
    BY PagesIs DEF Inv
  <1>8. CASE SaveProfile(e)
    BY <1>5, <1>7, <1>8 DEF SaveProfile, Page
  <1>9. CASE ReferSecret(e)
    <2>1. /\ view[c].step = "setting" /\ view[c].item = <<"engine", "provider">>
          /\ db.engine["provider"].rev = view[c].rev
      BY <1>5, <1>7, <1>9 DEF ReferSecret, Page
    <2>2. Row(db, view[c].item) = db.engine["provider"] /\ view[c].item[1] # "replace"
      BY <2>1 DEF Row, Scopes
    <2>3. Fresher(db, view[c])
      BY <1>7, <2>1 DEF Page
    <2>. QED  BY <2>1, <2>2, <2>3 DEF Fresher, Revision
  <1>. QED  BY <1>4, <1>6, <1>8, <1>9 DEF Accepted

\* A save that is accepted replaces what its page showed: a stale page's
\* revision is never the row's.
THEOREM NoUpdateIsLost == Spec => NoLostUpdate
  BY StepReplaces, Invariant, PTL DEF Spec, NoLostUpdate

=============================================================================
