---------------------------- MODULE ControlPlane ----------------------------
(***************************************************************************)
(* The control plane: the database that says what each command of a        *)
(* repository runs with (src/control-plane).  Three kinds of writer    *)
(* share it.  Operators edit prompts, skills, commands, the conversation   *)
(* profile, the provider, its model and its credential through the admin   *)
(* API, from pages they opened earlier.  The bootstrap fills in what the   *)
(* release ships, at every run.  The builtin migrations bring an older     *)
(* installation to this release, once.  A worker then resolves its target  *)
(* into the snapshot it runs with.                                         *)
(*                                                                         *)
(* Each write is one SQLite transaction, so the database is one variable   *)
(* and a transaction an operator on its value.  The credential's file is   *)
(* outside the database, and the profile is read before its transaction:   *)
(* those requests take two steps.                                          *)
(*                                                                         *)
(* One repository, one provider and one model.  /ci is left out: it is     *)
(* /conflict without the plan prompt.  verify stands for the four repair   *)
(* prompts only the historical layouts bind, closeout for the closeouts.   *)
(***************************************************************************)
EXTENDS Naturals, Sequences, FiniteSets, SequencesExt

CONSTANTS
    Clients,     \* the pages open on the admin console
    Absent,      \* no such row
    NoView,      \* a page that shows nothing
    Editable,    \* bound: the slugs the operators write
    MaxWrites    \* bound: the operators' committed writes

ASSUME WritesAssumption == MaxWrites \in Nat

VARIABLES
    db,          \* the database
    applied,     \* the migrations recorded in builtin_asset_migrations
    slot,        \* the provider's secret file exists
    view,        \* client |-> the row its page shows, and how far its request is
    run,         \* a worker's request: idle, ready (bootstrapped) or refused
    writes,      \* how many writes the operators committed
    skipped      \* history: the targets whose layout no migration could converge

vars == <<db, applied, slot, view, run, writes, skipped>>

-----------------------------------------------------------------------------
(* Assets, commands and their owners *)

Prompts == {"review", "conflict", "conversation", "verify", "plan", "closeout", "shared", "retry"}
Slugs == Prompts \union {"help"}
Scopes == {"public", "repository"}
NewRuns == Slugs \ {"retry"}
Opaque == {"review", "conflict", "conversation", "verify", "closeout"}
Commands == {"review", "conflict"}
Targets == Commands \union {"conversation"}
Engines == {"provider", "model"}
Permissions == {"read_only", "read_write", "read_write_approval"}
Marks == {"none", "seeded", "override", "disabled", "tombstone"}
Gone == {"disabled", "tombstone"}

On(slugs) == [i \in DOMAIN slugs |-> [slug |-> slugs[i], on |-> TRUE]]

Current(t, permission) ==
    LET plan == IF permission = "read_write_approval" THEN <<"plan">> ELSE <<>>
    IN CASE t = "conversation" -> On(<<"conversation", "shared", "closeout">>)
         [] OTHER -> On(<<t, "closeout">> \o plan \o <<"shared">>)

\* Mutant: the layout with the retired retry prompt is not known.
Historical_NoRetry(t, permission) ==
    CASE t = "conflict" /\ permission = "read_write" ->
            {On(<<"conflict", "verify", "closeout", "shared">>)}
      [] t = "conflict" /\ permission = "read_write_approval" ->
            {On(<<"conflict", "verify", "closeout", "shared", "plan">>),
             On(<<"conflict", "verify", "closeout", "plan", "shared">>)}
      [] OTHER -> {}

Historical(t, permission) ==
    CASE t = "review" ->
            {On(<<"review", "retry", "closeout", "shared">>)} \union
            (IF permission = "read_write_approval"
             THEN {On(<<"review", "retry", "closeout", "shared", "plan">>)} ELSE {})
      [] t = "conflict" /\ permission = "read_write" ->
            {On(<<"conflict", "verify", "closeout", "shared">>)}
      [] t = "conflict" /\ permission = "read_write_approval" ->
            {On(<<"conflict", "verify", "closeout", "shared", "plan">>),
             On(<<"conflict", "verify", "closeout", "plan", "shared">>)}
      [] OTHER -> {}

Shipped(t) == CASE t = "review" -> "read_only" [] t = "conflict" -> "read_write_approval"
                [] t = "conversation" -> "read_only"

Auxiliary(t) == IF t = "conflict" THEN <<"closeout", "plan">> ELSE <<"closeout">>

Have(d, s) == {k \in Slugs : d.asset[s][k] # Absent}
Usable(d, k) == d.asset["repository"][k] # Absent /\ d.asset["repository"][k].on
BoundTo(c) == {c.bound[i].slug : i \in DOMAIN c.bound}
Active(c) == {c.bound[i].slug : i \in {j \in DOMAIN c.bound : c.bound[j].on}}
IsBound(d, k) == \E t \in Targets : d.target[t] # Absent
                    /\ (k \in BoundTo(d.target[t]) \/ (k = "help" /\ d.target[t].help))

putMarker(d, s, k, m) == [d EXCEPT !.mark[s][k] = m]
bumpRepository(d) == [d EXCEPT !.repo = @ + 1]
PutAsset(d, s, k, r, m) ==
    LET e == putMarker([d EXCEPT !.asset[s][k] = r], s, k, m)
    IN IF s = "repository" THEN bumpRepository(e) ELSE e
PutTarget(d, t, r, m) ==
    bumpRepository([d EXCEPT !.target[t] = r, !.targetMark[t] = m])

Bumped(r) == [r EXCEPT !.rev = @ + 1]
New(text, on) == [text |-> text, on |-> on, rev |-> 1]

-----------------------------------------------------------------------------
(* What a run needs: the resolver *)

MainFor(t) == t
Resolvable(d, t) ==
    LET c == d.target[t] IN
    /\ d.repo > 0 /\ c # Absent /\ c.on
    /\ \A k \in Active(c) : Usable(d, k)
    /\ c.help => Usable(d, "help")
    /\ Active(c) \subseteq NewRuns
    /\ MainFor(t) \in Active(c)
    /\ c.permission = "read_write_approval" => "plan" \in Active(c)
    /\ \A e \in Engines : d.engine[e] # Absent /\ d.engine[e].on
    /\ d.engine["provider"].ref # "none"

-----------------------------------------------------------------------------
(* The bootstrap: one transaction, refused as a whole *)

SeedPublic(d) ==
    LET missing == {k \in Slugs : d.asset["public"][k] = Absent /\ d.mark["public"][k] \notin Gone}
    IN [d EXCEPT !.asset["public"] = [k \in Slugs |-> IF k \in missing THEN New("shipped", TRUE) ELSE @[k]],
                 !.mark["public"] = [k \in Slugs |-> IF k \in missing THEN "seeded" ELSE @[k]]]

SeedEngines(d) ==
    [d EXCEPT !.engine = [e \in Engines |->
                 IF @[e] = Absent THEN [on |-> TRUE, ref |-> "env", rev |-> 1] ELSE @[e]],
              !.engineMark = [e \in Engines |-> IF d.engine[e] = Absent THEN "seeded" ELSE @[e]]]

ManageRepository(d) == IF d.repo = 0 THEN [d EXCEPT !.repo = 1] ELSE d

Copied(d) == Have(d, "public") \intersect NewRuns \intersect Have(d, "repository")

CopyAssets(d) ==
    LET copies == {k \in Have(d, "public") \intersect NewRuns :
                      d.asset["repository"][k] = Absent /\ d.mark["repository"][k] \notin Gone}
        e == [d EXCEPT
                !.asset["repository"] = [k \in Slugs |->
                    IF k \in copies THEN New(d.asset["public"][k].text, d.asset["public"][k].on) ELSE @[k]],
                !.mark["repository"] = [k \in Slugs |-> IF k \in copies THEN "seeded" ELSE @[k]]]
    IN IF copies = {} THEN d ELSE bumpRepository(e)

Lacks(d, t, k) == IF k \in BoundTo(d.target[t]) THEN <<>> ELSE <<k>>
Missing(d, t) ==
    Lacks(d, t, "closeout") \o (IF t = "conflict" THEN Lacks(d, t, "plan") ELSE <<>>)
Offered(d, k) == k \in Copied(d) /\ Usable(d, k)

\* Mutant: a deleted builtin command is created again.
TargetRefused_ForgetsTombstone(d, t) ==
    IF d.target[t] # Absent
    THEN d.targetMark[t] = "seeded" /\ \E i \in DOMAIN Missing(d, t) : ~Offered(d, Missing(d, t)[i])
    ELSE \/ ~d.engine["model"].on
         \/ \E k \in {MainFor(t)} \union Range(Auxiliary(t)) : ~Offered(d, k)
         \/ ~Usable(d, "shared") \/ ~Usable(d, "help")

TargetRefused(d, t) ==
    IF d.target[t] # Absent
    THEN d.targetMark[t] = "seeded" /\ \E i \in DOMAIN Missing(d, t) : ~Offered(d, Missing(d, t)[i])
    ELSE \/ ~d.engine["model"].on
         \/ d.targetMark[t] \in Gone
         \/ \E k \in {MainFor(t)} \union Range(Auxiliary(t)) : ~Offered(d, k)
         \/ ~Usable(d, "shared") \/ ~Usable(d, "help")

ConvergeTarget(d, t) ==
    LET c == d.target[t]
        p == IF t = "conflict" /\ c.permission = "read_write"
             THEN Bumped([c EXCEPT !.permission = "read_write_approval"]) ELSE c
        q == Bumped([p EXCEPT !.bound = @ \o On(Missing(d, t))])
    IN CASE c = Absent ->
              PutTarget(d, t, [on |-> TRUE, permission |-> Shipped(t), bound |-> Current(t, Shipped(t)),
                               help |-> TRUE, rev |-> 1], "seeded")
         [] c # Absent /\ d.targetMark[t] # "seeded" -> d
         [] c # Absent /\ d.targetMark[t] = "seeded" /\ Missing(d, t) = <<>> -> [d EXCEPT !.target[t] = p]
         [] OTHER -> PutTarget(d, t, q, "seeded")

Prepared(d) == CopyAssets(ManageRepository(SeedEngines(SeedPublic(d))))

BootstrapRefused(d) ==
    LET e == Prepared(d) IN
    \/ \E g \in Engines : d.engineMark[g] \in Gone
    \/ \E k \in {"shared", "help"} : e.asset["repository"][k] = Absent
    \/ \E t \in Targets : TargetRefused(e, t)

Bootstrapped(d) ==
    ConvergeTarget(ConvergeTarget(ConvergeTarget(Prepared(d), "review"), "conflict"), "conversation")

-----------------------------------------------------------------------------
(* The builtin migrations *)

Available(d, s, k) ==
    d.asset[s][k] # Absent /\ d.asset[s][k].on /\ d.mark[s][k] \notin Gone

EnsurePublicPlan(d) ==
    IF d.asset["public"]["plan"] = Absent /\ d.mark["public"]["plan"] \notin Gone
    THEN PutAsset(d, "public", "plan", New("shipped", TRUE), "seeded") ELSE d

EnsureRepositoryPlan(d) ==
    IF d.asset["repository"]["plan"] = Absent /\ d.mark["repository"]["plan"] \notin Gone
    THEN PutAsset(d, "repository", "plan", New(d.asset["public"]["plan"].text, TRUE), "seeded") ELSE d

BeforeCommon(bound, b) ==
    LET commons == {i \in DOMAIN bound : bound[i].slug = "shared"}
    IN IF commons = {} THEN Append(bound, b)
       ELSE InsertAt(bound, CHOOSE i \in commons : \A j \in commons : i <= j, b)

ConvergeConflict(d) ==
    LET c == d.target["conflict"]
        add == "plan" \notin BoundTo(c)
        change == c.permission = "read_write"
        bound == IF add THEN BeforeCommon(c.bound, [slug |-> "plan", on |-> TRUE]) ELSE c.bound
    IN IF \/ ~add /\ ~("plan" \in Active(c) /\ Usable(d, "plan"))
          \/ ~add /\ ~change
       THEN d
       ELSE PutTarget(d, "conflict",
              Bumped([c EXCEPT !.permission = IF change THEN "read_write_approval" ELSE @,
                               !.bound = bound]), "seeded")

PlanMode(d) ==
    LET e == EnsurePublicPlan(d)
        f == EnsureRepositoryPlan(e)
        owned == d.target["conflict"] # Absent /\ d.targetMark["conflict"] = "seeded"
    IN IF ~Available(e, "public", "plan") \/ ~owned THEN e
       ELSE IF ~Available(f, "repository", "plan") THEN f ELSE ConvergeConflict(f)

Legacy(d, s) == {k \in Opaque : Available(d, s, k) /\ d.asset[s][k].text = "legacy"}

ConvergePrompts(d) ==
    [d EXCEPT !.asset = [s \in Scopes |-> [k \in Slugs |->
                  IF k \in Legacy(d, s) THEN Bumped([@[s][k] EXCEPT !.text = "shipped"]) ELSE @[s][k]]],
              !.repo = @ + Cardinality(Legacy(d, "repository"))]

\* Mutant: the bindings are rewritten under the old revision.
ConvergeLayout_SameRevision(d, t) ==
    LET c == d.target[t]
        next == Current(t, c.permission)
    IN IF /\ c # Absent
          /\ c.bound \in Historical(t, c.permission)
          /\ \A k \in BoundTo(c) : Usable(d, k)
          /\ d.targetMark[t] \notin Gone
          /\ \A i \in DOMAIN next : Usable(d, next[i].slug)
       THEN PutTarget(d, t, [c EXCEPT !.bound = next], d.targetMark[t])
       ELSE d

ConvergeLayout(d, t) ==
    LET c == d.target[t]
        next == Current(t, c.permission)
    IN IF /\ c # Absent
          /\ c.bound \in Historical(t, c.permission)
          /\ \A k \in BoundTo(c) : Usable(d, k)
          /\ d.targetMark[t] \notin Gone
          /\ \A i \in DOMAIN next : Usable(d, next[i].slug)
       THEN PutTarget(d, t, Bumped([c EXCEPT !.bound = next]), d.targetMark[t])
       ELSE d

OpaqueOutput(d) == ConvergeLayout(ConvergeLayout(ConvergePrompts(d), "review"), "conflict")

Migrations == {"plan-mode", "opaque-output"}

-----------------------------------------------------------------------------
(* What may be in the database when the service starts *)

Fresh == [asset |-> [s \in Scopes |-> [k \in Slugs |-> Absent]],
          mark |-> [s \in Scopes |-> [k \in Slugs |-> "none"]],
          target |-> [t \in Targets |-> Absent], targetMark |-> [t \in Targets |-> "none"],
          engine |-> [e \in Engines |-> Absent], engineMark |-> [e \in Engines |-> "none"],
          repo |-> 0]

\* An installation made by an older release: the historical layouts, the old
\* texts, and the plan prompt only where a layout binds it.
Deployed(conflict, permission) ==
    LET slugs == Slugs \ (IF "plan" \in Range(conflict) THEN {} ELSE {"plan"})
        row(k) == New(IF k \in Opaque THEN "legacy" ELSE "shipped", TRUE)
        command(p, bound) == [on |-> TRUE, permission |-> p, bound |-> On(bound), help |-> TRUE, rev |-> 1]
    IN [Fresh EXCEPT
          !.asset = [s \in Scopes |-> [k \in Slugs |-> IF k \in slugs THEN row(k) ELSE Absent]],
          !.mark = [s \in Scopes |-> [k \in Slugs |-> IF k \in slugs THEN "seeded" ELSE "none"]],
          !.target = [t \in Targets |->
              CASE t = "review" -> command("read_only", <<"review", "retry", "closeout", "shared">>)
                [] t = "conflict" -> command(permission, conflict)
                [] t = "conversation" -> command("read_only", <<"conversation", "shared", "closeout">>)],
          !.targetMark = [t \in Targets |-> "seeded"],
          !.engine = [e \in Engines |-> [on |-> TRUE, ref |-> "env", rev |-> 1]],
          !.engineMark = [e \in Engines |-> "seeded"],
          !.repo = 1]

Installations ==
    {Fresh,
     Deployed(<<"conflict", "verify", "closeout", "shared">>, "read_write"),
     Deployed(<<"conflict", "verify", "closeout", "shared", "plan">>, "read_write_approval"),
     Deployed(<<"conflict", "verify", "closeout", "plan", "shared">>, "read_write_approval")}

Init ==
    /\ db \in Installations
    /\ applied = {}
    /\ slot = FALSE
    /\ view = [c \in Clients |-> NoView]
    /\ run = "idle"
    /\ writes = 0
    /\ skipped = {}

-----------------------------------------------------------------------------
(* Maintenance and runs *)

\* bootstrap:control-plane, and the console's "add repository".
Bootstrap ==
    /\ ~BootstrapRefused(db)
    /\ db' = Bootstrapped(db)
    /\ UNCHANGED <<applied, slot, view, run, writes, skipped>>

\* A layout whose prompts, or those of the layout that replaces it, are not all
\* there and enabled is left as it is, and no later migration looks at it.
Unready(d, t) ==
    LET c == d.target[t] IN
    /\ c # Absent
    /\ \E k \in BoundTo(c) \union BoundTo([bound |-> Current(t, c.permission)]) : ~Usable(d, k)

Migrate ==
    /\ applied # Migrations
    /\ db' = OpaqueOutput(PlanMode(db))
    /\ applied' = Migrations
    /\ skipped' = {t \in Commands : Unready(db', t)}
    /\ UNCHANGED <<slot, view, run, writes>>

\* A worker takes a request: it bootstraps before it looks what was asked.
Start ==
    /\ run = "idle"
    /\ IF BootstrapRefused(db)
       THEN run' = "refused" /\ UNCHANGED db
       ELSE run' = "ready" /\ db' = Bootstrapped(db)
    /\ UNCHANGED <<applied, slot, view, writes, skipped>>

\* The resolver's transaction: the snapshot it writes is all the run reads
\* from here on, so nothing of it is kept here; without one the run fails.
Resolve(t) ==
    /\ run = "ready"
    /\ run' = IF Resolvable(db, t) THEN "idle" ELSE "refused"
    /\ UNCHANGED <<db, applied, slot, view, writes, skipped>>

End ==
    /\ run = "refused"
    /\ run' = "idle"
    /\ UNCHANGED <<db, applied, slot, view, writes, skipped>>

-----------------------------------------------------------------------------
(* The operators *)

Items == ({"public", "repository"} \X Editable) \union ({"replace"} \X Editable)
         \union ({"target"} \X Targets) \union ({"engine"} \X Engines)

Row(d, item) ==
    CASE item[1] \in Scopes -> d.asset[item[1]][item[2]]
      [] item[1] = "replace" -> d.asset["repository"][item[2]]
      [] item[1] = "target" -> d.target[item[2]]
      [] item[1] = "engine" -> d.engine[item[2]]

Revision(d, item) == IF item[1] = "replace" THEN d.repo ELSE Row(d, item).rev

\* The page shows a row; every request it sends carries the revision it saw.  The
\* server lets a request leave it out and then compares nothing: a client that does
\* so is not one of the pages, and is not here.
\* Bound: the pages open together show rows of the same name.
Open(c) ==
    /\ view[c] = NoView /\ writes < MaxWrites
    /\ \E item \in Items :
          /\ Row(db, item) # Absent
          /\ \A e \in Clients : view[e] # NoView => view[e].item[2] = item[2]
          /\ view' = [view EXCEPT ![c] = [item |-> item, seen |-> Row(db, item),
                                          rev |-> Revision(db, item), step |-> "shown"]]
    /\ UNCHANGED <<db, applied, slot, run, writes, skipped>>

\* The request is refused, the page is closed, or the service dies under it.
GiveUp(c) ==
    /\ view[c] # NoView
    /\ view' = [view EXCEPT ![c] = NoView]
    /\ UNCHANGED <<db, applied, slot, run, writes, skipped>>

assertExpectedRevision(c, kind) ==
    /\ view[c] # NoView /\ view[c].step = "shown"
    /\ view[c].item[1] = kind
    /\ Row(db, view[c].item) # Absent
    /\ Revision(db, view[c].item) = view[c].rev

Write(d) ==
    /\ writes < MaxWrites
    /\ writes' = writes + 1
    /\ db' = d
    /\ UNCHANGED <<applied, run, skipped>>

Commit(c, d) == Write(d) /\ view' = [view EXCEPT ![c] = NoView] /\ UNCHANGED slot

\* A row that is deleted is not found again by the pages that show it.
Delete(c, d) ==
    /\ Write(d) /\ UNCHANGED slot
    /\ view' = [e \in Clients |->
                   IF e = c THEN NoView
                   ELSE IF view[e] # NoView /\ view[e].item = view[c].item
                   THEN [view[e] EXCEPT !.step = "gone"] ELSE view[e]]

Owner(on) == IF on THEN "override" ELSE "disabled"

CreateAsset(slugs) ==
    \E s \in Scopes, k \in slugs \intersect Editable, on \in BOOLEAN :
        /\ db.asset[s][k] = Absent
        /\ s = "repository" => db.repo > 0
        /\ Write(PutAsset(db, s, k, New("own", on), Owner(on)))
        /\ UNCHANGED <<slot, view>>

UpdateAsset(c, slugs) ==
    \E s \in Scopes, on \in BOOLEAN, rewrite \in BOOLEAN :
        /\ assertExpectedRevision(c, s)
        /\ LET k == view[c].item[2]
               r == db.asset[s][k]
           IN /\ k \in slugs
              /\ r.on /\ ~on => ~(s = "repository" /\ IsBound(db, k))
              /\ Commit(c, PutAsset(db, s, k,
                     Bumped([r EXCEPT !.on = on, !.text = IF rewrite THEN "own" ELSE @]), Owner(on)))

\* Mutant: no assertPromptIsNotBound.
DeleteAsset_Bound(c, slugs) ==
    \E s \in Scopes :
        /\ assertExpectedRevision(c, s)
        /\ view[c].item[2] \in slugs
        /\ Delete(c, PutAsset(db, s, view[c].item[2], Absent, "tombstone"))

DeleteAsset(c, slugs) ==
    \E s \in Scopes :
        /\ assertExpectedRevision(c, s)
        /\ view[c].item[2] \in slugs
        /\ ~(s = "repository" /\ IsBound(db, view[c].item[2]))
        /\ Delete(c, PutAsset(db, s, view[c].item[2], Absent, "tombstone"))

CopyAsset(slugs) ==
    \E k \in slugs \intersect Editable :
        /\ db.repo > 0
        /\ db.asset["public"][k] # Absent /\ db.asset["repository"][k] = Absent
        /\ LET source == db.asset["public"][k]
           IN Write(PutAsset(db, "repository", k, New(source.text, source.on), "seeded"))
        /\ UNCHANGED <<slot, view>>

ReplaceAsset(c, slugs) ==
    /\ assertExpectedRevision(c, "replace")
    /\ LET k == view[c].item[2]
           source == db.asset["public"][k]
       IN /\ k \in slugs /\ source # Absent
          /\ Commit(c, PutAsset(db, "repository", k,
                 [source EXCEPT !.rev = db.asset["repository"][k].rev + 1], "override"))

CreatePrompt == CreateAsset(Prompts)
UpdatePrompt(c) == UpdateAsset(c, Prompts)
DeletePrompt(c) == DeleteAsset(c, Prompts)
CopyPublicPrompt(c) == CopyAsset(Prompts) \/ ReplaceAsset(c, Prompts)
CreateSkill == CreateAsset({"help"})
UpdateSkill(c) == UpdateAsset(c, {"help"})
DeleteSkill(c) == DeleteAsset(c, {"help"})
CopyPublicSkill(c) == CopyAsset({"help"}) \/ ReplaceAsset(c, {"help"})

ModelValid == \A e \in Engines : db.engine[e] # Absent /\ db.engine[e].on

\* validatePromptBindings, validateSkillBindings and requireMainPrompt.
BindingsValid(t, c) ==
    /\ \A k \in BoundTo(c) : db.asset["repository"][k] # Absent
    /\ \A k \in Active(c) : Usable(db, k)
    /\ c.help => Usable(db, "help")
    /\ c.on => MainFor(t) \in Active(c)

\* What an operator may ask of a command: one change of it at a time.
Edits(c) ==
    LET without(i) == RemoveAt(c.bound, i)
        flipped(i) == [c.bound EXCEPT ![i].on = ~@]
        bounds == {without(i) : i \in DOMAIN c.bound} \union {flipped(i) : i \in DOMAIN c.bound}
                  \union {Append(c.bound, [slug |-> k, on |-> TRUE]) : k \in Editable \ (BoundTo(c) \union {"help"})}
    IN {[c EXCEPT !.on = ~@]} \union {[c EXCEPT !.permission = p] : p \in Permissions}
       \union {[c EXCEPT !.bound = b] : b \in bounds} \union {[c EXCEPT !.help = ~@]}

CreateCommand ==
    \E t \in Commands, p \in Permissions :
        LET c == [on |-> TRUE, permission |-> p, bound |-> Current(t, p), help |-> FALSE, rev |-> 1] IN
        /\ db.repo > 0 /\ db.target[t] = Absent
        /\ ModelValid /\ BindingsValid(t, c)
        /\ Write(PutTarget(db, t, c, "override"))
        /\ UNCHANGED <<slot, view>>

UpdateCommand(c) ==
    /\ assertExpectedRevision(c, "target") /\ view[c].item[2] \in Commands
    /\ ModelValid
    /\ \E next \in Edits(db.target[view[c].item[2]]) :
          /\ BindingsValid(view[c].item[2], next)
          /\ Commit(c, PutTarget(db, view[c].item[2], Bumped(next), Owner(next.on)))

DeleteCommand(c) ==
    /\ assertExpectedRevision(c, "target") /\ view[c].item[2] \in Commands
    /\ Delete(c, PutTarget(db, view[c].item[2], Absent, "tombstone"))

\* saveConversationProfile reads the profile before its transaction, and
\* compares the expected revision with what it read.
ReadProfile(c) ==
    /\ assertExpectedRevision(c, "target") /\ view[c].item[2] = "conversation"
    /\ view' = [view EXCEPT ![c].step = "saving"]
    /\ UNCHANGED <<db, applied, slot, run, writes, skipped>>

SaveProfile(c) ==
    /\ view[c] # NoView /\ view[c].step = "saving"
    /\ ModelValid
    /\ \E next \in Edits(view[c].seen) :
          /\ next.on /\ next.permission = "read_only" /\ BindingsValid("conversation", next)
          /\ Commit(c, PutTarget(db, "conversation",
                 Bumped([next EXCEPT !.rev = db.target["conversation"].rev]), "override"))

SaveEngine(d, e, r) == [d EXCEPT !.engine[e] = Bumped(r), !.engineMark[e] = Owner(r.on)]

UpdateEngine(c, e) ==
    /\ assertExpectedRevision(c, "engine") /\ view[c].item[2] = e
    /\ \E on \in BOOLEAN : Commit(c, SaveEngine(db, e, [db.engine[e] EXCEPT !.on = on]))

UpdateProvider(c) == UpdateEngine(c, "provider")
UpdateProviderModel(c) == UpdateEngine(c, "model")

\* setProviderCredential: the file first, then the row.
WriteSecret(c) ==
    /\ assertExpectedRevision(c, "engine") /\ view[c].item[2] = "provider"
    /\ slot' = TRUE
    /\ view' = [view EXCEPT ![c].step = "setting"]
    /\ UNCHANGED <<db, applied, run, writes, skipped>>

ReferSecret(c) ==
    /\ view[c] # NoView /\ view[c].step = "setting"
    /\ db.engine["provider"].rev = view[c].rev
    /\ Commit(c, SaveEngine(db, "provider", [db.engine["provider"] EXCEPT !.ref = "slot"]))

\* deleteProviderCredential: the row first, then the file the row named.
ForgetSecret(c) ==
    /\ assertExpectedRevision(c, "engine") /\ view[c].item[2] = "provider"
    /\ Write(SaveEngine(db, "provider", [db.engine["provider"] EXCEPT !.ref = "none"]))
    /\ view' = [view EXCEPT ![c] = IF db.engine["provider"].ref = "slot"
                                   THEN [view[c] EXCEPT !.step = "removing"] ELSE NoView]
    /\ UNCHANGED slot

RemoveSecret(c) ==
    /\ view[c] # NoView /\ view[c].step = "removing"
    /\ slot' = FALSE
    /\ view' = [view EXCEPT ![c] = NoView]
    /\ UNCHANGED <<db, applied, run, writes, skipped>>

Operators(c) ==
    \/ Open(c) \/ GiveUp(c)
    \/ UpdatePrompt(c) \/ DeletePrompt(c) \/ CopyPublicPrompt(c)
    \/ UpdateSkill(c) \/ DeleteSkill(c) \/ CopyPublicSkill(c)
    \/ UpdateCommand(c) \/ DeleteCommand(c) \/ ReadProfile(c) \/ SaveProfile(c)
    \/ UpdateProvider(c) \/ UpdateProviderModel(c)
    \/ WriteSecret(c) \/ ReferSecret(c) \/ ForgetSecret(c) \/ RemoveSecret(c)

Next ==
    \/ Bootstrap \/ Migrate \/ Start \/ (\E t \in Targets : Resolve(t)) \/ End
    \/ CreatePrompt \/ CreateSkill \/ CreateCommand
    \/ \E c \in Clients : Operators(c)

Spec == Init /\ [][Next]_vars

-----------------------------------------------------------------------------
(* Properties *)

EngineRows == [on : BOOLEAN, ref : {"env", "slot", "none"}, rev : Nat]
TargetRows == [on : BOOLEAN, permission : Permissions, help : BOOLEAN, rev : Nat,
               bound : Seq([slug : Prompts, on : BOOLEAN])]
AssetRows == [text : {"shipped", "legacy", "own"}, on : BOOLEAN, rev : Nat]

Databases ==
    [asset : [Scopes -> [Slugs -> AssetRows \union {Absent}]],
     mark : [Scopes -> [Slugs -> Marks]],
     target : [Targets -> TargetRows \union {Absent}], targetMark : [Targets -> Marks],
     engine : [Engines -> EngineRows \union {Absent}], engineMark : [Engines -> Marks],
     repo : Nat]
Steps == {"shown", "gone", "saving", "setting", "removing"}
Views == [item : Items, seen : AssetRows \union TargetRows \union EngineRows, rev : Nat, step : Steps]

\* The absent row and the empty page are no rows and no pages.
ASSUME AbsentAssumption == Absent \notin AssetRows \union TargetRows \union EngineRows
ASSUME NoViewAssumption == NoView \notin Views
ASSUME EditableAssumption == Editable \subseteq Slugs

\* The rows, the markers and the pages have their types.
TypeOK ==
    /\ db \in Databases
    /\ applied \in SUBSET Migrations /\ skipped \in SUBSET Commands
    /\ slot \in BOOLEAN
    /\ writes \in 0..MaxWrites
    /\ run \in {"idle", "ready", "refused"}
    /\ view \in [Clients -> Views \union {NoView}]

\* Whatever the order of the operators' writes, the bootstrap's and the
\* migrations', a command or the profile binds only assets that exist, and
\* while it is enabled it has its main prompt.
BindingsHold ==
    \A t \in Targets : db.target[t] # Absent =>
        /\ \A k \in BoundTo(db.target[t]) : db.asset["repository"][k] # Absent
        /\ db.target[t].help => db.asset["repository"]["help"] # Absent
        /\ db.target[t].on => MainFor(t) \in Active(db.target[t])

\* builtin-migrations.ts:16-18: what no operator asked for (a bootstrap or a
\* migration) re-creates nothing they deleted, enables nothing they disabled,
\* rewrites no text of theirs, and changes a command of theirs only when it is
\* still, binding for binding, a layout PatchPaw itself deployed.
OperatorRespected ==
    writes' = writes =>
        /\ \A s \in Scopes, k \in Slugs :
              LET r == db.asset[s][k] IN
              /\ r = Absent /\ db.mark[s][k] \in Gone => db'.asset[s][k] = Absent
              /\ r # Absent => (~r.on \/ r.text = "own" => db'.asset[s][k] = r)
        /\ \A t \in Targets :
              LET c == db.target[t] IN
              /\ db.targetMark[t] \in Gone => db'.target[t] = c
              /\ db.targetMark[t] = "override" =>
                    db'.target[t] = c \/ c.bound \in Historical(t, c.permission)
        /\ \A e \in Engines : db.engineMark[e] \notin {"none", "seeded"} => db'.engine[e] = db.engine[e]
MaintenanceRespectsOperator == [][OperatorRespected]_vars

\* The revision a page sends back with its request protects what it showed: a
\* save that is accepted replaces exactly the row the operator saw, whatever
\* the other pages, the bootstrap and the migrations wrote meanwhile.  (The
\* profile is not included: see SaveProfile.)
ReplacesWhatWasSeen ==
    \A c \in Clients :
        view[c] # NoView /\ view'[c] = NoView /\ view[c].item # <<"target", "conversation">>
            /\ writes' = writes + 1 /\ db' # db /\ Row(db, view[c].item) # Row(db', view[c].item)
        => Row(db, view[c].item) = view[c].seen
NoLostUpdate == [][ReplacesWhatWasSeen]_vars

\* Once both migrations ran, no run of a target PatchPaw still owns fails to
\* resolve after its bootstrap: whichever release installed the repository, and
\* unless a prompt of its layout was missing or disabled when they ran (the
\* retired prompt is then bound for good: builtin-migrations.ts:384-404).
MigratedInstallsResolve ==
    run = "ready" /\ applied = Migrations => \A t \in Targets :
        /\ db.targetMark[t] = "seeded"
        /\ t \in skipped => "retry" \notin BoundTo(db.target[t])
        /\ \A k \in BoundTo(db.target[t]) \union {"help"} : Usable(db, k)
        /\ \A e \in Engines : db.engine[e].on /\ db.engine["provider"].ref # "none"
        => Resolvable(db, t)
=============================================================================
