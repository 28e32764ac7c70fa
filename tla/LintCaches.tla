---------------------------- MODULE LintCaches ----------------------------
(***************************************************************************)
(* The two lint caches of run-oxlint.ts, as several scans in processes of  *)
(* their own use them:                                                     *)
(*                                                                         *)
(*   - the file cache (file-lint-cache.ts) replays what the rules that     *)
(*     look at one file reported, under the hash of that file's content;   *)
(*   - the sidecar cache (sidecar-lint-cache.ts) replays what the rules    *)
(*     that look at other files reported, and only while every file system *)
(*     probe recorded with the report still has its old answer.            *)
(*                                                                         *)
(* A cache lives in one JSON file: buckets, one per set of rules, newest   *)
(* first, each an ordered map from file keys to entries.  A run loads it   *)
(* once, adds what it linted, and persists by reading the file again,      *)
(* merging and renaming a temporary file over it.                          *)
(*                                                                         *)
(* What a rule reports is abstracted to what it was computed from, so that *)
(* a stale report differs from a fresh one: for the rules of one file its  *)
(* content, for the others also the content of every path they consult.    *)
(* Hashes are the contents they stand for.  The user edits files only   *)
(* while no scan runs: the code treats the file system as frozen.          *)
(* Definitions marked as wrong variants are used by no action: each stands *)
(* for a plausible bug that a property must notice.                        *)
(***************************************************************************)
EXTENDS Naturals, Sequences, FiniteSets

CONSTANTS
    Runs,          \* processes that scan
    Rulesets,      \* hashes of the configurations they scan with
    Sources,       \* the lintable files, as a sequence: the order of the walk
    OtherPaths,    \* manifests and the like, which rules read but nobody lints
    Contents,      \* what a file may hold
    Missing,       \* the content of a path where there is no file
    Imports,       \* Imports[p][c]: the paths that p refers to when it holds c
    Chunks,        \* the chunks that pool workers probe; {} without a pool
    InitialTree,   \* the project before the first scan
    MaxEntries,    \* FILE_LINT_CACHE_MAX_FILE_COUNT
    MaxRulesets,   \* FILE_LINT_CACHE_MAX_RULESET_COUNT
    MaxScans,      \* bound: scans started
    MaxEdits       \* bound: edits of the user

SourceFiles == {Sources[i] : i \in DOMAIN Sources}
Paths == SourceFiles \cup OtherPaths

\* The walk lists a file once; a content, or the mark of its absence, is never
\* mistaken for the answer of a lookup.
ASSUME ProjectAssumption ==
    /\ Rulesets # {}
    /\ Sources \in Seq(SourceFiles)
    /\ \A i, j \in DOMAIN Sources : Sources[i] = Sources[j] => i = j
    /\ Missing \notin Contents
    /\ {"file", "none"} \cap (Contents \cup {Missing}) = {}
    /\ InitialTree \in [Paths -> Contents \cup {Missing}]
    /\ Imports \in [Paths -> [Contents \cup {Missing} -> SUBSET Paths]]
    /\ MaxEntries \in Nat \ {0} /\ MaxRulesets \in Nat \ {0}

VARIABLES
    tree,       \* the content of every path
    lintFile,   \* file-lint.json on disk: a sequence of buckets
    sideFile,   \* the file of the sidecar cache
    run,        \* the scan of each process
    scans, edits
vars == <<tree, lintFile, sideFile, run, scans, edits>>
-----------------------------------------------------------------------------
(* What linting reports. *)

Nothing == <<"nothing">>                \* no diagnostics: a clean file, or a dropped one
LocalVerdict(rules, c) == <<"local", rules, c>>

\* The paths that the cross-file rules consult for f: what it imports, and what
\* that re-exports.
Consulted(f, t) ==
    LET direct == Imports[f][t[f]]
    IN  direct \cup UNION {Imports[g][t[g]] : g \in direct}

\* Modules are looked up before they are read; a configuration file is read at
\* once, and its absence is an answer too.
LookedUp(f, t) == Consulted(f, t) \cap SourceFiles
\* Wrong variant: what is not there leaves no probe.
ReadIfThere(f, t) == {p \in Consulted(f, t) : t[p] # Missing}

Read(f, t) == {p \in Consulted(f, t) : p \in OtherPaths \/ t[p] # Missing}

ExistsAnswer(p, t) == IF t[p] = Missing THEN "none" ELSE "file"
Probes(f, t, answer) ==
    {<<"exists", p, ExistsAnswer(p, t)>> : p \in LookedUp(f, t)} \cup
    {<<"content", p, answer[p]>> : p \in Read(f, t)}

\* The probes of f as the parent records them.
ProbesOf(f, t) == Probes(f, t, t)

\* A pool worker numbers the paths of its chunk and keeps one existence answer
\* for each path that was looked up; where there is one, the parent takes it for
\* every probe of the path.
WorkerProbesOf(f, chunk, t) ==
    LET looked == UNION {LookedUp(g, t) : g \in chunk}
    IN  Probes(f, t, [p \in Paths |-> IF p \in looked THEN ExistsAnswer(p, t) ELSE t[p]])

CrossVerdict(rules, f, t) == <<"cross", rules, t[f], [p \in Consulted(f, t) |-> t[p]]>>

StillHolds(probe, t) ==
    probe[3] = IF probe[1] = "content" THEN t[probe[2]] ELSE ExistsAnswer(probe[2], t)
-----------------------------------------------------------------------------
(* Ordered maps and the two ways to merge them. *)

\* The elements of s at the indices I, in their order.
Nth(I, n) == CHOOSE i \in I : Cardinality({k \in I : k <= i}) = n
Select(s, I) == [n \in 1 .. Cardinality(I) |-> s[Nth(I, n)]]

Key(f, c) == <<f, c>>
KeysOf(entries) == {entries[i].key : i \in DOMAIN entries}
Lookup(entries, k) == entries[CHOOSE i \in DOMAIN entries : entries[i].key = k]
Without(entries, keys) == Select(entries, {i \in DOMAIN entries : entries[i].key \notin keys})

\* store: stored again, a key moves to the end.
StoreAll(entries, fresh) == Without(entries, KeysOf(fresh)) \o fresh

Newest(entries) ==
    IF Len(entries) <= MaxEntries THEN entries
    ELSE SubSeq(entries, Len(entries) - MaxEntries + 1, Len(entries))

\* { ...existingFiles, ...ourFiles }: a key that exists keeps its place.
MergeLint(theirs, ours) ==
    [i \in DOMAIN theirs |-> IF theirs[i].key \in KeysOf(ours)
                             THEN Lookup(ours, theirs[i].key) ELSE theirs[i]]
      \o Without(ours, KeysOf(theirs))

\* Map: a key of ours leaves its place for one among ours.
MergeSidecar(theirs, ours) == Without(theirs, KeysOf(ours)) \o ours

BucketOf(file, rules) ==
    LET mine == {i \in DOMAIN file : file[i].rules = rules}
    IN  IF mine = {} THEN <<>> ELSE file[CHOOSE i \in mine : TRUE].entries

\* The persisted file: our bucket is the newest, the oldest ones go.
WithBucket(file, rules, entries) ==
    LET all == <<[rules |-> rules, entries |-> entries]>>
                 \o Select(file, {i \in DOMAIN file : file[i].rules # rules})
    IN  SubSeq(all, 1, IF Len(all) < MaxRulesets THEN Len(all) ELSE MaxRulesets)
-----------------------------------------------------------------------------
Idle == [pc |-> "idle", rules |-> CHOOSE r \in Rulesets : TRUE, files |-> {}, miss |-> {},
         lint |-> <<>>, side |-> <<>>, onDisk |-> <<>>, dropped |-> {},
         replayed |-> {}, sideDropped |-> {}, looseDropped |-> {}]

Init ==
    /\ tree = InitialTree
    /\ lintFile = <<>> /\ sideFile = <<>>
    /\ run = [p \in Runs |-> Idle]
    /\ scans = 0 /\ edits = 0

Frozen == \E p \in Runs : run[p].pc # "idle"

Edit ==
    /\ ~Frozen
    /\ edits < MaxEdits
    /\ \E p \in Paths, c \in Contents \cup {Missing} :
         /\ c # tree[p]
         /\ tree' = [tree EXCEPT ![p] = c]
    /\ edits' = edits + 1
    /\ UNCHANGED <<lintFile, sideFile, run, scans>>

\* runOxlint: the file cache is loaded and the candidates are split into hits
\* and misses; a file that cannot be hashed, having gone, is a miss.
Start(p) ==
    /\ run[p] = Idle
    /\ scans < MaxScans
    /\ \E rules \in Rulesets :
       \E files \in SUBSET SourceFiles \ {{}} :
         LET entries == BucketOf(lintFile, rules)
             miss == {f \in files : tree[f] = Missing \/ Key(f, tree[f]) \notin KeysOf(entries)}
         IN  run' = [run EXCEPT ![p] = [Idle EXCEPT !.pc = "loadSidecar", !.rules = rules,
                                          !.files = files, !.miss = miss, !.lint = entries]]
    /\ scans' = scans + 1
    /\ UNCHANGED <<tree, lintFile, sideFile, edits>>

LoadSidecar(p) ==
    /\ run[p].pc = "loadSidecar"
    /\ run' = [run EXCEPT ![p].pc = "full", ![p].side = BucketOf(sideFile, run[p].rules)]
    /\ UNCHANGED <<tree, lintFile, sideFile, scans, edits>>

Hits(r) == r.files \ r.miss

\* All rules over the misses.  Files may be dropped, which is a partial failure.
\* The retry without the React Compiler plugin cannot happen: a project that
\* loads it does not use these caches.
FullPass(p) ==
    /\ run[p].pc = "full"
    /\ \E dropped \in SUBSET run[p].miss :
         run' = [run EXCEPT ![p].pc = "sidecar", ![p].dropped = dropped]
    /\ UNCHANGED <<tree, lintFile, sideFile, scans, edits>>

\* isReplayable: every recorded probe still has its answer.
Replayable(entry, t) == \A probe \in entry.probes : StillHolds(probe, t)

\* Wrong variant: the content of the file alone decides.
ReplaysByKey(r) == {f \in Hits(r) : Key(f, tree[f]) \in KeysOf(r.side)}

Replays(r) ==
    {f \in Hits(r) : /\ Key(f, tree[f]) \in KeysOf(r.side)
                     /\ Replayable(Lookup(r.side, Key(f, tree[f])), tree)}

\* The hits that cannot be replayed are linted again with the cross-file rules
\* that record probes.
SidecarPass(p) ==
    /\ run[p].pc = "sidecar"
    /\ LET replayed == Replays(run[p])
       IN  \E dropped \in SUBSET (Hits(run[p]) \ replayed) :
             run' = [run EXCEPT ![p].pc = "unbounded", ![p].replayed = replayed,
                                ![p].sideDropped = dropped]
    /\ UNCHANGED <<tree, lintFile, sideFile, scans, edits>>

\* The rules without recorded probes run over every hit, always.
UnboundedPass(p) ==
    /\ run[p].pc = "unbounded"
    /\ \E dropped \in SUBSET Hits(run[p]) :
         run' = [run EXCEPT ![p].pc = "storeLint", ![p].looseDropped = dropped]
    /\ UNCHANGED <<tree, lintFile, sideFile, scans, edits>>

\* A pass that throws ends the scan before anything is stored; a process may
\* also be killed at any other moment.
Fails(p) ==
    /\ run[p].pc \notin {"idle", "done"}
    /\ run' = [run EXCEPT ![p] = Idle]
    /\ UNCHANGED <<tree, lintFile, sideFile, scans, edits>>

\* What a scan reports of f: by the rules of one file, and by the cross-file rules.
LocalReport(r, f) ==
    IF f \in r.dropped THEN Nothing
    ELSE IF f \in r.miss THEN LocalVerdict(r.rules, tree[f])
    ELSE Lookup(r.lint, Key(f, tree[f])).verdict

CrossReport(r, f) ==
    IF f \in r.dropped \cup r.sideDropped THEN Nothing
    ELSE IF f \in r.replayed THEN Lookup(r.side, Key(f, tree[f])).verdict
    ELSE CrossVerdict(r.rules, f, tree)

\* The files it calls analyzed.
Analyzed(r) == r.files \ (r.dropped \cup r.sideDropped \cup r.looseDropped)
-----------------------------------------------------------------------------
(* Storing. *)

\* Wrong variant: what a partial failure left out counts as clean.
AlwaysTrusted(r) == TRUE

Trusted(r) == r.dropped = {}
Hashed(files) == {f \in files : tree[f] # Missing}
Relinted(r) == Hits(r) \ r.replayed
\* The candidates in the order of the walk.
InOrder(files) == Select(Sources, {i \in DOMAIN Sources : Sources[i] \in files})

LintEntry(r, f) == [key |-> Key(f, tree[f]), verdict |-> LocalReport(r, f)]
FreshLint(r) ==
    LET files == InOrder(Hashed(r.miss))
    IN  [i \in DOMAIN files |-> LintEntry(r, files[i])]

\* The misses are stored if the pass can be trusted and every report could be
\* attributed to its file, and persist begins by reading the file again.
StoreLint(p) ==
    /\ run[p].pc = "storeLint"
    /\ \/ /\ Trusted(run[p])
          /\ run' = [run EXCEPT ![p].pc = "writeLint",
                                ![p].lint = StoreAll(@, FreshLint(run[p])),
                                ![p].onDisk = lintFile]
       \/ run' = [run EXCEPT ![p].pc = "storeSidecar"]
    /\ UNCHANGED <<tree, lintFile, sideFile, scans, edits>>

\* ... and ends with the rename, or without it if the write fails.
WriteLint(p) ==
    /\ run[p].pc = "writeLint"
    /\ LET r == run[p]
           merged == MergeLint(BucketOf(r.onDisk, r.rules), r.lint)
       IN  lintFile' \in {lintFile, WithBucket(r.onDisk, r.rules, Newest(merged))}
    /\ run' = [run EXCEPT ![p].pc = "storeSidecar", ![p].onDisk = <<>>]
    /\ UNCHANGED <<tree, sideFile, scans, edits>>

\* Where the probes of each file were collected: by the parent, by a pool
\* worker with a chunk, or nowhere because the file could not be parsed.
Lanes == {"parent", "nowhere"} \cup Chunks

Collected(f, pass, lanes) ==
    IF lanes[f] = "parent" THEN ProbesOf(f, tree)
    ELSE WorkerProbesOf(f, {g \in pass : lanes[g] = lanes[f]}, tree)

SideEntry(r, f, pass, lanes) ==
    [key |-> Key(f, tree[f]), probes |-> Collected(f, pass, lanes), verdict |-> CrossReport(r, f)]
SideEntries(r, pass, lanes) ==
    LET files == InOrder({f \in Hashed(pass) : lanes[f] # "nowhere"})
    IN  [i \in DOMAIN files |-> SideEntry(r, files[i], pass, lanes)]
FreshSidecar(r, lanes) ==
    (IF r.sideDropped = {} THEN SideEntries(r, Relinted(r), lanes) ELSE <<>>)
      \o (IF Trusted(r) THEN SideEntries(r, r.miss, lanes) ELSE <<>>)

\* storeSidecarEntries: each pass is stored if it can be trusted; persist runs
\* only if something was stored.
StoreSidecar(p) ==
    /\ run[p].pc = "storeSidecar"
    /\ \E lanes \in [Relinted(run[p]) \cup run[p].miss -> Lanes] :
         LET fresh == FreshSidecar(run[p], lanes)
         IN  run' = [run EXCEPT ![p].pc = IF fresh = <<>> THEN "done" ELSE "writeSidecar",
                                ![p].side = StoreAll(@, fresh),
                                ![p].onDisk = IF fresh = <<>> THEN <<>> ELSE sideFile]
    /\ UNCHANGED <<tree, lintFile, sideFile, scans, edits>>

WriteSidecar(p) ==
    /\ run[p].pc = "writeSidecar"
    /\ LET r == run[p]
           merged == MergeSidecar(BucketOf(r.onDisk, r.rules), r.side)
       IN  sideFile' \in {sideFile, WithBucket(r.onDisk, r.rules, Newest(merged))}
    /\ run' = [run EXCEPT ![p].pc = "done", ![p].onDisk = <<>>]
    /\ UNCHANGED <<tree, lintFile, scans, edits>>

\* The report is handed to the caller.
Report(p) ==
    /\ run[p].pc = "done"
    /\ run' = [run EXCEPT ![p] = Idle]
    /\ UNCHANGED <<tree, lintFile, sideFile, scans, edits>>

Next ==
    \/ Edit
    \/ \E p \in Runs :
         \/ Start(p) \/ LoadSidecar(p)
         \/ FullPass(p) \/ SidecarPass(p) \/ UnboundedPass(p) \/ Fails(p)
         \/ StoreLint(p) \/ WriteLint(p) \/ StoreSidecar(p) \/ WriteSidecar(p)
         \/ Report(p)

Spec == Init /\ [][Next]_vars
=============================================================================
