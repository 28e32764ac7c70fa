------------------------ MODULE LintCachesProperties ------------------------
(* What the lint caches of run-oxlint.ts promise to the scans that use them. *)
EXTENDS LintCaches

Trees == [Paths -> Contents \cup {Missing}]
Keys == SourceFiles \X Contents

\* The caches hold ordered maps within their limits, whose keys are files with a
\* content, and a scan sorts its files into the passes that linted them.
WellFormed(file) ==
    /\ Len(file) <= MaxRulesets
    /\ \A i, j \in DOMAIN file : file[i].rules = file[j].rules => i = j
    /\ \A i \in DOMAIN file :
         LET entries == file[i].entries
         IN  /\ KeysOf(entries) \subseteq Keys
             /\ Len(entries) <= MaxEntries
             /\ Cardinality(KeysOf(entries)) = Len(entries)

TypeOK ==
    /\ tree \in Trees
    /\ WellFormed(lintFile) /\ WellFormed(sideFile)
    /\ \A p \in Runs :
         /\ run[p].rules \in Rulesets
         /\ run[p].files \subseteq SourceFiles
         /\ run[p].miss \subseteq run[p].files /\ run[p].dropped \subseteq run[p].miss
         /\ run[p].replayed \subseteq Hits(run[p])
         /\ run[p].sideDropped \subseteq Relinted(run[p])

\* A cache "degrades to a full re-lint, never to a wrong result": whatever the
\* file cache holds under a content is what linting that content reports, after
\* partial failures, failed writes and merges with other processes.
FileCacheIsSound ==
    \A i \in DOMAIN lintFile : \A j \in DOMAIN lintFile[i].entries :
      LET e == lintFile[i].entries[j]
      IN  e.verdict = LocalVerdict(lintFile[i].rules, e.key[2])

\* "... never to a stale verdict": the probes of an entry are all that its report
\* depends on.  In every state the project may ever be in, an
\* entry whose probes all have their answers reports what a fresh lint would.
SidecarIsSound ==
    \A i \in DOMAIN sideFile : \A j \in DOMAIN sideFile[i].entries :
      LET e == sideFile[i].entries[j]
      IN  \A t \in {u \in Trees : u[e.key[1]] = e.key[2]} :
            Replayable(e, t) => e.verdict = CrossVerdict(sideFile[i].rules, e.key[1], t)

\* A scan with warm caches reports of every file it calls analyzed what a scan
\* without caches would report now, and without failures that is every file.
ReportIsFresh ==
    \A p \in Runs : run[p].pc = "done" =>
      LET r == run[p]
      IN  /\ \A f \in Analyzed(r) :
               /\ LocalReport(r, f) = LocalVerdict(r.rules, tree[f])
               /\ CrossReport(r, f) = CrossVerdict(r.rules, f, tree)
          /\ r.dropped \cup r.sideDropped \cup r.looseDropped = {} => Analyzed(r) = r.files

Stores(p) == run[p].pc = "storeSidecar" /\ run'[p].pc = "writeSidecar"
JustStored(p) ==
    {run'[p].side[i] : i \in DOMAIN run'[p].side} \ {run[p].side[i] : i \in DOMAIN run[p].side}

\* "the stored probe sets are identical either way -- only where the work ran
\* differs" (run-oxlint.ts:204): the entry of a file does not depend on whether
\* the parent or a pool worker collected its probes.
ProbeSetsAreIdentical ==
    [][\A p \in Runs : Stores(p) =>
         \A e \in JustStored(p) : e.probes = ProbesOf(e.key[1], tree)]_vars

\* When the sidecar cache is over its limit the entries this scan just stored are
\* kept and older ones go.
FreshSidecarEntriesAreKept ==
    [][\A p \in Runs : run[p].pc = "writeSidecar" /\ run'[p].pc = "done" /\ sideFile' # sideFile =>
         KeysOf(Newest(run[p].side)) \subseteq KeysOf(BucketOf(sideFile', run[p].rules))]_vars
=============================================================================
