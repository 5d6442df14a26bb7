---------------------------- MODULE Conformance -----------------------------
(***************************************************************************)
(* scripts/conformance.py --source github: one scan of the assertions,     *)
(* over repositories that are pushed to while it runs and an API that may  *)
(* fail at every request.                                                  *)
(*                                                                         *)
(* What an assertion finds depends only on the provider's caches, which    *)
(* never lose an entry.  So an evaluation is modelled by the requests it   *)
(* still has to make (Wanted), each a step, and by its verdict once the    *)
(* caches hold everything it looks at (Conclude).                          *)
(*                                                                         *)
(* A file's content is abstracted to whether it matches the pattern        *)
(* asserted about it; a workflow file matches when all its references are  *)
(* pinned.  All assertions about one file share one pattern.               *)
(***************************************************************************)
EXTENDS Naturals, Sequences

CONSTANTS
  Repos,
  Files,
  Workflows,   \* those under .github/workflows
  Registries,  \* the lists of assertions a scan may load
  MaxPushes    \* pushes and changes of the archived flag during a scan

Kinds == {"file_contains", "file_not_contains", "path_exists", "path_absent",
          "conditional_contains", "repository_archived",
          "workflow_references_pinned"}

\* An assertion as architecture.py validates it.  A waiver is none, active or
\* expired, compared with the day of the scan.
AssertionType ==
  [kind : Kinds, targets : Seq(Repos), path : Files, when_path : Files,
   expected : BOOLEAN, severity : {"error", "warning"},
   waiver : {"none", "active", "expired"}]

\* The validator does not ask that the last two kinds name one repository, but
\* evaluating them reads the key `repository`; the registry always has it.
ASSUME ConformanceAssumption ==
  /\ Workflows \subseteq Files
  /\ MaxPushes \in Nat
  /\ Registries \subseteq Seq(AssertionType)
  /\ \A registry \in Registries : \A i \in 1..Len(registry) :
       /\ registry[i].targets # <<>>
       /\ registry[i].kind \in {"conditional_contains", "repository_archived"} =>
            Len(registry[i].targets) = 1

VARIABLES
  \* GitHub
  tree,       \* repository -> file -> absent, without or with a match
  archived,   \* repository -> is it archived?
  pushes,
  visible,    \* repositories gh shows: to a token without access to a private
              \* one GitHub says 404, and without gh the code sees the same
  \* the scan
  registry,   \* the assertions, in order
  findings,   \* the status of each finding, in order
  content_cache, metadata_cache, tree_cache,
  \* history of the scan, for the properties only
  held,       \* repository -> file -> what it has been since the scan began
  flags       \* repository -> the values its archived flag has had

world == <<tree, archived, pushes, visible>>
caches == <<content_cache, metadata_cache, tree_cache>>
history == <<held, flags>>
vars == <<world, registry, findings, caches, history>>

Content == {"absent", "without", "with"}
Status == {"pass", "pass-with-stale-waiver", "violation", "expired-waiver",
           "waived", "error"}

\* Dictionaries: the functions whose domain is among these keys.
Dictionaries(K, V) == UNION {[D -> V] : D \in SUBSET K}
Empty == [k \in {} |-> {}]
Put(dict, key, value) ==
  [k \in DOMAIN dict \cup {key} |-> IF k = key THEN value ELSE dict[k]]

TypeOK ==
  /\ tree \in [Repos -> [Files -> Content]]
  /\ archived \in [Repos -> BOOLEAN]
  /\ pushes \in 0..MaxPushes
  /\ visible \in SUBSET Repos
  /\ registry \in Registries
  /\ findings \in Seq(Status) /\ Len(findings) <= Len(registry)
  /\ content_cache \in Dictionaries(Repos \X Files, Content)
  /\ metadata_cache \in Dictionaries(Repos, BOOLEAN)
  /\ tree_cache \in Dictionaries(Repos, SUBSET Files)
  /\ DOMAIN tree_cache \subseteq DOMAIN metadata_cache
  /\ held \in [Repos -> [Files -> SUBSET Content]]
  /\ flags \in [Repos -> SUBSET BOOLEAN]

Init ==
  /\ tree \in [Repos -> [Files -> Content]]
  /\ archived \in [Repos -> BOOLEAN]
  /\ pushes = 0
  /\ visible \in SUBSET Repos
  /\ registry \in Registries
  /\ findings = <<>>
  /\ content_cache = Empty /\ metadata_cache = Empty /\ tree_cache = Empty
  /\ held = [r \in Repos |-> [f \in Files |-> {tree[r][f]}]]
  /\ flags = [r \in Repos |-> {archived[r]}]

(***************************************************************************)
(* Somebody pushes to a repository, archives it or unarchives it.  What    *)
(* happens after the scan is not looked at.                                *)
(***************************************************************************)
Scanning == Len(findings) < Len(registry)

Push(r) ==
  /\ Scanning
  /\ pushes < MaxPushes
  /\ pushes' = pushes + 1
  /\ \E f \in Files, c \in Content :
       /\ tree' = [tree EXCEPT ![r][f] = c]
       /\ held' = [held EXCEPT ![r][f] = @ \cup {c}]
  /\ UNCHANGED <<archived, visible, registry, findings, caches, flags>>

Archive(r) ==
  /\ Scanning
  /\ pushes < MaxPushes
  /\ pushes' = pushes + 1
  /\ \E flag \in BOOLEAN :
       /\ archived' = [archived EXCEPT ![r] = flag]
       /\ flags' = [flags EXCEPT ![r] = @ \cup {flag}]
  /\ UNCHANGED <<tree, visible, registry, findings, caches, held>>

(***************************************************************************)
(* What an evaluation looks up.                                            *)
(***************************************************************************)
Blob(r, f) == [call |-> "content", repo |-> r, file |-> f]
Metadata(r) == [call |-> "metadata", repo |-> r]
Tree(r) == [call |-> "tree", repo |-> r]

\* Requests not in the cache yet.
Uncached(r, files) ==
  {Blob(r, f) : f \in {g \in files : <<r, g>> \notin DOMAIN content_cache}}
UncachedMetadata(r) == IF r \in DOMAIN metadata_cache THEN {} ELSE {Metadata(r)}

\* Faulty variant: paths() takes the default branch for granted.
UncachedTree(r) == IF r \in DOMAIN tree_cache THEN {} ELSE {Tree(r)}

\* paths() asks metadata() for the default branch first.
UncachedPaths(r) ==
  IF r \in DOMAIN tree_cache THEN {}
  ELSE IF r \in DOMAIN metadata_cache THEN {Tree(r)} ELSE {Metadata(r)}

\* What evaluating a against its target r has to ask for next.
Needs(a, r) ==
  CASE a.kind \in {"file_contains", "file_not_contains"} -> Uncached(r, {a.path})
    [] a.kind \in {"path_exists", "path_absent"} -> UncachedPaths(r)
    [] a.kind = "repository_archived" -> UncachedMetadata(r)
    [] a.kind = "conditional_contains" ->
         IF <<r, a.when_path>> \notin DOMAIN content_cache
         THEN Uncached(r, {a.when_path})
         ELSE IF content_cache[<<r, a.when_path>>] = "with"
         THEN Uncached(r, {a.path}) ELSE {}
    [] a.kind = "workflow_references_pinned" ->
         IF r \in DOMAIN tree_cache
         THEN Uncached(r, tree_cache[r] \cap Workflows)
         ELSE UncachedPaths(r)

Targets(a) == {a.targets[i] : i \in 1..Len(a.targets)}

\* Targets are evaluated in order.
Wanted(a) ==
  UNION {Needs(a, a.targets[i]) : i \in
    {j \in 1..Len(a.targets) : \A k \in 1..j - 1 : Needs(a, a.targets[k]) = {}}}

(***************************************************************************)
(* What it makes of them.                                                  *)
(***************************************************************************)
\* evaluate_file, evaluate_path, evaluate_conditional, evaluate_archived,
\* evaluate_workflows: does target r give a failure?
Fails(a, r) ==
  CASE a.kind = "file_contains" -> content_cache[<<r, a.path>>] # "with"
    [] a.kind = "file_not_contains" -> content_cache[<<r, a.path>>] # "without"
    [] a.kind = "path_exists" -> a.path \notin tree_cache[r]
    [] a.kind = "path_absent" -> a.path \in tree_cache[r]
    [] a.kind = "repository_archived" -> metadata_cache[r] # a.expected
    [] a.kind = "conditional_contains" ->
         \/ content_cache[<<r, a.when_path>>] = "absent"
         \/ /\ content_cache[<<r, a.when_path>>] = "with"
            /\ content_cache[<<r, a.path>>] # "with"
    [] a.kind = "workflow_references_pinned" ->
         \/ tree_cache[r] \cap Workflows = {}
         \/ \E f \in tree_cache[r] \cap Workflows : content_cache[<<r, f>>] # "with"

\* classify.
Classify(a, failed) ==
  IF ~failed
  THEN IF a.waiver = "none" THEN "pass" ELSE "pass-with-stale-waiver"
  ELSE CASE a.waiver = "none" -> "violation"
         [] a.waiver = "expired" -> "expired-waiver"
         [] a.waiver = "active" -> "waived"

(***************************************************************************)
(* evaluate_all.                                                           *)
(***************************************************************************)
Current == registry[Len(findings) + 1]

\* 404 counts as a missing file, whether or not its repository can be seen.
ContentOf(r, f) == IF r \in visible THEN tree[r][f] ELSE "absent"

\* gh api succeeds, a 404 for a file included, and its answer is cached.
FetchContent(r, f) ==
  /\ Scanning
  /\ Blob(r, f) \in Wanted(Current)
  /\ content_cache' = Put(content_cache, <<r, f>>, ContentOf(r, f))
  /\ UNCHANGED <<world, registry, findings, metadata_cache, tree_cache, history>>

FetchMetadata(r) ==
  /\ Scanning
  /\ Metadata(r) \in Wanted(Current)
  /\ r \in visible
  /\ metadata_cache' = Put(metadata_cache, r, archived[r])
  /\ UNCHANGED <<world, registry, findings, content_cache, tree_cache, history>>

FetchTree(r) ==
  /\ Scanning
  /\ Tree(r) \in Wanted(Current)
  /\ r \in visible
  /\ tree_cache' = Put(tree_cache, r, {f \in Files : tree[r][f] # "absent"})
  /\ UNCHANGED <<world, registry, findings, content_cache, metadata_cache,
                 history>>

\* Faulty variant: any failure to read a file is taken for a missing file.
FailedIsMissing ==
  /\ Scanning
  /\ \E r \in Repos, f \in Files :
       /\ Blob(r, f) \in Wanted(Current)
       /\ content_cache' = Put(content_cache, <<r, f>>, "absent")
  /\ UNCHANGED <<world, registry, findings, metadata_cache, tree_cache, history>>

\* gh api fails: rate limit, no network, a truncated tree, 404 for a repository.
\* The assertion ends in an error finding and the scan goes on; nothing is
\* cached for it.
RequestFails ==
  /\ Scanning
  /\ Wanted(Current) # {}
  /\ findings' = Append(findings, "error")
  /\ UNCHANGED <<world, registry, caches, history>>

\* Faulty variant: a provider is made for each assertion.
ProviderPerAssertion ==
  content_cache' = Empty /\ metadata_cache' = Empty /\ tree_cache' = Empty

\* One provider serves the whole scan.
KeepProvider == UNCHANGED caches

\* Everything looked at is known.
Conclude ==
  /\ Scanning
  /\ \A r \in Targets(Current) : Needs(Current, r) = {}
  /\ findings' = Append(findings,
       Classify(Current, \E r \in Targets(Current) : Fails(Current, r)))
  /\ KeepProvider
  /\ UNCHANGED <<world, registry, history>>

Developers == \E r \in Repos : Push(r) \/ Archive(r)

Scan ==
  \/ \E r \in Repos, f \in Files : FetchContent(r, f)
  \/ \E r \in Repos : FetchMetadata(r) \/ FetchTree(r)
  \/ RequestFails \/ Conclude

Next == Developers \/ Scan

Spec == Init /\ [][Next]_vars

\* has_failure: an error finding always has severity error.
Severity(i) == IF findings[i] = "error" THEN "error" ELSE registry[i].severity

\* Faulty variant: what could not be evaluated did not fail.
FailingIfEvaluated(strict) ==
  {"expired-waiver", "violation"} \cup IF strict THEN {"waived"} ELSE {}

Failing(strict) ==
  {"error", "expired-waiver", "violation"} \cup IF strict THEN {"waived"} ELSE {}

has_failure(strict) ==
  \E i \in 1..Len(findings) :
    findings[i] \in Failing(strict) /\ Severity(i) = "error"

(***************************************************************************)
(* Properties.                                                             *)
(***************************************************************************)

\* Did a hold of target r, each file and flag taken at some moment of the scan?
Held(a, r) ==
  CASE a.kind = "file_contains" -> "with" \in held[r][a.path]
    [] a.kind = "file_not_contains" -> "without" \in held[r][a.path]
    [] a.kind = "path_exists" -> held[r][a.path] # {"absent"}
    [] a.kind = "path_absent" -> "absent" \in held[r][a.path]
    [] a.kind = "repository_archived" -> a.expected \in flags[r]
    [] a.kind = "conditional_contains" ->
         \/ "without" \in held[r][a.when_path]
         \/ "with" \in held[r][a.when_path] /\ "with" \in held[r][a.path]
    [] a.kind = "workflow_references_pinned" ->
         /\ \E f \in Workflows : held[r][f] # {"absent"}
         /\ \A f \in Workflows : held[r][f] # {"without"}

\* Did it fail for r, likewise?
Broken(a, r) ==
  CASE a.kind = "file_contains" -> held[r][a.path] # {"with"}
    [] a.kind = "file_not_contains" -> held[r][a.path] # {"without"}
    [] a.kind = "path_exists" -> "absent" \in held[r][a.path]
    [] a.kind = "path_absent" -> held[r][a.path] # {"absent"}
    [] a.kind = "repository_archived" -> flags[r] # {a.expected}
    [] a.kind = "conditional_contains" ->
         \/ "absent" \in held[r][a.when_path]
         \/ "with" \in held[r][a.when_path] /\ held[r][a.path] # {"with"}
    [] a.kind = "workflow_references_pinned" ->
         \/ \A f \in Workflows : "absent" \in held[r][f]
         \/ \E f \in Workflows : held[r][f] \notin {{"with"}, {"absent"}}

Passed(i) == findings[i] \in {"pass", "pass-with-stale-waiver"}

\* A scan that ends without a failure vouches for every assertion of severity
\* error that no active waiver covers: it saw each target, which met it with
\* contents it had during the scan, however many requests failed.
GreenMeansHeld ==
  ~Scanning => \A strict \in BOOLEAN : ~has_failure(strict) =>
    \A i \in 1..Len(registry) :
      /\ registry[i].severity = "error"
      /\ registry[i].waiver = "active" => strict
      => \A r \in Targets(registry[i]) : r \in visible /\ Held(registry[i], r)

\* An assertion is only reported as broken, waived or not, when one of its
\* targets really was, or could not be seen at all: a request that failed for
\* another reason is no evidence against anyone.
RedMeansBroken ==
  \A i \in 1..Len(findings) :
    findings[i] \in {"violation", "expired-waiver", "waived"} =>
      \E r \in Targets(registry[i]) : Broken(registry[i], r) \/ r \notin visible

\* Would a hold of a repository with these files and this flag?  This is what an
\* assertion says, without caches, requests or time.
Meets(a, files, flag) ==
  CASE a.kind = "file_contains" -> files[a.path] = "with"
    [] a.kind = "file_not_contains" -> files[a.path] = "without"
    [] a.kind = "path_exists" -> files[a.path] # "absent"
    [] a.kind = "path_absent" -> files[a.path] = "absent"
    [] a.kind = "repository_archived" -> flag = a.expected
    [] a.kind = "conditional_contains" ->
         \/ files[a.when_path] = "without"
         \/ files[a.when_path] = "with" /\ files[a.path] = "with"
    [] a.kind = "workflow_references_pinned" ->
         /\ \E f \in Workflows : files[f] # "absent"
         /\ \A f \in Workflows : files[f] # "without"

\* Assertions about what content() answers, and about what paths() lists; either
\* sort may stand beside repository_archived, which asks neither.
OfContents == {"file_contains", "file_not_contains", "conditional_contains",
               "repository_archived"}
OfPaths == {"path_exists", "path_absent", "workflow_references_pinned",
            "repository_archived"}

Untouched(r) == /\ \A f \in Files : held[r][f] = {tree[r][f]}
                /\ flags[r] = {archived[r]}

\* Can the assertions of these kinds that r has passed hold together?
AgreeOn(kinds, r) ==
  \E files \in [Files -> Content], flag \in BOOLEAN :
    \A i \in 1..Len(findings) :
      /\ Passed(i)
      /\ registry[i].kind \in kinds
      /\ r \in Targets(registry[i])
      => Meets(registry[i], files, flag)

\* One scan gives one answer: all that r has passed about contents is true of one
\* state of r, and so is all it has passed about paths, whatever is pushed while
\* the scan runs.  Contents and paths are fetched and cached apart, so the two
\* answers may be of different moments - file_contains and path_absent of one
\* file can both pass - but only if r changed during the scan.
OneAnswer ==
  \A r \in Repos :
    /\ AgreeOn(OfContents, r)
    /\ AgreeOn(OfPaths, r)
    /\ Untouched(r) => AgreeOn(Kinds, r)
=============================================================================
