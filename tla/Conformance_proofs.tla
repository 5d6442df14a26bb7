------------------------- MODULE Conformance_proofs -------------------------
(***************************************************************************)
(* Theorems about Conformance, for any repositories, files, registries and *)
(* any number of pushes during a scan.                                     *)
(***************************************************************************)
EXTENDS Conformance, TLAPS

\* The registry and the findings, and that history includes the present.
Shape ==
  /\ registry \in Registries
  /\ findings \in Seq(Status) /\ Len(findings) <= Len(registry)
  /\ tree \in [Repos -> [Files -> Content]]
  /\ archived \in [Repos -> BOOLEAN]
  /\ held \in [Repos -> [Files -> SUBSET Content]]
  /\ flags \in [Repos -> SUBSET BOOLEAN]
  /\ \A r \in Repos, f \in Files : tree[r][f] \in held[r][f]
  /\ \A r \in Repos : archived[r] \in flags[r]

\* The caches hold what the repositories had during the scan.
CachesHeld ==
  /\ \A r \in Repos, f \in Files : <<r, f>> \in DOMAIN content_cache =>
       IF r \in visible THEN content_cache[<<r, f>>] \in held[r][f]
       ELSE content_cache[<<r, f>>] = "absent"
  /\ \A r \in Repos : r \in DOMAIN metadata_cache =>
       r \in visible /\ metadata_cache[r] \in flags[r]
  /\ \A r \in Repos : r \in DOMAIN tree_cache =>
       /\ r \in visible
       /\ tree_cache[r] \subseteq Files
       /\ \A f \in Files : IF f \in tree_cache[r] THEN held[r][f] # {"absent"}
                           ELSE "absent" \in held[r][f]

\* The findings so far are true.
FindingsHeld ==
  \A i \in 1..Len(findings) :
    /\ Passed(i) =>
         \A r \in Targets(registry[i]) : r \in visible /\ Held(registry[i], r)
    /\ findings[i] \in {"violation", "expired-waiver", "waived"} =>
         \E r \in Targets(registry[i]) : Broken(registry[i], r) \/ r \notin visible
    /\ findings[i] = "waived" => registry[i].waiver = "active"

TruthInv == Shape /\ CachesHeld /\ FindingsHeld

LEMMA AssertionFacts ==
  ASSUME registry \in Registries, NEW i \in 1..Len(registry)
  PROVE  /\ registry[i] \in AssertionType
         /\ \A r \in Targets(registry[i]) : r \in Repos
         /\ registry \in Seq(AssertionType)
<1>1. registry \in Seq(AssertionType)
  BY ConformanceAssumption
<1>2. registry[i] \in AssertionType
  BY <1>1
<1>3. registry[i].targets \in Seq(Repos)
  BY <1>2 DEF AssertionType
<1> QED BY <1>1, <1>2, <1>3 DEF Targets

\* What a dictionary gives after an entry is put into it.
LEMMA PutFacts ==
  ASSUME NEW dict, NEW key, NEW value
  PROVE  /\ DOMAIN Put(dict, key, value) = DOMAIN dict \cup {key}
         /\ Put(dict, key, value)[key] = value
         /\ \A k \in DOMAIN dict : k # key => Put(dict, key, value)[k] = dict[k]
BY DEF Put

\* No file is left to ask for when all are cached.
LEMMA CachedFacts ==
  ASSUME NEW r, NEW files, Uncached(r, files) = {}
  PROVE  \A f \in files : <<r, f>> \in DOMAIN content_cache
BY DEF Uncached

\* The verdict on a target whose lookups are all cached is true of what its
\* repository had during the scan.
LEMMA VerdictTrue ==
  ASSUME Shape, CachesHeld, NEW a \in AssertionType, NEW r \in Repos,
         Needs(a, r) = {}
  PROVE  /\ ~Fails(a, r) => r \in visible /\ Held(a, r)
         /\ Fails(a, r) => Broken(a, r) \/ r \notin visible
<1> USE DEF CachesHeld, Shape, Needs, Fails, Held, Broken
<1>0. a.kind \in Kinds /\ a.path \in Files /\ a.when_path \in Files
      /\ a.expected \in BOOLEAN /\ Workflows \subseteq Files
  BY ConformanceAssumption DEF AssertionType
<1>1. CASE a.kind = "file_contains"
  <2>1. Uncached(r, {a.path}) = {}
    BY <1>1
  <2>2. IF r \in visible THEN content_cache[<<r, a.path>>] \in held[r][a.path]
        ELSE content_cache[<<r, a.path>>] = "absent"
    BY <1>0, <2>1, CachedFacts
  <2> QED BY <1>1, <2>2
<1>2. CASE a.kind = "file_not_contains"
  <2>1. Uncached(r, {a.path}) = {}
    BY <1>2
  <2>2. IF r \in visible THEN content_cache[<<r, a.path>>] \in held[r][a.path]
        ELSE content_cache[<<r, a.path>>] = "absent"
    BY <1>0, <2>1, CachedFacts
  <2> QED BY <1>2, <2>2
<1>3. CASE a.kind = "path_exists"
  BY <1>0, <1>3 DEF UncachedPaths
<1>4. CASE a.kind = "path_absent"
  BY <1>0, <1>4 DEF UncachedPaths
<1>5. CASE a.kind = "repository_archived"
  BY <1>0, <1>5 DEF UncachedMetadata
<1>6. CASE a.kind = "conditional_contains"
  <2>1. <<r, a.when_path>> \in DOMAIN content_cache
    <3>1. CASE <<r, a.when_path>> \notin DOMAIN content_cache
      <4>1. Uncached(r, {a.when_path}) = {}
        BY <1>6, <3>1
      <4> QED BY <4>1, CachedFacts
    <3> QED BY <3>1
  <2>2. IF r \in visible
        THEN content_cache[<<r, a.when_path>>] \in held[r][a.when_path] \cap Content
        ELSE content_cache[<<r, a.when_path>>] = "absent"
    BY <1>0, <2>1
  <2>3. CASE content_cache[<<r, a.when_path>>] = "with"
    <3>1. Uncached(r, {a.path}) = {}
      BY <1>6, <2>1, <2>3
    <3>2. IF r \in visible THEN content_cache[<<r, a.path>>] \in held[r][a.path]
          ELSE content_cache[<<r, a.path>>] = "absent"
      BY <1>0, <3>1, CachedFacts
    <3> QED BY <1>6, <2>2, <2>3, <3>2
  <2> QED BY <1>6, <2>2, <2>3 DEF Content
<1>7. CASE a.kind = "workflow_references_pinned"
  <2>1. r \in DOMAIN tree_cache
    BY <1>7 DEF UncachedPaths
  <2>2. Uncached(r, tree_cache[r] \cap Workflows) = {}
    BY <1>7, <2>1
  <2>3. \A f \in tree_cache[r] \cap Workflows :
          f \in Files /\ content_cache[<<r, f>>] \in held[r][f] \cap Content
    <3>1. \A f \in tree_cache[r] \cap Workflows :
            f \in Files /\ <<r, f>> \in DOMAIN content_cache
      BY <1>0, <2>2, CachedFacts
    <3> QED BY <2>1, <3>1
  <2>4. \A f \in Workflows :
          IF f \in tree_cache[r] THEN held[r][f] # {"absent"}
          ELSE "absent" \in held[r][f]
    BY <1>0, <2>1
  <2>5. ~Fails(a, r) => r \in visible /\ Held(a, r)
    <3> SUFFICES ASSUME ~Fails(a, r)
                 PROVE  /\ \E f \in Workflows : held[r][f] # {"absent"}
                        /\ \A f \in Workflows : held[r][f] # {"without"}
      BY <1>7, <2>1
    <3>1. /\ tree_cache[r] \cap Workflows # {}
          /\ \A f \in tree_cache[r] \cap Workflows : content_cache[<<r, f>>] = "with"
      BY <1>7
    <3> QED BY <2>3, <2>4, <3>1
  <2>6. Fails(a, r) => Broken(a, r)
    <3> SUFFICES ASSUME Fails(a, r)
                 PROVE  \/ \A f \in Workflows : "absent" \in held[r][f]
                        \/ \E f \in Workflows : held[r][f] \notin {{"with"}, {"absent"}}
      BY <1>7
    <3>1. \/ tree_cache[r] \cap Workflows = {}
          \/ \E f \in tree_cache[r] \cap Workflows : content_cache[<<r, f>>] # "with"
      BY <1>7
    <3> QED BY <2>3, <2>4, <3>1
  <2> QED BY <2>5, <2>6
<1> QED
  BY <1>0, <1>1, <1>2, <1>3, <1>4, <1>5, <1>6, <1>7 DEF Kinds

\* History only grows, so what held or was broken once stays so.
LEMMA HeldGrows ==
  ASSUME Shape, NEW a \in AssertionType, NEW r \in Repos,
         \A f \in Files : held[r][f] \subseteq held'[r][f],
         flags[r] \subseteq flags'[r]
  PROVE  /\ Held(a, r) => Held(a, r)'
         /\ Broken(a, r) => Broken(a, r)'
<1>0. /\ a.kind \in Kinds /\ a.path \in Files /\ a.when_path \in Files
      /\ Workflows \subseteq Files
  BY ConformanceAssumption DEF AssertionType
<1>1. \A f \in Files :
        /\ \A c : c \in held[r][f] => c \in held'[r][f]
        /\ \A c : held[r][f] # {c} => held'[r][f] # {c}
        /\ held[r][f] \notin {{"with"}, {"absent"}} =>
             held'[r][f] \notin {{"with"}, {"absent"}}
  <2> SUFFICES ASSUME NEW f \in Files
               PROVE  \A c : held[r][f] # {c} => held'[r][f] # {c}
    OBVIOUS
  <2>1. PICK b : b \in held[r][f]
    BY DEF Shape
  <2> QED BY <2>1
<1>2. \A x : /\ x \in flags[r] => x \in flags'[r]
             /\ flags[r] # {x} => flags'[r] # {x}
  <2>1. PICK b : b \in flags[r]
    BY DEF Shape
  <2> QED BY <2>1
<1>3. CASE a.kind = "file_contains"
  BY <1>0, <1>1, <1>3 DEF Held, Broken
<1>4. CASE a.kind = "file_not_contains"
  BY <1>0, <1>1, <1>4 DEF Held, Broken
<1>5. CASE a.kind = "path_exists"
  BY <1>0, <1>1, <1>5 DEF Held, Broken
<1>6. CASE a.kind = "path_absent"
  BY <1>0, <1>1, <1>6 DEF Held, Broken
<1>7. CASE a.kind = "repository_archived"
  BY <1>2, <1>7 DEF Held, Broken
<1>8. CASE a.kind = "conditional_contains"
  BY <1>0, <1>1, <1>8 DEF Held, Broken
<1>9. CASE a.kind = "workflow_references_pinned"
  <2>1. Held(a, r) => Held(a, r)'
    <3> SUFFICES ASSUME Held(a, r)
                 PROVE  /\ \E f \in Workflows : held'[r][f] # {"absent"}
                        /\ \A f \in Workflows : held'[r][f] # {"without"}
      BY <1>9 DEF Held
    <3>1. /\ \E f \in Workflows : held[r][f] # {"absent"}
          /\ \A f \in Workflows : held[r][f] # {"without"}
      BY <1>9 DEF Held
    <3> QED BY <1>0, <1>1, <3>1
  <2>2. Broken(a, r) => Broken(a, r)'
    BY <1>0, <1>1, <1>9 DEF Broken
  <2> QED BY <2>1, <2>2
<1> QED
  BY <1>0, <1>3, <1>4, <1>5, <1>6, <1>7, <1>8, <1>9 DEF Kinds

\* Findings stay true when the registry and the findings do not change.
LEMMA FindingsStayTrue ==
  ASSUME Shape, FindingsHeld, UNCHANGED <<registry, findings, visible>>,
         \A q \in Repos : /\ \A f \in Files : held[q][f] \subseteq held'[q][f]
                         /\ flags[q] \subseteq flags'[q]
  PROVE  FindingsHeld'
<1> SUFFICES ASSUME NEW i \in 1..Len(findings)
    PROVE /\ Passed(i) => \A q \in Targets(registry[i]) :
               q \in visible /\ Held(registry[i], q)'
          /\ findings[i] \in {"violation", "expired-waiver", "waived"} =>
               \E q \in Targets(registry[i]) :
                 Broken(registry[i], q)' \/ q \notin visible
          /\ findings[i] = "waived" => registry[i].waiver = "active"
  BY DEF FindingsHeld, Passed, Targets
<1>1. i \in 1..Len(registry)
  BY ConformanceAssumption DEF Shape
<1>2. /\ registry[i] \in AssertionType
      /\ \A q \in Targets(registry[i]) : q \in Repos
  BY <1>1, AssertionFacts DEF Shape
<1>3. \A q \in Targets(registry[i]) :
        /\ Held(registry[i], q) => Held(registry[i], q)'
        /\ Broken(registry[i], q) => Broken(registry[i], q)'
  BY <1>2, HeldGrows
<1> QED BY <1>3 DEF FindingsHeld

\* So do the caches.
LEMMA CachesStayTrue ==
  ASSUME Shape, CachesHeld,
         UNCHANGED <<content_cache, metadata_cache, tree_cache, visible>>,
         \A q \in Repos : /\ \A f \in Files : held[q][f] \subseteq held'[q][f]
                         /\ flags[q] \subseteq flags'[q]
  PROVE  CachesHeld'
<1>1. \A q \in Repos, f \in Files :
        held[q][f] # {"absent"} => held'[q][f] # {"absent"}
  BY DEF Shape
<1> QED BY <1>1 DEF CachesHeld

\* A push or a change of the archived flag is added to the history.
LEMMA DevelopersKeep == TruthInv /\ Developers => TruthInv'
<1> SUFFICES ASSUME TruthInv, NEW r \in Repos, Push(r) \/ Archive(r)
             PROVE  TruthInv'
  BY DEF Developers
<1> USE DEF TruthInv
<1>1. UNCHANGED <<registry, findings, content_cache, metadata_cache, tree_cache,
                  visible>>
  BY DEF Push, Archive, caches
<1>2. CASE Push(r)
  <2>1. PICK g \in Files, c \in Content :
          /\ tree' = [tree EXCEPT ![r][g] = c]
          /\ held' = [held EXCEPT ![r][g] = @ \cup {c}]
    BY <1>2 DEF Push
  <2>2. UNCHANGED <<archived, flags>>
    BY <1>2 DEF Push
  <2>3. tree' \in [Repos -> [Files -> Content]]
    BY <2>1 DEF Shape
  <2>4. held' \in [Repos -> [Files -> SUBSET Content]]
    BY <2>1 DEF Shape
  <2>5. \A q \in Repos, f \in Files :
          /\ held[q][f] \subseteq held'[q][f]
          /\ tree'[q][f] \in held'[q][f]
    BY <2>1 DEF Shape
  <2>6. Shape'
    BY <1>1, <2>2, <2>3, <2>4, <2>5 DEF Shape
  <2> QED BY <1>1, <2>2, <2>5, <2>6, CachesStayTrue, FindingsStayTrue
<1>3. CASE Archive(r)
  <2>1. PICK flag \in BOOLEAN :
          /\ archived' = [archived EXCEPT ![r] = flag]
          /\ flags' = [flags EXCEPT ![r] = @ \cup {flag}]
    BY <1>3 DEF Archive
  <2>2. UNCHANGED <<tree, held>>
    BY <1>3 DEF Archive
  <2>4. flags' \in [Repos -> SUBSET BOOLEAN]
    BY <2>1 DEF Shape
  <2>5. \A q \in Repos : flags[q] \subseteq flags'[q]
    BY <2>1 DEF Shape
  <2>6. /\ archived' \in [Repos -> BOOLEAN]
        /\ \A q \in Repos : archived'[q] \in flags'[q]
    BY <2>1 DEF Shape
  <2>7. Shape'
    BY <1>1, <2>2, <2>4, <2>6 DEF Shape
  <2> QED BY <1>1, <2>2, <2>5, <2>7, CachesStayTrue, FindingsStayTrue
<1> QED BY <1>2, <1>3

\* The answer to a request is what the repository has at the moment.
LEMMA FetchesKeep ==
  ASSUME TruthInv, NEW r \in Repos, NEW f,
         (f \in Files /\ FetchContent(r, f)) \/ FetchMetadata(r) \/ FetchTree(r)
  PROVE  TruthInv'
<1> USE DEF TruthInv
<1>1. UNCHANGED <<tree, archived, visible, registry, findings, held, flags>>
  BY DEF FetchContent, FetchMetadata, FetchTree, world, history
<1>2. Shape'
  BY <1>1 DEF Shape
<1>3. FindingsHeld'
  BY <1>1, FindingsStayTrue
<1>4. CASE f \in Files /\ FetchContent(r, f)
  <2>1. /\ content_cache' = Put(content_cache, <<r, f>>, ContentOf(r, f))
        /\ UNCHANGED <<metadata_cache, tree_cache>>
    BY <1>4 DEF FetchContent
  <2>2. \A q \in Repos, g \in Files : <<q, g>> \in DOMAIN content_cache' =>
          IF q \in visible THEN content_cache'[<<q, g>>] \in held[q][g]
          ELSE content_cache'[<<q, g>>] = "absent"
    <3> SUFFICES ASSUME NEW q \in Repos, NEW g \in Files,
                        <<q, g>> \in DOMAIN content_cache'
                 PROVE  IF q \in visible THEN content_cache'[<<q, g>>] \in held[q][g]
                        ELSE content_cache'[<<q, g>>] = "absent"
      OBVIOUS
    <3>1. CASE q = r /\ g = f
      BY <1>4, <2>1, <3>1 DEF Put, Shape, ContentOf
    <3>2. CASE ~(q = r /\ g = f)
      <4>1. <<q, g>> # <<r, f>>
        BY <3>2
      <4>2. <<q, g>> \in DOMAIN content_cache
        BY <2>1, <4>1 DEF Put
      <4>3. content_cache'[<<q, g>>] = content_cache[<<q, g>>]
        BY <2>1, <4>1, <4>2 DEF Put
      <4> QED BY <4>2, <4>3 DEF CachesHeld
    <3> QED BY <3>1, <3>2
  <2> QED BY <1>1, <1>2, <1>3, <2>1, <2>2 DEF CachesHeld
<1>5. CASE FetchMetadata(r)
  <2>1. /\ metadata_cache' = Put(metadata_cache, r, archived[r])
        /\ r \in visible /\ UNCHANGED <<content_cache, tree_cache>>
    BY <1>5 DEF FetchMetadata
  <2>2. \A q \in Repos : q \in DOMAIN metadata_cache' =>
          q \in visible /\ metadata_cache'[q] \in flags[q]
    <3> SUFFICES ASSUME NEW q \in Repos, q \in DOMAIN metadata_cache'
                 PROVE  q \in visible /\ metadata_cache'[q] \in flags[q]
      OBVIOUS
    <3>1. CASE q = r
      <4>1. metadata_cache'[r] = archived[r]
        BY <2>1 DEF Put
      <4> QED BY <2>1, <3>1, <4>1 DEF Shape
    <3>2. CASE q # r
      <4>1. q \in DOMAIN metadata_cache /\ metadata_cache'[q] = metadata_cache[q]
        BY <2>1, <3>2 DEF Put
      <4> QED BY <4>1 DEF CachesHeld
    <3> QED BY <3>1, <3>2
  <2> QED BY <1>1, <1>2, <1>3, <2>1, <2>2 DEF CachesHeld
<1>6. CASE FetchTree(r)
  <2> DEFINE present == {g \in Files : tree[r][g] # "absent"}
  <2>1. /\ tree_cache' = Put(tree_cache, r, present)
        /\ r \in visible /\ UNCHANGED <<content_cache, metadata_cache>>
    BY <1>6 DEF FetchTree
  <2>2. /\ present \subseteq Files
        /\ \A g \in Files : IF g \in present THEN held[r][g] # {"absent"}
                           ELSE "absent" \in held[r][g]
    BY DEF Shape
  <2> HIDE DEF present
  <2>3. \A q \in Repos : q \in DOMAIN tree_cache' =>
          /\ q \in visible
          /\ tree_cache'[q] \subseteq Files
          /\ \A g \in Files : IF g \in tree_cache'[q] THEN held[q][g] # {"absent"}
                             ELSE "absent" \in held[q][g]
    <3> SUFFICES ASSUME NEW q \in Repos, q \in DOMAIN tree_cache'
        PROVE  /\ q \in visible
               /\ tree_cache'[q] \subseteq Files
               /\ \A g \in Files :
                    IF g \in tree_cache'[q] THEN held[q][g] # {"absent"}
                    ELSE "absent" \in held[q][g]
      OBVIOUS
    <3>1. CASE q = r
      <4>1. tree_cache'[r] = present
        BY <2>1 DEF Put
      <4> QED BY <2>1, <2>2, <3>1, <4>1
    <3>2. CASE q # r
      <4>1. q \in DOMAIN tree_cache /\ tree_cache'[q] = tree_cache[q]
        BY <2>1, <3>2 DEF Put
      <4> QED BY <4>1 DEF CachesHeld
    <3> QED BY <3>1, <3>2
  <2> QED BY <1>1, <1>2, <1>3, <2>1, <2>3 DEF CachesHeld
<1> QED BY <1>4, <1>5, <1>6

\* A true finding may be added to the others.
LEMMA AddFinding ==
  ASSUME TruthInv, Scanning, NEW status \in Status,
         findings' = Append(findings, status),
         UNCHANGED <<world, registry, caches, history>>,
         status \in {"pass", "pass-with-stale-waiver"} =>
           \A r \in Targets(Current) : r \in visible /\ Held(Current, r),
         status \in {"violation", "expired-waiver", "waived"} =>
           \E r \in Targets(Current) : Broken(Current, r) \/ r \notin visible,
         status = "waived" => Current.waiver = "active"
  PROVE  TruthInv'
<1> USE DEF TruthInv
<1>1. /\ findings \in Seq(Status) /\ Len(findings) \in Nat
      /\ registry \in Seq(AssertionType) /\ Len(registry) \in Nat
      /\ Len(findings) < Len(registry)
  BY ConformanceAssumption DEF Shape, Scanning
<1>2. /\ findings' \in Seq(Status) /\ Len(findings') = Len(findings) + 1
      /\ \A i \in 1..Len(findings) : findings'[i] = findings[i]
      /\ findings'[Len(findings) + 1] = status
  BY <1>1
<1>3. UNCHANGED <<tree, archived, visible, registry, held, flags,
                  content_cache, metadata_cache, tree_cache>>
  BY DEF world, caches, history
<1>4. Shape'
  BY <1>1, <1>2, <1>3 DEF Shape
<1>5. CachesHeld'
  BY <1>3 DEF CachesHeld
<1>6. FindingsHeld'
  <2> SUFFICES ASSUME NEW i \in (1..Len(findings))'
      PROVE (/\ Passed(i) =>
                  \A r \in Targets(registry[i]) :
                    r \in visible /\ Held(registry[i], r)
             /\ findings[i] \in {"violation", "expired-waiver", "waived"} =>
                  \E r \in Targets(registry[i]) :
                    Broken(registry[i], r) \/ r \notin visible
             /\ findings[i] = "waived" => registry[i].waiver = "active")'
    BY DEF FindingsHeld
  <2>0. Targets(registry[i])' = Targets(registry[i])
    BY <1>3 DEF Targets
  <2>1. i \in 1..Len(registry)
    BY <1>1, <1>2
  <2>2. /\ registry[i] \in AssertionType
        /\ \A q \in Targets(registry[i]) : q \in Repos
    BY <2>1, AssertionFacts DEF Shape
  <2>3. \A q \in Targets(registry[i]) :
          /\ Held(registry[i], q) => Held(registry[i], q)'
          /\ Broken(registry[i], q) => Broken(registry[i], q)'
    BY <1>3, <2>2, HeldGrows
  <2>4. CASE i \in 1..Len(findings)
    BY <1>2, <1>3, <2>0, <2>3, <2>4 DEF FindingsHeld, Passed
  <2>5. CASE i = Len(findings) + 1
    BY <1>2, <1>3, <2>0, <2>3, <2>5 DEF Current, Passed
  <2> QED BY <1>1, <1>2, <2>4, <2>5
<1> QED BY <1>4, <1>5, <1>6

LEMMA RequestFailsKeeps == TruthInv /\ RequestFails => TruthInv'
BY AddFinding DEF RequestFails, Status

LEMMA ConcludeKeeps == TruthInv /\ Conclude => TruthInv'
<1> SUFFICES ASSUME TruthInv, Conclude
             PROVE  TruthInv'
  OBVIOUS
<1> DEFINE failed == \E r \in Targets(Current) : Fails(Current, r)
<1>1. /\ Scanning
      /\ \A r \in Targets(Current) : Needs(Current, r) = {}
      /\ findings' = Append(findings, Classify(Current, failed))
      /\ UNCHANGED <<world, registry, caches, history>>
  BY DEF Conclude, KeepProvider
<1>2. /\ Current \in AssertionType
      /\ \A r \in Targets(Current) : r \in Repos
  <2>1. Len(findings) + 1 \in 1..Len(registry)
    BY <1>1, ConformanceAssumption DEF TruthInv, Shape, Scanning
  <2> QED BY <2>1, AssertionFacts DEF TruthInv, Shape, Current
<1>3. \A r \in Targets(Current) :
        /\ ~Fails(Current, r) => r \in visible /\ Held(Current, r)
        /\ Fails(Current, r) => Broken(Current, r) \/ r \notin visible
  BY <1>1, <1>2, VerdictTrue DEF TruthInv
<1>4. Current.waiver \in {"none", "active", "expired"}
  BY <1>2 DEF AssertionType
<1>5. CASE failed
  <2>1. PICK r \in Targets(Current) : Broken(Current, r) \/ r \notin visible
    BY <1>3, <1>5
  <2>2. /\ Classify(Current, failed) \in {"violation", "expired-waiver", "waived"}
        /\ Classify(Current, failed) = "waived" => Current.waiver = "active"
    BY <1>4, <1>5 DEF Classify
  <2> HIDE DEF failed
  <2> QED BY <1>1, <2>1, <2>2, AddFinding DEF Status
<1>6. CASE ~failed
  <2>1. \A r \in Targets(Current) : r \in visible /\ Held(Current, r)
    BY <1>3, <1>6
  <2>2. Classify(Current, failed) \in {"pass", "pass-with-stale-waiver"}
    BY <1>6 DEF Classify
  <2> HIDE DEF failed
  <2> QED BY <1>1, <2>1, <2>2, AddFinding DEF Status
<1> QED BY <1>5, <1>6

LEMMA TruthInvariant == Spec => []TruthInv
<1>1. Init => TruthInv
  <2> SUFFICES ASSUME Init
               PROVE  TruthInv
    OBVIOUS
  <2>1. registry \in Seq(AssertionType)
    BY ConformanceAssumption DEF Init
  <2>2. /\ \A r \in Repos, f \in Files : held[r][f] = {tree[r][f]}
        /\ \A r \in Repos : flags[r] = {archived[r]}
        /\ held \in [Repos -> [Files -> SUBSET Content]]
    BY DEF Init
  <2>3. flags \in [Repos -> SUBSET BOOLEAN]
    BY DEF Init
  <2>5. Len(findings) = 0 /\ findings \in Seq(Status)
    BY DEF Init
  <2>6. Shape
    BY <2>1, <2>2, <2>3, <2>5 DEF Init, Shape
  <2>7. CachesHeld
    BY DEF Init, CachesHeld, Empty
  <2>8. FindingsHeld
    BY <2>5 DEF FindingsHeld
  <2> QED BY <2>6, <2>7, <2>8 DEF TruthInv
<1>2. TruthInv /\ [Next]_vars => TruthInv'
  <2> SUFFICES ASSUME TruthInv, [Next]_vars
               PROVE  TruthInv'
    OBVIOUS
  <2>1. CASE Developers
    BY <2>1, DevelopersKeep
  <2>2. ASSUME NEW r \in Repos, NEW f \in Files, FetchContent(r, f)
        PROVE  TruthInv'
    BY <2>2, FetchesKeep
  <2>3. ASSUME NEW r \in Repos, FetchMetadata(r) \/ FetchTree(r)
        PROVE  TruthInv'
    BY <2>3, FetchesKeep
  <2>4. CASE RequestFails
    BY <2>4, RequestFailsKeeps
  <2>5. CASE Conclude
    BY <2>5, ConcludeKeeps
  <2>6. CASE UNCHANGED vars
    <3>1. UNCHANGED <<tree, archived, visible, registry, findings, held, flags,
                      content_cache, metadata_cache, tree_cache>>
      BY <2>6 DEF vars, world, caches, history
    <3>2. Shape'
      BY <3>1 DEF TruthInv, Shape
    <3> QED
      BY <3>1, <3>2, CachesStayTrue, FindingsStayTrue DEF TruthInv
  <2> QED BY <2>1, <2>2, <2>3, <2>4, <2>5, <2>6 DEF Next, Scan
<1> QED BY <1>1, <1>2, PTL DEF Spec

\* No violation is reported of a target that met the assertion throughout,
\* whatever requests failed: evaluate_assertion's except branch ends in an
\* error finding.
THEOREM ViolationsAreReal == Spec => []RedMeansBroken
<1>1. TruthInv => RedMeansBroken
  BY DEF TruthInv, FindingsHeld, RedMeansBroken
<1> QED BY <1>1, TruthInvariant, PTL

\* A scan that ends without a failure vouches for what it was to check.
THEOREM GreenIsTrue == Spec => []GreenMeansHeld
<1>1. TruthInv => GreenMeansHeld
  <2> SUFFICES ASSUME TruthInv, ~Scanning, NEW strict \in BOOLEAN,
                      ~has_failure(strict), NEW i \in 1..Len(registry),
                      registry[i].severity = "error",
                      registry[i].waiver = "active" => strict
               PROVE  \A r \in Targets(registry[i]) :
                        r \in visible /\ Held(registry[i], r)
    BY DEF GreenMeansHeld
  <2>1. i \in 1..Len(findings)
    BY ConformanceAssumption DEF TruthInv, Shape, Scanning
  <2>2. findings[i] \in Status
    BY <2>1 DEF TruthInv, Shape
  <2>3. findings[i] \notin Failing(strict)
    BY <2>1 DEF has_failure, Severity
  <2>4. findings[i] # "waived"
    BY <2>1, <2>3 DEF Failing, TruthInv, FindingsHeld
  <2>5. Passed(i)
    BY <2>2, <2>3, <2>4 DEF Failing, Status, Passed
  <2> QED BY <2>1, <2>5 DEF TruthInv, FindingsHeld
<1> QED BY <1>1, TruthInvariant, PTL

(***************************************************************************)
(* One answer per scan: an entry is never put into a cache twice.          *)
(***************************************************************************)
\* What a pass leaves in the caches; of the workflows, only that there are some.
Known(a, r) ==
  /\ a.kind = "file_contains" =>
       <<r, a.path>> \in DOMAIN content_cache /\ content_cache[<<r, a.path>>] = "with"
  /\ a.kind = "file_not_contains" =>
       <<r, a.path>> \in DOMAIN content_cache /\ content_cache[<<r, a.path>>] = "without"
  /\ a.kind = "path_exists" => r \in DOMAIN tree_cache /\ a.path \in tree_cache[r]
  /\ a.kind = "path_absent" => r \in DOMAIN tree_cache /\ a.path \notin tree_cache[r]
  /\ a.kind = "repository_archived" =>
       r \in DOMAIN metadata_cache /\ metadata_cache[r] = a.expected
  /\ a.kind = "conditional_contains" =>
       /\ <<r, a.when_path>> \in DOMAIN content_cache
       /\ \/ content_cache[<<r, a.when_path>>] = "without"
          \/ /\ content_cache[<<r, a.when_path>>] = "with"
             /\ <<r, a.path>> \in DOMAIN content_cache
             /\ content_cache[<<r, a.path>>] = "with"
  /\ a.kind = "workflow_references_pinned" =>
       r \in DOMAIN tree_cache /\ tree_cache[r] \cap Workflows # {}

PassesKnown ==
  \A i \in 1..Len(findings) :
    Passed(i) => \A r \in Targets(registry[i]) : Known(registry[i], r)

CachesGrow ==
  /\ \A k \in DOMAIN content_cache :
       k \in DOMAIN content_cache' /\ content_cache'[k] = content_cache[k]
  /\ \A k \in DOMAIN metadata_cache :
       k \in DOMAIN metadata_cache' /\ metadata_cache'[k] = metadata_cache[k]
  /\ \A k \in DOMAIN tree_cache :
       k \in DOMAIN tree_cache' /\ tree_cache'[k] = tree_cache[k]

LEMMA WantedIsNew ==
  ASSUME NEW a \in AssertionType
  PROVE  /\ \A r, f : Blob(r, f) \in Wanted(a) => <<r, f>> \notin DOMAIN content_cache
         /\ \A r : Metadata(r) \in Wanted(a) => r \notin DOMAIN metadata_cache
         /\ \A r : Tree(r) \in Wanted(a) => r \notin DOMAIN tree_cache
<1>1. \A q, files : \A x \in Uncached(q, files) :
        \E f : x = Blob(q, f) /\ <<q, f>> \notin DOMAIN content_cache
  BY DEF Uncached
<1>2. \A q : \A x \in UncachedMetadata(q) :
        x = Metadata(q) /\ q \notin DOMAIN metadata_cache
  BY DEF UncachedMetadata
<1>3. \A q : \A x \in UncachedPaths(q) :
        \/ x = Metadata(q) /\ q \notin DOMAIN metadata_cache
        \/ x = Tree(q) /\ q \notin DOMAIN tree_cache
  BY DEF UncachedPaths
<1>4. \A q : \A x \in Needs(a, q) :
        \/ \E f : x = Blob(q, f) /\ <<q, f>> \notin DOMAIN content_cache
        \/ x = Metadata(q) /\ q \notin DOMAIN metadata_cache
        \/ x = Tree(q) /\ q \notin DOMAIN tree_cache
  <2> SUFFICES ASSUME NEW q, NEW x \in Needs(a, q)
      PROVE  \/ \E f : x = Blob(q, f) /\ <<q, f>> \notin DOMAIN content_cache
             \/ x = Metadata(q) /\ q \notin DOMAIN metadata_cache
             \/ x = Tree(q) /\ q \notin DOMAIN tree_cache
    OBVIOUS
  <2>1. \/ \E files : x \in Uncached(q, files)
        \/ x \in UncachedMetadata(q)
        \/ x \in UncachedPaths(q)
    BY DEF Needs, AssertionType, Kinds
  <2> QED BY <1>1, <1>2, <1>3, <2>1
<1>5. \A x \in Wanted(a) : \E q : x \in Needs(a, q)
  BY DEF Wanted
<1>6. /\ \A r, f, q, g : Blob(r, f) = Blob(q, g) => r = q /\ f = g
      /\ \A r, q : Metadata(r) = Metadata(q) => r = q
      /\ \A r, q : Tree(r) = Tree(q) => r = q
  BY DEF Blob, Metadata, Tree
<1>7. /\ \A r, f, q : Blob(r, f) # Metadata(q) /\ Blob(r, f) # Tree(q)
      /\ \A r, q : Metadata(r) # Tree(q)
  <2>1. /\ \A r, f : Blob(r, f).call = "content"
        /\ \A r : Metadata(r).call = "metadata" /\ Tree(r).call = "tree"
    BY DEF Blob, Metadata, Tree
  <2> QED BY <2>1
<1>8. ASSUME NEW r, NEW f, Blob(r, f) \in Wanted(a)
      PROVE  <<r, f>> \notin DOMAIN content_cache
  <2>1. PICK q : Blob(r, f) \in Needs(a, q)
    BY <1>5, <1>8
  <2>2. \E g : Blob(r, f) = Blob(q, g) /\ <<q, g>> \notin DOMAIN content_cache
    BY <1>4, <1>7, <2>1
  <2> QED BY <1>6, <2>2
<1>9. ASSUME NEW r, Metadata(r) \in Wanted(a)
      PROVE  r \notin DOMAIN metadata_cache
  <2>1. PICK q : Metadata(r) \in Needs(a, q)
    BY <1>5, <1>9
  <2>2. Metadata(r) = Metadata(q) /\ q \notin DOMAIN metadata_cache
    BY <1>4, <1>7, <2>1
  <2> QED BY <1>6, <2>2
<1>10. ASSUME NEW r, Tree(r) \in Wanted(a)
       PROVE  r \notin DOMAIN tree_cache
  <2>1. PICK q : Tree(r) \in Needs(a, q)
    BY <1>5, <1>10
  <2>2. Tree(r) = Tree(q) /\ q \notin DOMAIN tree_cache
    BY <1>4, <1>7, <2>1
  <2> QED BY <1>6, <2>2
<1> QED BY <1>8, <1>9, <1>10

\* What the content cache holds is an answer of content().
LEMMA ContentCached ==
  ASSUME Shape, CachesHeld, NEW r \in Repos, NEW f \in Files,
         <<r, f>> \in DOMAIN content_cache
  PROVE  content_cache[<<r, f>>] \in Content
BY DEF Shape, CachesHeld, Content

\* What is known stays known.
LEMMA KnownStays ==
  ASSUME NEW a \in AssertionType, NEW r, CachesGrow, Known(a, r)
  PROVE  Known(a, r)'
BY DEF CachesGrow, Known

LEMMA PassesStayKnown ==
  ASSUME Shape, PassesKnown, CachesGrow, UNCHANGED <<registry, findings>>
  PROVE  PassesKnown'
<1> SUFFICES ASSUME NEW i \in 1..Len(findings), Passed(i)
             PROVE  \A r \in Targets(registry[i]) : Known(registry[i], r)'
  BY DEF PassesKnown, Passed, Targets
<1>1. registry[i] \in AssertionType
  BY AssertionFacts, ConformanceAssumption DEF Shape
<1> QED BY <1>1, KnownStays DEF PassesKnown

LEMMA FetchesStayKnown ==
  ASSUME Shape, PassesKnown, NEW r \in Repos, NEW f,
         FetchContent(r, f) \/ FetchMetadata(r) \/ FetchTree(r)
  PROVE  PassesKnown'
<1>1. Scanning /\ UNCHANGED <<registry, findings>>
  BY DEF FetchContent, FetchMetadata, FetchTree
<1>2. Current \in AssertionType
  <2>1. Len(findings) + 1 \in 1..Len(registry)
    BY <1>1, ConformanceAssumption DEF Shape, Scanning
  <2> QED BY <2>1, AssertionFacts DEF Shape, Current
<1>3. CASE FetchContent(r, f)
  <2>1. /\ <<r, f>> \notin DOMAIN content_cache
        /\ content_cache' = Put(content_cache, <<r, f>>, ContentOf(r, f))
        /\ UNCHANGED <<metadata_cache, tree_cache>>
    BY <1>2, <1>3, WantedIsNew DEF FetchContent
  <2>2. CachesGrow
    BY <2>1 DEF CachesGrow, Put
  <2> QED BY <1>1, <2>2, PassesStayKnown
<1>4. CASE FetchMetadata(r)
  <2>1. /\ r \notin DOMAIN metadata_cache
        /\ metadata_cache' = Put(metadata_cache, r, archived[r])
        /\ UNCHANGED <<content_cache, tree_cache>>
    BY <1>2, <1>4, WantedIsNew DEF FetchMetadata
  <2>2. CachesGrow
    BY <2>1 DEF CachesGrow, Put
  <2> QED BY <1>1, <2>2, PassesStayKnown
<1>5. CASE FetchTree(r)
  <2> DEFINE present == {g \in Files : tree[r][g] # "absent"}
  <2>1. /\ r \notin DOMAIN tree_cache
        /\ tree_cache' = Put(tree_cache, r, present)
        /\ UNCHANGED <<content_cache, metadata_cache>>
    BY <1>2, <1>5, WantedIsNew DEF FetchTree
  <2> HIDE DEF present
  <2>2. CachesGrow
    BY <2>1 DEF CachesGrow, Put
  <2> QED BY <1>1, <2>2, PassesStayKnown
<1> QED BY <1>3, <1>4, <1>5

\* A target that needs no more lookups and does not fail leaves them known.
LEMMA LookupsKnown ==
  ASSUME Shape, CachesHeld, NEW a \in AssertionType, NEW r \in Repos,
         Needs(a, r) = {}, ~Fails(a, r)
  PROVE  Known(a, r)
<1>1. CASE a.kind \in {"file_contains", "file_not_contains"}
  <2>1. <<r, a.path>> \in DOMAIN content_cache
    BY <1>1, CachedFacts DEF Needs
  <2> QED BY <1>1, <2>1 DEF Fails, Known
<1>2. CASE a.kind \in {"path_exists", "path_absent"}
  BY <1>2 DEF Needs, Fails, Known, UncachedPaths
<1>3. CASE a.kind = "repository_archived"
  BY <1>3 DEF Needs, Fails, Known, UncachedMetadata
<1>4. CASE a.kind = "conditional_contains"
  <2>1. <<r, a.when_path>> \in DOMAIN content_cache
    <3>1. CASE <<r, a.when_path>> \notin DOMAIN content_cache
      <4>1. Uncached(r, {a.when_path}) = {}
        BY <1>4, <3>1 DEF Needs
      <4> QED BY <4>1, CachedFacts
    <3> QED BY <3>1
  <2>2. content_cache[<<r, a.when_path>>] \in Content
    BY <2>1, ContentCached DEF AssertionType
  <2>3. CASE content_cache[<<r, a.when_path>>] = "with"
    <3>1. Uncached(r, {a.path}) = {}
      BY <1>4, <2>1, <2>3 DEF Needs
    <3>2. <<r, a.path>> \in DOMAIN content_cache
      BY <3>1, CachedFacts
    <3> QED BY <1>4, <2>1, <2>3, <3>2 DEF Fails, Known
  <2> QED BY <1>4, <2>1, <2>2, <2>3 DEF Fails, Known, Content
<1>5. CASE a.kind = "workflow_references_pinned"
  BY <1>5 DEF Needs, Fails, Known, UncachedPaths
<1> QED BY <1>1, <1>2, <1>3, <1>4, <1>5 DEF AssertionType, Kinds

LEMMA FindingStaysKnown ==
  ASSUME TruthInv, PassesKnown, RequestFails \/ Conclude
  PROVE  PassesKnown'
<1>1. /\ Scanning
      /\ UNCHANGED <<registry, content_cache, metadata_cache, tree_cache>>
  BY DEF RequestFails, Conclude, KeepProvider, caches
<1>2. /\ findings \in Seq(Status) /\ Len(findings) \in Nat
      /\ registry \in Seq(AssertionType) /\ Len(registry) \in Nat
      /\ Len(findings) < Len(registry)
  BY <1>1, ConformanceAssumption DEF TruthInv, Shape, Scanning
<1>3. /\ Current \in AssertionType
      /\ \A r \in Targets(Current) : r \in Repos
  <2>1. Len(findings) + 1 \in 1..Len(registry)
    BY <1>2
  <2> QED BY <2>1, AssertionFacts DEF TruthInv, Shape, Current
<1>4. PICK status :
        /\ findings' = Append(findings, status)
        /\ status \in {"pass", "pass-with-stale-waiver"} =>
             \A r \in Targets(Current) : Known(Current, r)
  <2>1. CASE RequestFails
    BY <2>1 DEF RequestFails
  <2>2. CASE Conclude
    <3> DEFINE failed == \E r \in Targets(Current) : Fails(Current, r)
    <3>1. /\ \A r \in Targets(Current) : Needs(Current, r) = {}
          /\ findings' = Append(findings, Classify(Current, failed))
      BY <2>2 DEF Conclude
    <3>2. CASE failed
      <4>1. Classify(Current, failed) \notin {"pass", "pass-with-stale-waiver"}
        BY <1>3, <3>2 DEF Classify, AssertionType
      <4> QED BY <3>1, <4>1
    <3>3. CASE ~failed
      <4>1. ASSUME NEW r \in Targets(Current)
            PROVE  Known(Current, r)
        <5>1. Needs(Current, r) = {} /\ ~Fails(Current, r)
          BY <3>1, <3>3
        <5> QED BY <1>3, <5>1, LookupsKnown DEF TruthInv
      <4> QED BY <3>1, <4>1
    <3> QED BY <3>2, <3>3
  <2> QED BY <2>1, <2>2
<1>5. /\ Len(findings') = Len(findings) + 1
      /\ \A i \in 1..Len(findings) : findings'[i] = findings[i]
      /\ findings'[Len(findings) + 1] = status
  BY <1>2, <1>4
<1> SUFFICES ASSUME NEW i \in (1..Len(findings))'
    PROVE (Passed(i) => \A r \in Targets(registry[i]) : Known(registry[i], r))'
  BY DEF PassesKnown
<1>6. /\ Targets(registry[i])' = Targets(registry[i])
      /\ \A r : Known(registry[i], r)' = Known(registry[i], r)
  BY <1>1 DEF Targets, Known
<1>7. CASE i \in 1..Len(findings)
  BY <1>5, <1>6, <1>7 DEF PassesKnown, Passed
<1>8. CASE i = Len(findings) + 1
  BY <1>4, <1>5, <1>6, <1>8 DEF Passed, Current
<1> QED BY <1>2, <1>5, <1>7, <1>8

LEMMA PassesAreKnown == Spec => []PassesKnown
<1>1. Init => PassesKnown
  <2>1. Init => Len(findings) = 0
    BY DEF Init
  <2> QED BY <2>1 DEF PassesKnown
<1>2. TruthInv /\ PassesKnown /\ [Next]_vars => PassesKnown'
  <2> SUFFICES ASSUME TruthInv, PassesKnown, [Next]_vars
               PROVE  PassesKnown'
    OBVIOUS
  <2>1. Shape
    BY DEF TruthInv
  <2>2. CASE Developers \/ UNCHANGED vars
    <3>1. UNCHANGED <<registry, findings, content_cache, metadata_cache, tree_cache>>
      BY <2>2 DEF Developers, Push, Archive, caches, vars
    <3> QED BY <2>1, <3>1, PassesStayKnown DEF CachesGrow
  <2>3. ASSUME NEW r \in Repos, NEW f \in Files, FetchContent(r, f)
        PROVE  PassesKnown'
    BY <2>1, <2>3, FetchesStayKnown
  <2>4. ASSUME NEW r \in Repos, FetchMetadata(r) \/ FetchTree(r)
        PROVE  PassesKnown'
    BY <2>1, <2>4, FetchesStayKnown
  <2>5. CASE RequestFails \/ Conclude
    BY <2>5, FindingStaysKnown
  <2> QED BY <2>2, <2>3, <2>4, <2>5 DEF Next, Scan
<1> QED BY <1>1, <1>2, TruthInvariant, PTL DEF Spec

LEMMA PassFacts ==
  ASSUME TruthInv, NEW i \in 1..Len(findings)
  PROVE  /\ registry[i] \in AssertionType
         /\ PassesKnown /\ Passed(i) =>
              \A r \in Targets(registry[i]) : Known(registry[i], r)
<1>1. i \in 1..Len(registry) /\ registry \in Registries
  BY ConformanceAssumption DEF TruthInv, Shape
<1> QED BY <1>1, AssertionFacts DEF PassesKnown

\* The content cache is one state of r's files, all passes about contents agree
\* with it.
LEMMA ContentsAgree ==
  ASSUME TruthInv, PassesKnown, NEW r \in Repos
  PROVE  AgreeOn(OfContents, r)
<1> DEFINE files == [f \in Files |-> IF <<r, f>> \in DOMAIN content_cache
                                    THEN content_cache[<<r, f>>] ELSE "absent"]
           flag == IF r \in DOMAIN metadata_cache THEN metadata_cache[r] ELSE TRUE
<1>1. files \in [Files -> Content]
  BY ContentCached DEF TruthInv, Content
<1>2. flag \in BOOLEAN
  BY DEF TruthInv, Shape, CachesHeld
<1>3. ASSUME NEW i \in 1..Len(findings), Passed(i),
             registry[i].kind \in OfContents, r \in Targets(registry[i])
      PROVE  Meets(registry[i], files, flag)
  <2>1. Known(registry[i], r) /\ registry[i] \in AssertionType
    BY <1>3, PassFacts
  <2> QED BY <1>3, <2>1 DEF OfContents, AssertionType, Known, Meets
<1> HIDE DEF files, flag
<1> QED BY <1>1, <1>2, <1>3 DEF AgreeOn

\* The cached tree is one list of paths, all passes about paths agree with it.
LEMMA PathsAgree ==
  ASSUME TruthInv, PassesKnown, NEW r \in Repos
  PROVE  AgreeOn(OfPaths, r)
<1> DEFINE files == [f \in Files |-> IF r \in DOMAIN tree_cache /\ f \in tree_cache[r]
                                    THEN "with" ELSE "absent"]
           flag == IF r \in DOMAIN metadata_cache THEN metadata_cache[r] ELSE TRUE
<1>1. files \in [Files -> Content]
  BY DEF Content
<1>2. flag \in BOOLEAN
  BY DEF TruthInv, Shape, CachesHeld
<1>3. ASSUME NEW i \in 1..Len(findings), Passed(i),
             registry[i].kind \in OfPaths, r \in Targets(registry[i])
      PROVE  Meets(registry[i], files, flag)
  <2>1. Known(registry[i], r) /\ registry[i] \in AssertionType
    BY <1>3, PassFacts
  <2>2. CASE registry[i].kind = "workflow_references_pinned"
    <3>1. /\ Workflows \subseteq Files
          /\ r \in DOMAIN tree_cache
          /\ \E f \in Workflows : f \in tree_cache[r]
      BY <2>1, <2>2, ConformanceAssumption DEF Known
    <3> QED BY <2>2, <3>1 DEF Meets
  <2> QED BY <1>3, <2>1, <2>2 DEF OfPaths, AssertionType, Known, Meets
<1> HIDE DEF files, flag
<1> QED BY <1>1, <1>2, <1>3 DEF AgreeOn

\* A repository nobody changes is what everything says of it.
LEMMA UntouchedAgrees ==
  ASSUME TruthInv, NEW r \in Repos, Untouched(r)
  PROVE  AgreeOn(Kinds, r)
<1>1. tree[r] \in [Files -> Content] /\ archived[r] \in BOOLEAN
  BY DEF TruthInv, Shape
<1>2. ASSUME NEW i \in 1..Len(findings), Passed(i), r \in Targets(registry[i])
      PROVE  Meets(registry[i], tree[r], archived[r])
  <2>1. /\ Held(registry[i], r)
        /\ registry[i] \in AssertionType
    BY <1>2, PassFacts DEF TruthInv, FindingsHeld
  <2>2. /\ Workflows \subseteq Files
        /\ \A f \in Files : held[r][f] = {tree[r][f]}
        /\ flags[r] = {archived[r]}
    BY ConformanceAssumption DEF Untouched
  <2>3. CASE registry[i].kind = "workflow_references_pinned"
    <3>1. /\ \E f \in Workflows : held[r][f] # {"absent"}
          /\ \A f \in Workflows : held[r][f] # {"without"}
      BY <2>1, <2>3 DEF Held
    <3> QED BY <2>2, <2>3, <3>1 DEF Meets
  <2>4. CASE registry[i].kind = "conditional_contains"
    BY <2>1, <2>2, <2>4 DEF AssertionType, Held, Meets
  <2>5. CASE registry[i].kind = "repository_archived"
    BY <2>1, <2>2, <2>5 DEF Held, Meets
  <2>6. CASE registry[i].kind \in {"file_contains", "file_not_contains",
                                  "path_exists", "path_absent"}
    <3>1. held[r][registry[i].path] = {tree[r][registry[i].path]}
      BY <2>1, <2>2 DEF AssertionType
    <3> QED BY <2>1, <2>6, <3>1 DEF Held, Meets
  <2> QED BY <2>1, <2>3, <2>4, <2>5, <2>6 DEF AssertionType, Kinds
<1> QED BY <1>1, <1>2 DEF AgreeOn

\* What r has passed about contents is true of one state of r, and what it has
\* passed about paths of one: GhProvider's caches give each question one answer,
\* whatever is pushed in between.  The two may differ only if r was changed.
THEOREM OneAnswerPerScan == Spec => []OneAnswer
<1>1. TruthInv /\ PassesKnown => OneAnswer
  BY ContentsAgree, PathsAgree, UntouchedAgrees DEF OneAnswer
<1> QED BY <1>1, TruthInvariant, PassesAreKnown, PTL

=============================================================================
