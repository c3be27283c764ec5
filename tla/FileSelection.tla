----------------------------- MODULE FileSelection -----------------------------
(***************************************************************************)
(* Which files a watch session of the first engine indexes: the rules of   *)
(* .gitignore and .grepaiignore files (indexer/gitignore.go), the scan     *)
(* that walks the tree (indexer/scanner.go) and the watcher that follows   *)
(* directories as they come (watcher/watcher.go).  Files are supported     *)
(* source files; a debounced event is handled as one.                      *)
(***************************************************************************)
EXTENDS Integers, Sequences, FiniteSets

CONSTANTS
    Dir, File, Root,
    Above,      \* the directories that contain a node, up to the root
    Hidden,     \* nodes whose events the watcher passes over: names with a dot,
                \* and directories named like source files
    RuleFiles,  \* the .gitignore and .grepaiignore files looked at
    Unindexed,
    MaxTreeChanges  \* bound of the model

Node == Dir \union File
\* A pattern is the set of nodes whose path from its file's directory it matches:
\* one name, or with a wildcard many, that directory itself (".") among them.
Rule == [hits : SUBSET Node, negated : BOOLEAN, dirOnly : BOOLEAN]

\* The nodes are those of a tree, and every directory has lists of rules.
ASSUME SelectionAssumption ==
    /\ Root \in Dir /\ Dir \intersect File = {}
    /\ Above \in [Node -> SUBSET Dir] /\ Above[Root] = {}
    /\ \A n \in Node : /\ IsFiniteSet(Above[n]) /\ n \notin Above[n]
                       /\ n # Root => Root \in Above[n]
                       /\ \A a \in Above[n] : Above[a] \subseteq Above[n]
                       /\ \A a, b \in Above[n] : a = b \/ a \in Above[b] \/ b \in Above[a]
    /\ \A r \in RuleFiles : r.extra \subseteq Dir \ {Root} /\ \A d \in Dir :
          r.git[d] \in Seq(Rule) /\ r.grepai[d] \in Seq(Rule)

VARIABLES
    rules,     \* the rules of each directory, git and grepai, and the directories the
               \* configuration ignores, extra; loaded at the start
    exists,    \* the nodes on disk
    content,   \* 0 or 1 for each file
    watching,  \* directories with a watch
    events,    \* what the file system has reported
    index,     \* the content each file is indexed with
    early,     \* history: files that came, or changed unreported, with a directory
               \* whose creation the watcher had not handled
    changes

fileVars == <<rules, exists, content, watching, events, index, early, changes>>

ParentOf(n) == CHOOSE d \in Above[n] : \A a \in Above[n] : a = d \/ a \in Above[d]
Level(d) == Cardinality(Above[d])

----------------------------------------------------------------------------
(* Rules.  A rule of directory a says something of the nodes it hits and   *)
(* of what is below them; a directory rule ("name/") does not match the    *)
(* name without a slash; the last one that matches decides, and a negated  *)
(* one only takes back.                                                    *)

RuleHits(a, r, n, slash) ==
    \/ \E t \in r.hits : t \in Above[n] /\ a \in Above[t]
    \/ n \in r.hits /\ (slash \/ ~ r.dirOnly)

Matches(a, list, n, slash) ==
    \E k \in 1..Len(list) :
        /\ RuleHits(a, list[k], n, slash) /\ ~ list[k].negated
        /\ \A j \in k + 1..Len(list) : ~ RuleHits(a, list[j], n, slash)

\* The rule files below a configured directory are not read.
Loaded(d) == (Above[d] \union {d}) \intersect rules.extra = {}
Scopes(n) == {d \in Above[n] \union ({n} \intersect Dir) : Loaded(d)}
Deepest(S) == CHOOSE d \in S : \A a \in S : Level(a) <= Level(d)

\* evalGitIgnoreWithLevel: the levels of the directories whose rules ignore n.
GitLevels(n) ==
    {Level(d) : d \in {a \in Scopes(n) : Matches(a, rules.git[a], n, FALSE)
                                          \/ Matches(a, rules.git[a], n, TRUE)}}
    \union {0 : x \in rules.extra \intersect (Above[n] \union {n})}

\* evalGrepaiIgnore: the deepest file with any pattern for n has the opinion.
Speaking(n) ==
    {d \in Scopes(n) : \E k \in 1..Len(rules.grepai[d]) : RuleHits(d, rules.grepai[d][k], n, TRUE)}

\* A match without the slash that the slash takes back is none, so the slash decides.
SaysIgnore(d, n) == Matches(d, rules.grepai[d], n, TRUE)

ShouldIgnore(n) ==
    IF Speaking(n) # {}
    THEN LET d == Deepest(Speaking(n))
         IN  SaysIgnore(d, n) \/ \E l \in GitLevels(n) : l > Level(d)
    ELSE GitLevels(n) # {}

HasNegations ==
    \E d \in Dir : Loaded(d) /\ \E k \in 1..Len(rules.grepai[d]) : rules.grepai[d][k].negated

SkipIgnored(n) == ShouldIgnore(n)     \* a mutant: what is ignored is not entered

ShouldSkipDir(n) ==
    /\ ShouldIgnore(n)
    /\ IF Speaking(n) # {} THEN SaysIgnore(Deepest(Speaking(n)), n) ELSE ~ HasNegations

\* A walk that starts at a directory comes to n.
Reached(from, n) ==
    \A d \in Above[n] \union ({n} \intersect Dir) :
        (d = from \/ from \in Above[d]) => ~ ShouldSkipDir(d)

\* ScanMetadata
Selected(f) == Reached(Root, f) /\ ~ ShouldIgnore(f)

\* addRecursive: an ignored directory that is entered is not watched itself.
AddRecursive(d) ==
    {e \in Dir \intersect exists : (e = d \/ d \in Above[e]) /\ Reached(d, e) /\ ~ ShouldIgnore(e)}

----------------------------------------------------------------------------
FileInit ==
    /\ rules \in RuleFiles
    /\ exists \in {{Root}, Node}
    /\ content = [f \in File |-> 0]
    /\ watching = AddRecursive(Root)
    /\ events = <<>>
    /\ index = [f \in File |-> IF f \in exists /\ Selected(f) THEN 0 ELSE Unindexed]
    /\ early = {}
    /\ changes = 0

Reports(n) == ParentOf(n) \in watching

Report(kind, n) ==
    IF Reports(n) THEN events' = Append(events, [kind |-> kind, node |-> n]) ELSE UNCHANGED events

Change == changes < MaxTreeChanges /\ changes' = changes + 1

\* A directory above n has come and the watcher is still to hear of it.
Awaited(n) == \E i \in 1..Len(events) : events[i].node \in Above[n]

Noted(f) == early' = IF ~ Reports(f) /\ Awaited(f) THEN early \union {f} ELSE early \ {f}

Write(f) ==
    /\ Change
    /\ ParentOf(f) \in exists
    /\ exists' = exists \union {f}
    /\ content' = [content EXCEPT ![f] = 1 - @]
    /\ Report(IF f \in exists THEN "modify" ELSE "create", f)
    /\ Noted(f)
    /\ UNCHANGED <<rules, watching, index>>

Remove(f) ==
    /\ Change
    /\ f \in exists \intersect File
    /\ exists' = exists \ {f}
    /\ Report("delete", f)
    /\ Noted(f)
    /\ UNCHANGED <<rules, content, watching, index>>

\* A directory appears, alone or moved here with what is in it.
Appear(d, inside) ==
    /\ Change
    /\ d \notin exists
    /\ ParentOf(d) \in exists
    /\ \A n \in inside : ParentOf(n) \in inside \union {d}
    /\ exists' = exists \union {d} \union inside
    /\ Report("create", d)
    /\ early' = early \union (inside \intersect File)
    /\ UNCHANGED <<rules, content, watching, index>>

\* handleEvent, and what the session does with a file.
Handle ==
    /\ events # <<>>
    /\ events' = Tail(events)
    /\ LET e == Head(events)
           n == e.node
       IN  IF n \in Hidden \/ ShouldIgnore(n)
           THEN UNCHANGED <<watching, index>>
           ELSE \/ /\ n \in Dir
                   /\ watching' = IF n \in exists THEN watching \union AddRecursive(n) ELSE watching
                   /\ UNCHANGED index
                \/ /\ n \in File
                   /\ index' = CASE e.kind = "delete" -> [index EXCEPT ![n] = Unindexed]
                                 [] n \in exists -> [index EXCEPT ![n] = content[n]]
                                 [] OTHER -> index
                   /\ UNCHANGED watching
    /\ UNCHANGED <<rules, exists, content, early, changes>>

Inside(d) == {n \in Node : d \in Above[n]}

FileNext ==
    \/ \E f \in File : Write(f)
    \/ \E f \in File : Remove(f)
    \/ \E d \in Dir : \E inside \in SUBSET Inside(d) : Appear(d, inside)
    \/ Handle

FileSpec == FileInit /\ [][FileNext]_fileVars

----------------------------------------------------------------------------
Visible(n) == (Above[n] \union {n}) \intersect Hidden = {}

\* A directory that a .grepaiignore itself says to ignore.
KeptOut(d) == Speaking(d) # {} /\ SaysIgnore(Deepest(Speaking(d)), d)

\* A file that a .grepaiignore takes back is found by the scan, whatever .gitignore
\* files and the configuration say of the directories above it; only below one that a
\* .grepaiignore itself ignores the scan never comes to it.
\* (indexer/gitignore.go:180-206)
NegationsAreReached ==
    \A f \in File :
        Speaking(f) # {} /\ ~ ShouldIgnore(f) => (Selected(f) <=> \A d \in Above[f] : ~ KeptOut(d))

\* A directory in sight that neither is ignored nor lies below an ignored one.
Wanted(d) == Visible(d) /\ Reached(Root, d) /\ \A a \in Above[d] \union {d} : ~ ShouldIgnore(a)

\* Once all events are handled, each such directory is watched, and a file in it is
\* indexed as it is, or not at all if the rules exclude it, unless its last change
\* came before the watch on its directory; and nothing is ever indexed that the scan
\* would not find.  (watcher/watcher.go:82-187, indexer/scanner.go:126-303)
SelectionIsFollowed ==
    /\ events = <<>> =>
          /\ \A d \in Dir \intersect exists : Wanted(d) => d \in watching
          /\ \A f \in File \ early :
                 Visible(f) /\ Wanted(ParentOf(f)) =>
                    index[f] = IF f \in exists /\ Selected(f) THEN content[f] ELSE Unindexed
    /\ \A f \in File : index[f] # Unindexed => Selected(f)

\* Scan and watch follow the ignore rules
\* (indexer/gitignore.go, indexer/scanner.go, watcher/watcher.go).
RulesAreFollowed == NegationsAreReached /\ SelectionIsFollowed
================================================================================
