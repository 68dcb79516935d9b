----------------------------- MODULE ChangePages -----------------------------
(* workspace.changes: the changed paths of a Workspace, in key order, one   *)
(* page at a time.  Git lists tracked and untracked changes in two passes   *)
(* while files may go on changing, the collector keeps a bounded heap of    *)
(* candidates, a second listing verifies the first, and the cursor carries  *)
(* the digest of the change set.  A key is a path with its kind, its digest *)
(* the key itself; the set of keys seen stands for the set's digest.        *)
EXTENDS Naturals, Sequences, FiniteSets

CONSTANTS
    Keys,         \* order keys, naturals
    Untracked,    \* the keys that git ls-files reports
    EntrySizes,   \* encoded sizes of an entry
    Limits,       \* page limits a client asks for
    ByteLimits    \* maxBytes a client asks for

ASSUME PageAssumption ==
    /\ IsFiniteSet(Keys) /\ Keys \subseteq Nat /\ Untracked \subseteq Keys
    /\ EntrySizes \subseteq Nat /\ Limits \subseteq Nat /\ ByteLimits \subseteq Nat

VARIABLES
    changed,      \* the keys that really differ now
    entrySize,    \* encoded size of each key's entry, the same for good
    cursor,       \* what the client holds: <<>> or <<[set, after]>>
    delivered,    \* entries of the pages since the listing began
    call          \* the call in flight, or the last one with its outcome

pageVars == <<changed, entrySize, cursor, delivered, call>>

Increasing(s) == \A i, j \in DOMAIN s : i < j => s[i] < s[j]
SortedKeys(S) == CHOOSE s \in [1 .. Cardinality(S) -> S] : Increasing(s)
GitOrder == SortedKeys(Keys \ Untracked) \o SortedKeys(Untracked)

\* ChangePageCollector::new.
NewCollector(limit, maxBytes) ==
    [state |-> "scan", left |-> GitOrder, limit |-> limit, maxBytes |-> maxBytes,
     candidates |-> {}, oversized |-> {}, eligible |-> 0, seen |-> {}, page |-> <<>>]

NoCall == [state |-> "none"]

\* The encoded bytes of a set of entries, counted one by one.
PageBytes(S) == Cardinality(UNION {{k} \X (1 .. entrySize[k]) : k \in S})

AfterCursor(k) == cursor = <<>> \/ k > cursor[1].after

\* The heap gives up its largest keys until the rest are within the count
\* and the memory budget.
Within(S, limit, maxBytes) ==
    Cardinality(S) <= limit + 1 /\ (PageBytes(S) <= 2 * maxBytes \/ Cardinality(S) = 1)
Trimmed(S, limit, maxBytes) ==
    {k \in S : Within({i \in S : i <= k}, limit, maxBytes)}

\* ChangePageCollector::observe.
Observe(c, k) ==
    LET counted == [c EXCEPT !.seen = @ \cup {k}]
        eligible == [counted EXCEPT !.eligible = @ + 1]
    IN  IF ~AfterCursor(k) THEN counted
        ELSE IF entrySize[k] > c.maxBytes THEN [eligible EXCEPT !.oversized = @ \cup {k}]
        ELSE [eligible EXCEPT !.candidates = Trimmed(@ \cup {k}, c.limit, c.maxBytes)]

\* Taking candidates in order, up to the first that is past an oversized
\* entry or over a limit: each but the first costs a separator too.
Fits(c, k) ==
    LET earlier == {i \in c.candidates : i < k} IN
    /\ \A o \in c.oversized : k < o
    /\ Cardinality(earlier) < c.limit
    /\ PageBytes(earlier) + Cardinality(earlier) + entrySize[k] <= c.maxBytes
Taken(c) == {k \in c.candidates : \A i \in c.candidates : i <= k => Fits(c, i)}
Take(c) == SortedKeys(Taken(c))

PageInit ==
    /\ changed = {} /\ entrySize \in [Keys -> EntrySizes]
    /\ cursor = <<>> /\ delivered = <<>> /\ call = NoCall

\* A first page starts a listing; another one goes on from the cursor.
WorkspaceChangesPage(limit, maxBytes) ==
    /\ call.state \notin {"scan", "verify"}
    /\ call' = NewCollector(limit, maxBytes)
    /\ delivered' = IF cursor = <<>> THEN <<>> ELSE delivered
    /\ UNCHANGED <<changed, entrySize, cursor>>

\* One path of git diff, then of git ls-files.
Scan ==
    /\ call.state = "scan" /\ call.left # <<>>
    /\ LET rest == [call EXCEPT !.left = Tail(@)] IN
       call' = IF Head(call.left) \in changed THEN Observe(rest, Head(call.left)) ELSE rest
    /\ UNCHANGED <<changed, entrySize, cursor, delivered>>

RefusePage(why) == [call EXCEPT !.state = why, !.page = <<>>]

FinishPageUnguarded ==
    /\ call.state = "scan" /\ call.left = <<>>
    /\ LET page == Take(call) IN
       call' = IF page = <<>> /\ call.eligible > 0 THEN RefusePage("limit_exceeded")
               ELSE [call EXCEPT !.state = "verify", !.page = page, !.left = GitOrder,
                                 !.candidates = {}]
    /\ UNCHANGED <<changed, entrySize, cursor, delivered>>

\* ChangePageCollector::finish.
FinishPage ==
    /\ call.state = "scan" /\ call.left = <<>>
    /\ LET page == Take(call) IN
       call' = IF cursor # <<>> /\ (cursor[1].set # call.seen \/ cursor[1].after \notin call.seen)
               THEN RefusePage("state_mismatch")
               ELSE IF page = <<>> /\ call.eligible > 0 THEN RefusePage("limit_exceeded")
               ELSE [call EXCEPT !.state = "verify", !.page = page, !.left = GitOrder,
                                 !.candidates = {}]
    /\ UNCHANGED <<changed, entrySize, cursor, delivered>>

\* The verifying scan; candidates are reused for the keys it sees.
Rescan ==
    /\ call.state = "verify" /\ call.left # <<>>
    /\ call' = [call EXCEPT !.left = Tail(@),
                            !.candidates = @ \cup ({Head(call.left)} \cap changed)]
    /\ UNCHANGED <<changed, entrySize, cursor, delivered>>

\* The page is answered when the second listing agrees with the first.
AnswerPage ==
    /\ call.state = "verify" /\ call.left = <<>>
    /\ \/ /\ call.candidates # call.seen
          /\ call' = RefusePage("mutation_incomplete")
          /\ UNCHANGED <<cursor, delivered>>
       \/ /\ call.candidates = call.seen
          /\ call' = [call EXCEPT !.state = "answered"]
          /\ delivered' = delivered \o call.page
          /\ cursor' = IF call.eligible = Len(call.page) THEN <<>>
                       ELSE <<[set |-> call.seen, after |-> call.page[Len(call.page)]]>>
    /\ UNCHANGED <<changed, entrySize>>

\* The client starts over, perhaps in another Workspace.
Restart ==
    /\ call.state \notin {"scan", "verify", "none"}
    /\ cursor' = <<>> /\ delivered' = <<>> /\ call' = NoCall
    /\ UNCHANGED <<changed, entrySize>>

\* A file becomes changed or unchanged, at any moment.
Toggle(k) ==
    /\ changed' = (changed \ {k}) \cup ({k} \ changed)
    /\ UNCHANGED <<entrySize, cursor, delivered, call>>

PageNext ==
    \/ \E l \in Limits, b \in ByteLimits : WorkspaceChangesPage(l, b)
    \/ Scan \/ FinishPage \/ Rescan \/ AnswerPage \/ Restart
    \/ \E k \in Keys : Toggle(k)

PageSpec == PageInit /\ [][PageNext]_pageVars

-----------------------------------------------------------------------------
\* A cursor names a key of the change set it carries the digest of.
PageTypeOK ==
    /\ changed \subseteq Keys /\ entrySize \in [Keys -> EntrySizes]
    /\ cursor # <<>> => cursor[1].set \subseteq Keys /\ cursor[1].after \in cursor[1].set

\* Pages that end without a cursor are, put together, one change set in
\* order: nothing is skipped or repeated at a page boundary, although files
\* changed between the pages and every page had its own limits.
PagesAreTheSet ==
    call.state = "answered" /\ cursor = <<>> => delivered = SortedKeys(call.seen)
=============================================================================
