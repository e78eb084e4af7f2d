------------------------------ MODULE FileStore ------------------------------
(***************************************************************************)
(* FileStore of ai_company/conflict.py for one filename (filenames are     *)
(* independent of each other): optimistic concurrency control over a       *)
(* versioned text, with an automatic merge of stale commits.  A client     *)
(* checks a version out, edits its copy, and commits it against that       *)
(* version; the store takes it, merges it, or raises WriteConflict, after  *)
(* which the client has to check out again.                                *)
(***************************************************************************)
EXTENDS ThreeWayMerge, FiniteSets

CONSTANTS Clients,
          Drafts,        \* the texts a client may commit
          Initial,       \* the texts the file may be loaded with
          MaxVersion,    \* bound: no commit past this version
          None           \* a client that holds no version

Lines == (UNION {ToSet(x.lines) : x \in Drafts \union Initial}) \ {Blank}

ASSUME BoundAssumption == MaxVersion \in Nat \ {0}
ASSUME NoneAssumption == None \notin Nat
ASSUME DraftsAssumption == Drafts \union Initial \subseteq Texts(Lines \union {Blank})

VARIABLES version,    \* VersionedFile.version, 0 while there is no such file
          content,    \* VersionedFile.content
          history,    \* FileStore.history, version -> content
          held,       \* the version a client checked out, None for none
          refused,    \* clients whose last commit raised WriteConflict
          net         \* not in the code: per line, the sum of what every
                      \* accepted commit changed in its number of occurrences

vars == <<version, content, history, held, refused, net>>

TypeOK ==
  /\ version \in 0..MaxVersion
  /\ content \in Texts(Lines \union {Blank})
  /\ history \in [1..version -> Texts(Lines \union {Blank})]
  /\ held \in [Clients -> 0..MaxVersion \union {None}]
  /\ refused \subseteq Clients
  /\ net \in [Lines -> Int]

\* Either the loader committed the file, or an agent will create it.
Init ==
  /\ \/ /\ version = 0
        /\ content = EmptyText
     \/ /\ version = 1
        /\ content \in Initial
  /\ history = [v \in 1..version |-> content]
  /\ held = [c \in Clients |-> None]
  /\ refused = {}
  /\ net = [x \in Lines |-> Count(content.lines, x)]

Checkout(c) ==
  /\ held' = [held EXCEPT ![c] = version]
  /\ refused' = refused \ {c}
  /\ UNCHANGED <<version, content, history, net>>

\* The version of history the commit is based on, "" where there is none.
BaseOf(v) == IF v \in 1..version THEN history[v] ELSE EmptyText

\* Bug: the history keeps the text that was replaced.
StoreReplaced(new) ==
  /\ version < MaxVersion
  /\ version' = version + 1
  /\ content' = new
  /\ history' = [v \in 1..(version + 1) |-> IF v = version + 1 THEN content ELSE history[v]]

\* The content becomes `new' and gets the next version number.
Store(new) ==
  /\ version < MaxVersion
  /\ version' = version + 1
  /\ content' = new
  /\ history' = [v \in 1..(version + 1) |-> IF v = version + 1 THEN new ELSE history[v]]

\* What the commit of `draft' by c contributes.
Record(c, draft) ==
  net' = [x \in Lines |->
            net[x] + Count(draft.lines, x) - Count(BaseOf(held[c]).lines, x)]

\* Bug: the last writer wins.
CommitBlind(c, draft) ==
  /\ held[c] # None
  /\ Store(draft)
  /\ Record(c, draft)
  /\ held' = [held EXCEPT ![c] = None]
  /\ UNCHANGED refused

\* commit(): the file is new, or nobody committed since the checkout.
CommitClean(c, draft) ==
  /\ held[c] # None
  /\ version = 0 \/ version = held[c]
  /\ Store(draft)
  /\ Record(c, draft)
  /\ held' = [held EXCEPT ![c] = None]
  /\ UNCHANGED refused

\* commit(): somebody did, and the edits are disjoint.
CommitMerge(c, draft) ==
  /\ held[c] # None
  /\ version # 0 /\ version # held[c]
  /\ CanMerge(BaseOf(held[c]), content, draft)
  /\ Store(Merge(BaseOf(held[c]), content, draft))
  /\ Record(c, draft)
  /\ held' = [held EXCEPT ![c] = None]
  /\ UNCHANGED refused

\* Bug: every stale commit is refused, no merge is tried.
CommitRefusedStale(c, draft) ==
  /\ held[c] # None
  /\ version # 0 /\ version # held[c]
  /\ held' = [held EXCEPT ![c] = None]
  /\ refused' = refused \union {c}
  /\ UNCHANGED <<version, content, history, net>>

\* commit(): WriteConflict.
CommitRefused(c, draft) ==
  /\ held[c] # None
  /\ version # 0 /\ version # held[c]
  /\ ~ CanMerge(BaseOf(held[c]), content, draft)
  /\ held' = [held EXCEPT ![c] = None]
  /\ refused' = refused \union {c}
  /\ UNCHANGED <<version, content, history, net>>

Next ==
  \E c \in Clients :
    \/ Checkout(c)
    \/ \E draft \in Drafts :
         CommitClean(c, draft) \/ CommitMerge(c, draft) \/ CommitRefused(c, draft)

Spec == Init /\ [][Next]_vars

------------------------------------------------------------------------------
\* No accepted edit is ever lost or applied twice, however stale the checkout
\* it was made on: the file holds each line that is not blank as often as all
\* accepted commits together say.
NoLostEdit == \A x \in Lines : Count(content.lines, x) = net[x]

\* What merges rely on: versions grow by one, every version that was ever
\* current stays in the history as it was, and the newest is the content.
HistoryFaithful ==
  [][/\ version' \in {version, version + 1}
     /\ \A v \in 1..version : history'[v] = history[v]
     /\ content' # content => version' = version + 1
     /\ version' > 0 => history'[version'] = content']_vars

\* A commit is refused only if two edits really met: the file moved on since
\* the checkout, and both sides changed lines of the common version.
RefusalJustified ==
  [][\A c \in Clients : \A draft \in Drafts :
       CommitRefused(c, draft) =>
         /\ held[c] < version
         /\ content.lines # BaseOf(held[c]).lines
         /\ draft.lines # BaseOf(held[c]).lines]_vars
==============================================================================
