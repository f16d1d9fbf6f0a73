---------------------------- MODULE ProviderPages ----------------------------
(***************************************************************************)
(* listAllProviders (src/client.ts): the walk over the pages of the        *)
(* platform's providers, one request after the other, while providers are  *)
(* registered and removed behind its back.                                 *)
(***************************************************************************)
EXTENDS Integers, Sequences, FiniteSets, SequencesExt

CONSTANTS
    Provider,    \* what may be registered
    PageSizes,   \* the page_size a caller may ask for
    ServerMax,   \* the largest page the platform makes
    MaxChanges   \* bound on the changes of the registry during a walk

ASSUME PagesAssumption ==
    /\ IsFiniteSet(Provider)
    /\ PageSizes \subseteq Nat \ {0} /\ PageSizes # {}
    /\ ServerMax \in Nat \ {0}
    /\ MaxChanges \in Nat

VARIABLES
    providers,  \* the platform's registry, in the order it lists it
    paginates,  \* it answers in pages; older ones answer with everything at once
    walk,       \* where the call is
    pageSize,   \* the page_size it asks for
    page,       \* the page it is at
    all,        \* what it has collected
    answer,     \* the answer on the way: a page, and total_pages
    atStart,    \* observed: the registry when the call began
    inserted,   \* observed: registrations since then
    removed     \* observed: the providers removed since then

walkVars == <<providers, paginates, walk, pageSize, page, all, answer, atStart,
              inserted, removed>>

NoAnswer == [page |-> <<>>, total |-> 0]

WalkTypeOK ==
    /\ providers \in Seq(Provider) /\ paginates \in BOOLEAN
    /\ walk \in {"idle", "asked", "answered", "returned", "threw"}
    /\ pageSize \in PageSizes /\ page \in Nat \ {0}
    /\ all \in Seq(Provider)
    /\ answer \in [page : Seq(Provider), total : Nat]
    /\ atStart \in Seq(Provider) /\ inserted \in Nat /\ removed \subseteq Provider

-----------------------------------------------------------------------------
(* The platform. *)

PageOf(s, n, size) ==
    SubSeq(s, (n - 1) * size + 1, IF n * size < Len(s) THEN n * size ELSE Len(s))
PagesOf(s, size) == (Len(s) + size - 1) \div size

Served == IF pageSize < ServerMax THEN pageSize ELSE ServerMax

\* The page and the number of pages as they are when the platform answers.  What comes
\* without pagination is one page (listProvidersPaged).
Answer ==
    /\ walk = "asked" /\ walk' = "answered"
    /\ answer' = IF paginates
                 THEN [page |-> PageOf(providers, page, Served),
                       total |-> PagesOf(providers, Served)]
                 ELSE [page |-> providers, total |-> 1]
    /\ UNCHANGED <<providers, paginates, pageSize, page, all, atStart, inserted, removed>>

Walking == walk \in {"asked", "answered"}

Register(p, i) ==
    /\ Walking /\ inserted + Cardinality(removed) < MaxChanges
    /\ p \notin ToSet(providers) \cup ToSet(atStart)
    /\ providers' = InsertAt(providers, i, p)
    /\ inserted' = inserted + 1
    /\ UNCHANGED <<paginates, walk, pageSize, page, all, answer, atStart, removed>>

Unregister(i) ==
    /\ Walking /\ inserted + Cardinality(removed) < MaxChanges
    /\ providers' = RemoveAt(providers, i)
    /\ removed' = removed \cup {providers[i]}
    /\ UNCHANGED <<paginates, walk, pageSize, page, all, answer, atStart, inserted>>

-----------------------------------------------------------------------------
(* The client. *)

listAllProviders(size) ==
    /\ walk = "idle" /\ walk' = "asked"
    /\ pageSize' = size /\ page' = 1 /\ all' = <<>> /\ answer' = NoAnswer
    /\ atStart' = providers /\ inserted' = 0 /\ removed' = {}
    /\ UNCHANGED <<providers, paginates>>

\* The end of the walk: the last page by the latest count, or an empty one.
IsLastButOne == answer.total <= page + 1 \/ answer.page = <<>>
IsLast == answer.total <= page \/ answer.page = <<>>

\* One turn of the loop.
Collect ==
    /\ walk = "answered"
    /\ all' = all \o answer.page
    /\ answer' = NoAnswer
    /\ IF IsLast
       THEN walk' = "returned" /\ page' = page
       ELSE walk' = "asked" /\ page' = page + 1
    /\ UNCHANGED <<providers, paginates, pageSize, atStart, inserted, removed>>

\* An error status, a timeout or no connection: what was collected is lost.
PageFails ==
    /\ walk = "asked" /\ walk' = "threw"
    /\ all' = <<>>
    /\ UNCHANGED <<providers, paginates, pageSize, page, answer, atStart, inserted, removed>>

WalkOver ==
    /\ walk \in {"returned", "threw"} /\ walk' = "idle"
    /\ UNCHANGED <<providers, paginates, pageSize, page, all, answer, atStart, inserted,
                   removed>>

WalkInit ==
    /\ \E S \in SUBSET Provider : providers = SetToSeq(S)
    /\ paginates \in BOOLEAN
    /\ walk = "idle" /\ pageSize \in PageSizes /\ page = 1 /\ all = <<>>
    /\ answer = NoAnswer /\ atStart = <<>> /\ inserted = 0 /\ removed = {}

WalkNext ==
    \/ \E size \in PageSizes : listAllProviders(size)
    \/ Answer \/ Collect \/ PageFails \/ WalkOver
    \/ \E p \in Provider, i \in 1 .. Len(providers) + 1 : Register(p, i)
    \/ \E i \in 1 .. Len(providers) : Unregister(i)

WalkSpec == WalkInit /\ [][WalkNext]_walkVars

\* Every request is answered or times out, and the event loop runs.
WalkFairSpec == WalkSpec /\ WF_walkVars(Answer \/ Collect \/ PageFails)

-----------------------------------------------------------------------------

Listings(p) == {i \in DOMAIN all : all[i] = p}
Throughout == ToSet(atStart) \ removed

(***************************************************************************)
(* A provider that was registered all the while is missing from the result *)
(* only if one was removed that did not stand after it, and listed twice   *)
(* only if one was registered, once more for each.  So a registry that is  *)
(* left alone is listed whole, each provider once and in its order,        *)
(* whatever page size was asked for and however large the platform's pages *)
(* are (listAllProviders).                                                 *)
(***************************************************************************)
WalkAccountsForChanges ==
    walk = "returned" =>
        /\ \A p \in Throughout :
             /\ Cardinality(Listings(p)) <= 1 + inserted
             /\ Listings(p) = {} =>
                  \E q \in removed :
                      \A i, j \in DOMAIN atStart :
                          atStart[i] = q /\ atStart[j] = p => i < j
        /\ inserted = 0 /\ removed = {} => all = atStart

(***************************************************************************)
(* The walk ends, also while the registry grows and shrinks: an answer     *)
(* either ends it or moves it on (listAllProviders).                       *)
(***************************************************************************)
WalkEnds == Walking ~> walk \in {"returned", "threw"}
=============================================================================
