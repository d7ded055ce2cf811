----------------------------- MODULE SessionTabs -----------------------------
(***************************************************************************)
(* The tabs of one PlaywrightSession. The caller opens, activates and      *)
(* closes tabs by id, one call at a time; meanwhile the site opens windows *)
(* and closes pages as it likes. Pages are numbered as they appear.        *)
(***************************************************************************)
EXTENDS Naturals, Sequences, FiniteSets, SequencesExt, Functions

CONSTANT MaxPages   \* bound on the pages that ever appear

VARIABLES
    pages,      \* context.pages: the open pages
    appeared,   \* how many pages appeared so far
    active,     \* _active_page, 0 for none
    tab_ids,    \* _tab_ids: the ids of the pages it has seen
    counter,    \* _tab_counter
    call,       \* the call in progress
    named,      \* history: the page an id was first given to
    chosen      \* history: the page the caller last opened or activated

tabs == <<pages, appeared, active, tab_ids, counter, call, named, chosen>>

NoCall == [op |-> "none", page |-> 0]

TabsInit ==
    /\ pages = {1} /\ appeared = 1
    /\ active = 0 /\ tab_ids = << >> /\ counter = 0
    /\ call = NoCall
    /\ named = << >> /\ chosen = 0

-----------------------------------------------------------------------------
Unseen(open) == open \ DOMAIN tab_ids
UnseenUpTo(open, p) == {q \in Unseen(open) : q <= p}

FreshFrom(open, p) == Cardinality(open \cap DOMAIN tab_ids) + Cardinality(UnseenUpTo(open, p))
NextId(open, p) == counter + Cardinality(UnseenUpTo(open, p))

\* Ids for the pages it has not seen, in their order; the pages that closed are
\* forgotten, their ids are not used again.
track(open) ==
    [p \in open |-> IF p \in DOMAIN tab_ids THEN tab_ids[p] ELSE NextId(open, p)]

track_pages(open) ==
    LET ids == track(open)
    IN  /\ tab_ids' = ids
        /\ counter' = counter + Cardinality(Unseen(open))
        /\ named' = [k \in DOMAIN named \cup Range(ids) |->
                       IF k \in DOMAIN named THEN named[k]
                       ELSE CHOOSE p \in open : ids[p] = k]

\* The page an operation acts on: the active one, or else the first that is open.
resolve(open) ==
    IF active \in open THEN active ELSE IF open = {} THEN 0 ELSE Min(open)

page_for(id) == {p \in pages : track(pages)[p] = id}

-----------------------------------------------------------------------------
(* The caller.                                                             *)

\* Every page-scoped operation: navigate, observe, fill, click, upload, download.
Act ==
    /\ call = NoCall
    /\ active' = resolve(pages)
    /\ UNCHANGED <<pages, appeared, tab_ids, counter, call, named, chosen>>

list_tabs ==
    /\ call = NoCall
    /\ active' = resolve(pages)
    /\ track_pages(pages)
    /\ UNCHANGED <<pages, appeared, call, chosen>>

BeginOpenTab ==
    /\ call = NoCall /\ appeared < MaxPages
    /\ appeared' = appeared + 1
    /\ pages' = pages \cup {appeared'}
    /\ call' = [op |-> "open", page |-> appeared']
    /\ UNCHANGED <<active, tab_ids, counter, named, chosen>>

\* A page that closed itself while it loaded has no id to return: the lookup raises,
\* with the closed page already made the active one in place of the caller's.
open_tab ==
    /\ call.op = "open"
    /\ active' = call.page
    /\ chosen' = call.page
    /\ track_pages(pages)
    /\ call' = NoCall
    /\ UNCHANGED <<pages, appeared>>

OpenTabFails ==
    /\ call.op = "open"
    /\ pages' = pages \ {call.page}
    /\ call' = NoCall
    /\ UNCHANGED <<appeared, active, tab_ids, counter, named, chosen>>

activate_tab(id) ==
    /\ call = NoCall
    /\ track_pages(pages)
    /\ IF page_for(id) = {} THEN UNCHANGED <<active, chosen>>
       ELSE \E p \in page_for(id) : active' = p /\ chosen' = p
    /\ UNCHANGED <<pages, appeared, call>>

BeginCloseTab(id) ==
    /\ call = NoCall /\ appeared < MaxPages
    /\ track_pages(pages)
    /\ call' = IF page_for(id) = {} THEN NoCall
               ELSE [op |-> "close", page |-> CHOOSE p \in page_for(id) : TRUE]
    /\ UNCHANGED <<pages, appeared, active, chosen>>

\* A blank page takes over when none remains, one past MaxPages at worst.
close_tab ==
    LET rest == pages \ {call.page}
        blank == resolve(rest) = 0
        open == IF blank THEN {appeared + 1} ELSE rest
    IN  /\ call.op = "close"
        /\ pages' = open
        /\ appeared' = IF blank THEN appeared + 1 ELSE appeared
        /\ active' = IF blank THEN appeared' ELSE resolve(rest)
        /\ track_pages(open)
        /\ call' = NoCall
        /\ UNCHANGED chosen

-----------------------------------------------------------------------------
(* The site.                                                               *)

WindowOpens ==
    /\ appeared < MaxPages
    /\ appeared' = appeared + 1
    /\ pages' = pages \cup {appeared'}
    /\ UNCHANGED <<active, tab_ids, counter, call, named, chosen>>

PageCloses ==
    /\ \E p \in pages : pages' = pages \ {p}
    /\ UNCHANGED <<appeared, active, tab_ids, counter, call, named, chosen>>

TabsNext ==
    \/ Act \/ list_tabs
    \/ BeginOpenTab \/ open_tab \/ OpenTabFails
    \/ \E id \in DOMAIN named : activate_tab(id) \/ BeginCloseTab(id)
    \/ close_tab
    \/ WindowOpens \/ PageCloses

TabsSpec == TabsInit /\ [][TabsNext]_tabs

-----------------------------------------------------------------------------
(* An id a caller holds never comes to mean another page, whatever opened  *)
(* and closed meanwhile (_track_pages): an old id cannot close a new tab.  *)
(* And what the caller opened or activated is where its next operation     *)
(* lands as long as that page is open: windows the site opens, and tabs    *)
(* closed beside it, do not divert it (_page, open_tab, close_tab).        *)
TabsAreWhatTheCallerMeans ==
    /\ \A p \in DOMAIN tab_ids : named[tab_ids[p]] = p
    /\ call = NoCall /\ chosen \in pages => resolve(pages) = chosen
=============================================================================
