------------------------------ MODULE PsmStore ------------------------------
(***************************************************************************)
(* What psm promises: a set of pages, each changed only by whole sessions. *)
(* A session begins with a page as the last session left it, its edits are *)
(* seen by nobody until it commits, and a power failure takes back the     *)
(* session's uncommitted edits, or costs the page being committed, and     *)
(* nothing else.  Formatting gives every page its fresh content; one that  *)
(* a power failure cuts short is finished before the store is used again.  *)
(***************************************************************************)
CONSTANTS
    Users,      \* who may hold a session
    Nobody,     \* no session
    PageIds,    \* the pages
    Meta,       \* the page that makes the others usable
    Contents,   \* what a page may hold
    Fresh,      \* the content of each formatted page
    Lost        \* an unreadable page

VARIABLES
    disk,       \* what a power failure leaves of each page
    up,         \* the store has been opened since the last power failure
    formatting, \* every page is being made fresh
    user,       \* who holds the session
    page,       \* the page the session works on
    draft       \* the session's copy of it

svars == <<disk, up, formatting, user, page, draft>>

StoreInit ==
    /\ disk = [p \in PageIds |-> Lost]
    /\ ~up /\ ~formatting
    /\ user = Nobody /\ page = Nobody /\ draft = Lost

\* A session starts without a page, on a page as it is on disk, or (to
\* register a module, to erase a page) with a change to a page.
Begin(u) ==
    /\ up /\ user = Nobody /\ user' = u
    /\ \/ UNCHANGED <<page, draft>>
       \/ page' \in PageIds /\ draft' \in Contents
    /\ UNCHANGED <<disk, up, formatting>>

Read(p) ==
    /\ user # Nobody /\ page = Nobody /\ disk[p] # Lost
    /\ page' = p /\ draft' = disk[p]
    /\ UNCHANGED <<disk, up, formatting, user>>

Edit ==
    /\ user # Nobody /\ page # Nobody
    /\ draft' \in Contents
    /\ UNCHANGED <<disk, up, formatting, user, page>>

CommitDraft ==
    /\ user # Nobody /\ page # Nobody
    /\ disk' = [disk EXCEPT ![page] = draft]
    /\ UNCHANGED <<up, formatting, user, page, draft>>

\* A session lets its page go with nothing left to commit.
Settle ==
    /\ user # Nobody /\ page # Nobody
    /\ disk[page] = draft
    /\ page' = Nobody /\ draft' = Lost
    /\ UNCHANGED <<disk, up, formatting, user>>

End ==
    /\ user # Nobody /\ page = Nobody /\ ~formatting
    /\ user' = Nobody
    /\ UNCHANGED <<disk, up, formatting, page, draft>>

Start == up' = TRUE /\ disk[Meta] # Lost /\ UNCHANGED <<disk, formatting, user, page, draft>>

BeginFormat ==
    /\ ~formatting /\ formatting' = TRUE
    /\ \/ ~up /\ UNCHANGED user
       \/ up /\ user = Nobody /\ user' \in Users
    /\ UNCHANGED <<disk, up, page, draft>>

\* The metadata page is the first to go and the last to come back.
FormatPage(p) ==
    /\ formatting
    /\ p = Meta \/ disk[Meta] = Lost
    /\ \/ disk' = [disk EXCEPT ![p] = Lost]
       \/ /\ p = Meta => \A q \in PageIds \ {Meta} : disk[q] = Fresh[q]
          /\ disk' = [disk EXCEPT ![p] = Fresh[p]]
    /\ UNCHANGED <<up, formatting, user, page, draft>>

EndFormat ==
    /\ formatting /\ formatting' = FALSE
    /\ disk = Fresh
    /\ UNCHANGED <<disk, up, user, page, draft>>

PowerFailure ==
    /\ \/ disk' = disk
       \/ page # Nobody /\ disk' = [disk EXCEPT ![page] = Lost]
       \/ /\ formatting
          /\ \E p \in PageIds :
                /\ p = Meta \/ disk[Meta] = Lost
                /\ disk' = [disk EXCEPT ![p] = Lost]
    /\ up' = FALSE /\ formatting' = FALSE
    /\ user' = Nobody /\ page' = Nobody /\ draft' = Lost

StoreNext ==
    \/ \E u \in Users : Begin(u)
    \/ \E p \in PageIds : Read(p) \/ FormatPage(p)
    \/ Edit \/ CommitDraft \/ Settle \/ End \/ Start
    \/ BeginFormat \/ EndFormat \/ PowerFailure

StoreSpec == StoreInit /\ [][StoreNext]_svars
============================================================================
