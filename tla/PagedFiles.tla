----------------------------- MODULE PagedFiles -----------------------------
(***************************************************************************)
(* What the buffer pool promises, without frames, eviction or descriptors: *)
(* a file is a sequence of pages, and a page changes only when somebody    *)
(* who holds it writes to it, however often it goes to disk and comes back *)
(* in between.                                                             *)
(***************************************************************************)
EXTENDS Naturals, Sequences

CONSTANTS
    Files, Holders, PageValues,
    Zero,       \* the content of a new page
    MaxPages,   \* pages of a file
    Nothing     \* what a holder holds that holds no page

VARIABLES
    content,    \* the pages of each file
    held        \* the page, <<file, page>>, each holder holds

vars == <<content, held>>

Init ==
    /\ content = [file \in Files |-> <<>>]
    /\ held = [h \in Holders |-> Nothing]

\* New pages at the end, nothing else.
Extend(file, count) ==
    /\ content' = [content EXCEPT ![file] = @ \o [p \in 1..count |-> Zero]]
    /\ UNCHANGED held

Hold(h, file, page) ==
    /\ held[h] = Nothing
    /\ page \in DOMAIN content[file]
    /\ held' = [held EXCEPT ![h] = <<file, page>>]
    /\ UNCHANGED content

Write(h, value) ==
    /\ held[h] # Nothing
    /\ content' = [content EXCEPT ![held[h][1]][held[h][2]] = value]
    /\ UNCHANGED held

Release(h) ==
    /\ held[h] # Nothing
    /\ held' = [held EXCEPT ![h] = Nothing]
    /\ UNCHANGED content

Next ==
    \/ \E file \in Files, count \in 1..MaxPages : Extend(file, count)
    \/ \E h \in Holders : \/ \E file \in Files, page \in 1..MaxPages : Hold(h, file, page)
                          \/ \E value \in PageValues : Write(h, value)
                          \/ Release(h)

Spec == Init /\ [][Next]_vars
=============================================================================
