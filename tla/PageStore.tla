----------------------------- MODULE PageStore -----------------------------
(***************************************************************************)
(* What the buffer pool promises to its callers, without frames, pins or   *)
(* disk (BufferPoolManager, src/src/include/buffer/buffer_pool_manager.h): *)
(* every page that was created and not deleted keeps the value last        *)
(* written to it, and a page somebody uses is neither deleted nor moved.   *)
(***************************************************************************)
CONSTANTS
  Clients,   \* the threads that use pages
  PageIds,   \* page ids that can be allocated
  Values,    \* contents of a page
  Zero       \* the content of a fresh page

VARIABLES
  used,      \* page ids that were given out, or skipped
  content,   \* page id -> its content, Zero for pages that are not live
  live,      \* pages created and not deleted
  users      \* page id -> the clients that have it pinned

svars == <<used, content, live, users>>

SInit ==
  /\ used = {}
  /\ content = [p \in PageIds |-> Zero]
  /\ live = {}
  /\ users = [p \in PageIds |-> {}]

\* A fresh page for c: zeroed, and of an id that was never used before.
New(c, p) ==
  /\ p \notin used
  /\ used' = used \cup {p}
  /\ live' = live \cup {p}
  /\ users' = [users EXCEPT ![p] = {c}]
  /\ UNCHANGED content

\* A failing NewPage uses up an id.
Skip(p) ==
  /\ p \notin used
  /\ used' = used \cup {p}
  /\ UNCHANGED <<content, live, users>>

Use(c, p) ==
  /\ p \in live
  /\ users' = [users EXCEPT ![p] = @ \cup {c}]
  /\ UNCHANGED <<used, content, live>>

Leave(c, p) ==
  /\ c \in users[p]
  /\ users' = [users EXCEPT ![p] = @ \ {c}]
  /\ UNCHANGED <<used, content, live>>

Modify(c, p, v) ==
  /\ c \in users[p]
  /\ content' = [content EXCEPT ![p] = v]
  /\ UNCHANGED <<used, live, users>>

Drop(p) ==
  /\ p \in live /\ users[p] = {}
  /\ live' = live \ {p}
  /\ content' = [content EXCEPT ![p] = Zero]
  /\ UNCHANGED <<used, users>>

SNext ==
  \E p \in PageIds :
    \/ Skip(p) \/ Drop(p)
    \/ \E c \in Clients :
         \/ New(c, p) \/ Use(c, p) \/ Leave(c, p)
         \/ \E v \in Values : Modify(c, p, v)

SSpec == SInit /\ [][SNext]_svars
=============================================================================
