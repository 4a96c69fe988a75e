----------------------------- MODULE ShareLinks -----------------------------
(***************************************************************************)
(* The links that show a client's secret once (routers/share.py of the     *)
(* auth service, and the share endpoints of its routers/admin.py), for one *)
(* client. Making a link supersedes the live ones. Each endpoint selects   *)
(* the row, checks what it read, and commits later; a commit writes the    *)
(* attributes that endpoint changed, whatever the row holds by then.       *)
(***************************************************************************)
EXTENDS Integers, FiniteSets

CONSTANTS
    Links,   \* links that may be made
    Views,   \* visits, each to one link
    Admins   \* admin requests, each for one link

VARIABLES
    link,    \* credential_share_tokens, by link
    view,    \* per visit
    admin,   \* per admin request
    excuse   \* history: two links were made at once

vars == <<link, view, admin, excuse>>

NoLink == "none"

Unmade == [made |-> FALSE, secret |-> FALSE, used |-> FALSE, revoked |-> FALSE,
           expired |-> FALSE]

\* before: what had happened to the link when the select ran, see History.
Init ==
    /\ link = [l \in Links |-> Unmade]
    /\ view = [v \in Views |-> [pc |-> "new", link |-> NoLink, shows |-> FALSE, before |-> {}]]
    /\ admin = [a \in Admins |-> [pc |-> "new", link |-> NoLink, live |-> {}, told |-> FALSE]]
    /\ excuse = FALSE

-----------------------------------------------------------------------------
\* generate_share_link's active tokens: unused, not revoked, not expired.
Live == {l \in Links : LET k == link[l] IN k.made /\ ~k.used /\ ~k.revoked /\ ~k.expired}

\* What has happened to a link, as answers that have gone out tell it.
History(l) ==
    {v \in Views : view[v].shows /\ view[v].link = l}
        \cup {a \in Admins : admin[a].told /\ l \in admin[a].live}

\* view_share: the select, and the checks that answer 404 or 410.
Visit(v, l) ==
    /\ view[v].pc = "new"
    /\ LET k == link[l]
       IN  /\ k.made
           /\ view' = [view EXCEPT ![v] =
                 [@ EXCEPT !.pc = IF k.used \/ ~k.secret \/ k.revoked \/ k.expired
                                  THEN "done" ELSE "commit",
                           !.link = l, !.before = History(l)]]
    /\ UNCHANGED <<link, admin, excuse>>

\* Fault: the page is rendered first, and the commit after it may be lost.
ShowFirst(v) ==
    /\ view[v].pc = "commit"
    /\ \/ UNCHANGED link
       \/ link' = [link EXCEPT ![view[v].link] = [@ EXCEPT !.used = TRUE, !.secret = FALSE]]
    /\ view' = [view EXCEPT ![v].pc = "done", ![v].shows = TRUE]
    /\ UNCHANGED <<admin, excuse>>

\* used_at, the secret cleared and committed; only then the page is rendered.
Show(v) ==
    /\ view[v].pc = "commit"
    /\ link' = [link EXCEPT ![view[v].link] = [@ EXCEPT !.used = TRUE, !.secret = FALSE]]
    /\ view' = [view EXCEPT ![v].pc = "done", ![v].shows = TRUE]
    /\ UNCHANGED <<admin, excuse>>

\* A visit that dies, before its commit or between it and the page.
Lost(v) ==
    /\ view[v].pc = "commit"
    /\ \/ UNCHANGED link
       \/ link' = [link EXCEPT ![view[v].link] = [@ EXCEPT !.used = TRUE, !.secret = FALSE]]
    /\ view' = [view EXCEPT ![v].pc = "done"]
    /\ UNCHANGED <<admin, excuse>>

Making == {a \in Admins : admin[a].pc = "make"}

\* generate_share_link: the select of the active links.
Generate(a, l) ==
    /\ admin[a].pc = "new"
    /\ ~link[l].made
    /\ \A b \in Admins : admin[b].link # l
    /\ admin' = [admin EXCEPT ![a] = [@ EXCEPT !.pc = "make", !.link = l, !.live = Live]]
    /\ excuse' = (excuse \/ Making # {})
    /\ UNCHANGED <<link, view>>

\* One commit: the links it read are superseded and the new one is inserted.
Make(a) ==
    /\ admin[a].pc = "make"
    /\ link' = [l \in Links |->
                  IF l = admin[a].link THEN [Unmade EXCEPT !.made = TRUE, !.secret = TRUE]
                  ELSE IF l \in admin[a].live
                  THEN [link[l] EXCEPT !.revoked = TRUE, !.secret = FALSE]
                  ELSE link[l]]
    /\ admin' = [admin EXCEPT ![a].pc = "done", ![a].told = TRUE]
    /\ UNCHANGED <<view, excuse>>

\* revoke_share_link: the select, 404 or 409 when it was used.
Revoke(a, l) ==
    /\ admin[a].pc = "new"
    /\ link[l].made /\ ~link[l].used
    /\ admin' = [admin EXCEPT ![a] = [@ EXCEPT !.pc = "revoke", !.link = l, !.live = {l}]]
    /\ UNCHANGED <<link, view, excuse>>

Revoked(a) ==
    /\ admin[a].pc = "revoke"
    /\ link' = [link EXCEPT ![admin[a].link] = [@ EXCEPT !.revoked = TRUE, !.secret = FALSE]]
    /\ admin' = [admin EXCEPT ![a].pc = "done", ![a].told = TRUE]
    /\ UNCHANGED <<view, excuse>>

\* share_token_ttl_seconds have passed.
Expire(l) ==
    /\ link[l].made /\ ~link[l].expired
    /\ link' = [link EXCEPT ![l].expired = TRUE]
    /\ UNCHANGED <<view, admin, excuse>>

Next ==
    \/ \E v \in Views, l \in Links : Visit(v, l)
    \/ \E v \in Views : Show(v) \/ Lost(v)
    \/ \E a \in Admins, l \in Links : Generate(a, l) \/ Revoke(a, l)
    \/ \E a \in Admins : Make(a) \/ Revoked(a)
    \/ \E l \in Links : Expire(l)

Spec == Init /\ [][Next]_vars

-----------------------------------------------------------------------------
(* A secret is shown once, and never after an operator was told that its link
   is revoked or superseded: a page that shows it was asked for before every
   such answer went out, so only visits and revocations that overlap can both
   succeed (share.py:78). One link is live at a time, unless two were being
   made at once (admin.py:506); and a link that was used, revoked or superseded
   keeps no secret. *)
ShownOnce ==
    /\ \A v \in Views : view[v].shows => view[v].before = {}
    /\ excuse \/ Cardinality(Live) <= 1
    /\ \A l \in Links : link[l].used \/ link[l].revoked => ~link[l].secret
=============================================================================
