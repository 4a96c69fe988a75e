--------------------------- MODULE ServicesProofs ---------------------------
(***************************************************************************)
(* What holds of the components that share no state, for every value of    *)
(* their constants: the credentials shared with a client, the operator's   *)
(* word about a node, the revocation of a client, the keys that tokens are *)
(* signed with, the budget of failed logins, the migrations of a table,    *)
(* the upgrade of a node's registry, and the downloads. Each is proved of  *)
(* the component by itself and of the components side by side, whose       *)
(* invariants a run checks. What the gateway keeps for its operators and   *)
(* clients is in GatewayProofs.                                            *)
(***************************************************************************)
EXTENDS Services, WellFoundedInduction, FiniteSetTheorems, SequenceTheorems, TLAPS

LEMMA FocusStays == [Next]_vars => focus' = focus
BY DEF Next, Same9, Same8, Same7, Same4, Same3, vars

-----------------------------------------------------------------------------
(* ShareLinks. Its links are s1, the visits s2, the admin requests s3, and *)
(* s4 tells whether two links were made at once. What the proof turns on is *)
(* that a link is made once, and that no answer has gone out about a link  *)
(* that can still be shown.                                                *)

link == s1
view == s2
sharing == s3
atOnce == s4

USE DEF link, view, sharing, atOnce

LinksTyped ==
    /\ link \in [Links -> [made : BOOLEAN, secret : BOOLEAN, used : BOOLEAN,
                           revoked : BOOLEAN, expired : BOOLEAN]]
    /\ view \in [Views -> [pc : {"new", "commit", "done"}, link : Links \cup {Shares!NoLink},
                           shows : BOOLEAN, before : SUBSET (Views \cup ShareAdmins)]]
    /\ sharing \in [ShareAdmins -> [pc : {"new", "make", "revoke", "done"},
                             link : Links \cup {Shares!NoLink}, live : SUBSET Links,
                             told : BOOLEAN]]
    /\ atOnce \in BOOLEAN

\* A link about to be made is new, and one request makes it.
MadeOnce ==
    /\ \A a \in Shares!Making : sharing[a].link \in Links /\ ~link[sharing[a].link].made
    /\ \A a, b \in Shares!Making : sharing[a].link = sharing[b].link => a = b

\* What requests hold on to are links that are made.
HoldsMade ==
    /\ \A v \in Views : view[v].pc = "commit" \/ view[v].shows =>
          view[v].link \in Links /\ link[view[v].link].made
    /\ \A a \in ShareAdmins : \A l \in sharing[a].live : link[l].made
    /\ \A a \in ShareAdmins : sharing[a].pc = "revoke" =>
          /\ sharing[a].live = {sharing[a].link}
          /\ sharing[a].link \in Links

\* An answer is the end of its request.
Finished ==
    /\ \A v \in Views : view[v].shows => view[v].pc = "done"
    /\ \A a \in ShareAdmins : sharing[a].told => sharing[a].pc = "done"

\* What answers said of a link is so.
AnswersTrue ==
    /\ \A v \in Views : view[v].shows => link[view[v].link].used
    /\ \A a \in ShareAdmins : sharing[a].told => \A l \in sharing[a].live : link[l].revoked

\* A visit that may show the secret was asked for before any such answer.
AskedBefore ==
    \A v \in Views : view[v].pc = "commit" \/ view[v].shows => view[v].before = {}

SecretsGone == \A l \in Links : link[l].used \/ link[l].revoked => ~link[l].secret

\* The one request that makes a link has read every link that is live.
OneLive ==
    atOnce \/ /\ \A k, l \in Shares!Live : k = l
              /\ \A a, b \in Shares!Making : a = b
              /\ \A a \in Shares!Making : Shares!Live \subseteq sharing[a].live

ShareInv ==
    /\ LinksTyped /\ MadeOnce /\ HoldsMade /\ Finished /\ AnswersTrue /\ AskedBefore
    /\ SecretsGone /\ OneLive

LinkRows == [made : BOOLEAN, secret : BOOLEAN, used : BOOLEAN,
             revoked : BOOLEAN, expired : BOOLEAN]

-----------------------------------------------------------------------------
(* Steps that take something from one link and give it nothing: shown,      *)
(* revoked, expired. The visits and requests that look at it may end.       *)

\* No link is made or comes to life, and what was said of one stays so.
Taken ==
    /\ link' \in [Links -> LinkRows]
    /\ \A l \in Links :
          /\ link'[l].made = link[l].made
          /\ link[l].used => link'[l].used
          /\ link[l].revoked => link'[l].revoked
          /\ link'[l].used \/ link'[l].revoked => ~link'[l].secret
    /\ Shares!Live' \subseteq Shares!Live

LEMMA TakenKeepsLive ==
    ASSUME ShareInv, Taken, UNCHANGED atOnce, Shares!Making' \subseteq Shares!Making,
           \A a \in Shares!Making' : sharing'[a].live = sharing[a].live
    PROVE  OneLive' /\ SecretsGone'
<1>1. SecretsGone'
    BY DEF Taken, SecretsGone
<1>2. OneLive'
    BY DEF Taken, ShareInv, OneLive
<1>3. QED
    BY <1>1, <1>2

\* One link is written so.
LEMMA TakenOne ==
    ASSUME ShareInv, NEW l \in Links, link[l].made, NEW row \in LinkRows,
           link' = [link EXCEPT ![l] = row],
           row.made, link[l].used => row.used, link[l].revoked => row.revoked,
           row.used \/ row.revoked => ~row.secret,
           row.used \/ row.revoked \/ row.expired \/ UNCHANGED link
    PROVE  Taken
<1>1. /\ link' \in [Links -> LinkRows]
      /\ link'[l] = row
      /\ \A k \in Links \ {l} : link'[k] = link[k]
    BY DEF ShareInv, LinksTyped, LinkRows
<1>2. Shares!Live' \subseteq Shares!Live
    BY <1>1 DEF Shares!Live
<1>3. \A k \in Links : link[k].used \/ link[k].revoked => ~link[k].secret
    BY DEF ShareInv, SecretsGone
<1>4. QED
    BY <1>1, <1>2, <1>3 DEF Taken

LEMMA ShownRow ==
    ASSUME ShareInv, NEW v \in Views, view[v].pc = "commit",
           link' = [link EXCEPT ![view[v].link] =
                       [@ EXCEPT !.used = TRUE, !.secret = FALSE]]
    PROVE  Taken /\ view[v].link \in Links /\ link'[view[v].link].used
<1> DEFINE l == view[v].link
           row == [link[l] EXCEPT !.used = TRUE, !.secret = FALSE]
<1>1. l \in Links /\ link[l].made
    BY DEF ShareInv, HoldsMade
<1>2. link[l] \in LinkRows
    BY <1>1 DEF ShareInv, LinksTyped, LinkRows
<1>3. /\ row \in LinkRows
      /\ row.made = link[l].made /\ row.revoked = link[l].revoked
      /\ row.used /\ ~row.secret
    BY <1>2 DEF LinkRows
<1>4. link' = [link EXCEPT ![l] = row]
    OBVIOUS
<1>5. link'[l] = row
    BY <1>1, <1>4 DEF ShareInv, LinksTyped
<1> HIDE DEF l, row
<1>6. Taken
    BY <1>1, <1>3, <1>4, TakenOne
<1>7. l \in Links /\ link'[l].used
    BY <1>1, <1>3, <1>5
<1>8. QED
    BY <1>6, <1>7 DEF l

LEMMA RevokedRow ==
    ASSUME ShareInv, NEW a \in ShareAdmins, sharing[a].pc = "revoke",
           link' = [link EXCEPT ![sharing[a].link] =
                       [@ EXCEPT !.revoked = TRUE, !.secret = FALSE]]
    PROVE  Taken /\ \A l \in sharing[a].live : link'[l].revoked
<1> DEFINE l == sharing[a].link
           row == [link[l] EXCEPT !.revoked = TRUE, !.secret = FALSE]
<1>1. l \in Links /\ sharing[a].live = {l} /\ link[l].made
    BY DEF ShareInv, HoldsMade
<1>2. link[l] \in LinkRows
    BY <1>1 DEF ShareInv, LinksTyped, LinkRows
<1>3. /\ row \in LinkRows
      /\ row.made = link[l].made /\ row.used = link[l].used
      /\ row.revoked /\ ~row.secret
    BY <1>2 DEF LinkRows
<1>4. link' = [link EXCEPT ![l] = row]
    OBVIOUS
<1>5. link'[l] = row
    BY <1>1, <1>4 DEF ShareInv, LinksTyped
<1> HIDE DEF l, row
<1>6. Taken
    BY <1>1, <1>3, <1>4, TakenOne
<1>7. \A k \in sharing[a].live : link'[k].revoked
    BY <1>1, <1>3, <1>5
<1>8. QED
    BY <1>6, <1>7

-----------------------------------------------------------------------------
(* The endpoints. *)

LEMMA VisitStep ==
    ASSUME ShareInv, NEW v \in Views, NEW l \in Links, Shares!Visit(v, l)
    PROVE  ShareInv'
<1> DEFINE k == link[l]
           goes == IF k.used \/ ~k.secret \/ k.revoked \/ k.expired
                   THEN "done" ELSE "commit"
           seen == [view[v] EXCEPT !.pc = goes, !.link = l, !.before = Shares!History(l)]
<1>1. /\ view' = [view EXCEPT ![v] = seen]
      /\ UNCHANGED <<link, sharing, atOnce>>
      /\ k.made /\ view[v].pc = "new"
    BY DEF Shares!Visit
<1>2. Shares!History(l) \subseteq Views \cup ShareAdmins
    BY DEF Shares!History
<1>3. /\ view[v] \in [pc : {"new", "commit", "done"}, link : Links \cup {Shares!NoLink},
                      shows : BOOLEAN, before : SUBSET (Views \cup ShareAdmins)]
      /\ ~view[v].shows
    BY <1>1 DEF ShareInv, LinksTyped, Finished
<1>4. /\ seen \in [pc : {"new", "commit", "done"}, link : Links \cup {Shares!NoLink},
                   shows : BOOLEAN, before : SUBSET (Views \cup ShareAdmins)]
      /\ seen.pc = goes /\ seen.link = l /\ seen.before = Shares!History(l) /\ ~seen.shows
    BY <1>2, <1>3
<1>5. goes = "commit" => Shares!History(l) = {}
    <2>1. goes = "commit" => ~k.used /\ ~k.revoked
        OBVIOUS
    <2>2. QED
        BY <2>1 DEF Shares!History, ShareInv, AnswersTrue
<1> HIDE DEF seen, goes
<1>6. /\ view'[v] = seen
      /\ \A u \in Views \ {v} : view'[u] = view[u]
    BY <1>1 DEF ShareInv, LinksTyped
<1>7. LinksTyped'
    BY <1>1, <1>4 DEF ShareInv, LinksTyped
<1>8. MadeOnce' /\ SecretsGone' /\ OneLive'
    BY <1>1 DEF ShareInv, MadeOnce, SecretsGone, OneLive, Shares!Making, Shares!Live
<1>9. HoldsMade'
    BY <1>1, <1>4, <1>6 DEF ShareInv, HoldsMade
<1>10. Finished' /\ AnswersTrue' /\ AskedBefore'
    BY <1>1, <1>4, <1>5, <1>6 DEF ShareInv, Finished, AnswersTrue, AskedBefore
<1>11. QED
    BY <1>7, <1>8, <1>9, <1>10 DEF ShareInv

\* A visit ends, with its page or without.
LEMMA VisitEnds ==
    ASSUME ShareInv, NEW v \in Views, view[v].pc = "commit", NEW shows \in BOOLEAN,
           view' = [view EXCEPT ![v].pc = "done", ![v].shows = shows],
           Taken, shows => link'[view[v].link].used,
           UNCHANGED <<sharing, atOnce>>
    PROVE  ShareInv'
<1> DEFINE ended == [view[v] EXCEPT !.pc = "done", !.shows = shows]
<1>1. /\ ended \in [pc : {"new", "commit", "done"}, link : Links \cup {Shares!NoLink},
                    shows : BOOLEAN, before : SUBSET (Views \cup ShareAdmins)]
      /\ ended.pc = "done" /\ ended.link = view[v].link
      /\ ended.before = view[v].before /\ ended.shows = shows
    BY DEF ShareInv, LinksTyped
<1>2. /\ view'[v] = ended
      /\ \A u \in Views \ {v} : view'[u] = view[u]
      /\ view' = [view EXCEPT ![v] = ended]
    BY DEF ShareInv, LinksTyped
<1> HIDE DEF ended
<1>3. LinksTyped'
    BY <1>1, <1>2 DEF ShareInv, LinksTyped, Taken, LinkRows
<1>4. MadeOnce' /\ HoldsMade'
    <2>1. MadeOnce'
        BY DEF ShareInv, MadeOnce, Taken, Shares!Making
    <2>2. /\ \A u \in Views : view'[u].pc = "commit" \/ view'[u].shows =>
                /\ view[u].pc = "commit" \/ view[u].shows
                /\ view'[u].link = view[u].link
        BY <1>1, <1>2
    <2>3. \A a \in ShareAdmins : \A l \in sharing[a].live : l \in Links
        BY DEF ShareInv, LinksTyped
    <2>4. HoldsMade'
        BY <2>2, <2>3 DEF ShareInv, HoldsMade, Taken
    <2>5. QED
        BY <2>1, <2>4
<1>5. Finished' /\ AskedBefore'
    <2>1. Finished'
        BY <1>1, <1>2 DEF ShareInv, Finished
    <2>2. /\ \A u \in Views : view'[u].before = view[u].before
          /\ \A u \in Views : view'[u].shows => view'[u].link = view[u].link
        BY <1>1, <1>2
    <2>3. AskedBefore'
        BY <1>1, <1>2, <2>2 DEF ShareInv, AskedBefore
    <2>4. QED
        BY <2>1, <2>3
<1>6. AnswersTrue'
    <2>1. \A a \in ShareAdmins : \A l \in sharing[a].live : l \in Links
        BY DEF ShareInv, LinksTyped
    <2>2. \A u \in Views : view[u].shows => view[u].link \in Links
        BY DEF ShareInv, HoldsMade
    <2>3. ASSUME NEW u \in Views, view'[u].shows
          PROVE  link'[view'[u].link].used
        <3>1. CASE u = v
            BY <3>1, <2>3, <1>1, <1>2
        <3>2. CASE u # v
            BY <3>2, <2>3, <1>2, <2>2 DEF ShareInv, AnswersTrue, Taken
        <3>3. QED
            BY <3>1, <3>2
    <2>4. \A a \in ShareAdmins : sharing[a].told => \A l \in sharing[a].live : link'[l].revoked
        BY <2>1 DEF ShareInv, AnswersTrue, Taken
    <2>5. QED
        BY <2>3, <2>4 DEF AnswersTrue
<1>7. OneLive' /\ SecretsGone'
    BY TakenKeepsLive DEF Shares!Making
<1>8. QED
    BY <1>3, <1>4, <1>5, <1>6, <1>7 DEF ShareInv

LEMMA NothingTaken == ShareInv /\ UNCHANGED link => Taken
BY DEF ShareInv, LinksTyped, SecretsGone, Taken, LinkRows, Shares!Live

LEMMA ShowStep ==
    ASSUME ShareInv, NEW v \in Views, Shares!Show(v)
    PROVE  ShareInv'
BY ShownRow, VisitEnds DEF Shares!Show

LEMMA LostVisit ==
    ASSUME ShareInv, NEW v \in Views, Shares!Lost(v)
    PROVE  ShareInv'
<1>1. ~view[v].shows /\ view[v].pc = "commit"
    <2>1. view[v].pc = "commit" /\ view[v].shows \in BOOLEAN
        BY DEF Shares!Lost, ShareInv, LinksTyped
    <2>2. ~view[v].shows
        BY <2>1 DEF ShareInv, Finished
    <2>3. QED
        BY <2>1, <2>2
<1>2. view' = [view EXCEPT ![v].pc = "done", ![v].shows = FALSE]
    BY <1>1 DEF Shares!Lost, ShareInv, LinksTyped
<1>3. Taken
    BY <1>1, ShownRow, NothingTaken DEF Shares!Lost
<1>4. QED
    BY <1>1, <1>2, <1>3, VisitEnds DEF Shares!Lost

AdminRows == [pc : {"new", "make", "revoke", "done"}, link : Links \cup {Shares!NoLink},
              live : SUBSET Links, told : BOOLEAN]

LEMMA GenerateStep ==
    ASSUME ShareInv, NEW a \in ShareAdmins, NEW l \in Links, Shares!Generate(a, l)
    PROVE  ShareInv'
<1> DEFINE begun == [sharing[a] EXCEPT !.pc = "make", !.link = l, !.live = Shares!Live]
<1>1. /\ sharing' = [sharing EXCEPT ![a] = begun]
      /\ atOnce' = (atOnce \/ Shares!Making # {})
      /\ UNCHANGED <<link, view>>
      /\ ~link[l].made /\ sharing[a].pc = "new"
      /\ \A b \in ShareAdmins : sharing[b].link # l
    BY DEF Shares!Generate
<1>2. Shares!Live \subseteq Links /\ \A k \in Shares!Live : link[k].made
    BY DEF Shares!Live
<1>3. sharing[a] \in AdminRows /\ ~sharing[a].told
    BY <1>1 DEF ShareInv, LinksTyped, Finished, AdminRows
<1>4. /\ begun \in AdminRows
      /\ begun.pc = "make" /\ begun.link = l /\ begun.live = Shares!Live /\ ~begun.told
    BY <1>2, <1>3 DEF AdminRows
<1> HIDE DEF begun
<1>5. /\ sharing'[a] = begun
      /\ \A b \in ShareAdmins \ {a} : sharing'[b] = sharing[b]
    BY <1>1 DEF ShareInv, LinksTyped
<1>6. LinksTyped'
    BY <1>1, <1>4 DEF ShareInv, LinksTyped, AdminRows
<1>7. Shares!Making' = Shares!Making \cup {a} /\ Shares!Live' = Shares!Live
    BY <1>1, <1>4, <1>5 DEF Shares!Making, Shares!Live
<1>8. MadeOnce'
    <2>1. \A b \in Shares!Making : b \in ShareAdmins
        BY DEF Shares!Making
    <2>2. a \notin Shares!Making
        BY <1>1 DEF Shares!Making
    <2>3. QED
        BY <1>1, <1>4, <1>5, <1>7, <2>1, <2>2 DEF ShareInv, MadeOnce
<1>9. HoldsMade'
    BY <1>1, <1>2, <1>4, <1>5 DEF ShareInv, HoldsMade
<1>10. Finished' /\ AnswersTrue'
    BY <1>1, <1>4, <1>5 DEF ShareInv, Finished, AnswersTrue
<1>11. AskedBefore' /\ SecretsGone'
    BY <1>1 DEF ShareInv, AskedBefore, SecretsGone
<1>12. OneLive'
    BY <1>1, <1>4, <1>5, <1>7 DEF ShareInv, OneLive
<1>13. QED
    BY <1>6, <1>8, <1>9, <1>10, <1>11, <1>12 DEF ShareInv

LEMMA RevokeStep ==
    ASSUME ShareInv, NEW a \in ShareAdmins, NEW l \in Links, Shares!Revoke(a, l)
    PROVE  ShareInv'
<1> DEFINE begun == [sharing[a] EXCEPT !.pc = "revoke", !.link = l, !.live = {l}]
<1>1. /\ sharing' = [sharing EXCEPT ![a] = begun]
      /\ UNCHANGED <<link, view, atOnce>>
      /\ link[l].made /\ sharing[a].pc = "new"
    BY DEF Shares!Revoke
<1>2. sharing[a] \in AdminRows /\ ~sharing[a].told
    BY <1>1 DEF ShareInv, LinksTyped, Finished, AdminRows
<1>3. /\ begun \in AdminRows
      /\ begun.pc = "revoke" /\ begun.link = l /\ begun.live = {l} /\ ~begun.told
    BY <1>2 DEF AdminRows
<1> HIDE DEF begun
<1>4. /\ sharing'[a] = begun
      /\ \A b \in ShareAdmins \ {a} : sharing'[b] = sharing[b]
    BY <1>1 DEF ShareInv, LinksTyped
<1>5. LinksTyped'
    BY <1>1, <1>3 DEF ShareInv, LinksTyped, AdminRows
<1>6. Shares!Making' = Shares!Making /\ Shares!Live' = Shares!Live /\ a \notin Shares!Making
    BY <1>1, <1>3, <1>4 DEF Shares!Making, Shares!Live
<1>7. \A b \in Shares!Making : sharing'[b] = sharing[b]
    BY <1>4, <1>6 DEF Shares!Making
<1>8. MadeOnce'
    BY <1>1, <1>6, <1>7 DEF ShareInv, MadeOnce
<1>9. HoldsMade'
    BY <1>1, <1>3, <1>4 DEF ShareInv, HoldsMade
<1>10. Finished' /\ AnswersTrue'
    BY <1>1, <1>3, <1>4 DEF ShareInv, Finished, AnswersTrue
<1>11. AskedBefore' /\ SecretsGone'
    BY <1>1 DEF ShareInv, AskedBefore, SecretsGone
<1>12. OneLive'
    BY <1>1, <1>6, <1>7 DEF ShareInv, OneLive
<1>13. QED
    BY <1>5, <1>8, <1>9, <1>10, <1>11, <1>12 DEF ShareInv

\* An admin request that has committed answers.
LEMMA AdminTold ==
    ASSUME ShareInv, NEW a \in ShareAdmins,
           sharing' = [sharing EXCEPT ![a].pc = "done", ![a].told = TRUE]
    PROVE  /\ sharing' \in [ShareAdmins -> AdminRows]
           /\ sharing'[a].pc = "done" /\ sharing'[a].told
           /\ sharing'[a].live = sharing[a].live
           /\ \A b \in ShareAdmins \ {a} : sharing'[b] = sharing[b]
           /\ Shares!Making' = Shares!Making \ {a}
<1> DEFINE ended == [sharing[a] EXCEPT !.pc = "done", !.told = TRUE]
<1>1. /\ ended \in AdminRows
      /\ ended.pc = "done" /\ ended.told /\ ended.live = sharing[a].live
    BY DEF ShareInv, LinksTyped, AdminRows
<1>2. /\ sharing'[a] = ended
      /\ \A b \in ShareAdmins \ {a} : sharing'[b] = sharing[b]
      /\ sharing' = [sharing EXCEPT ![a] = ended]
    BY DEF ShareInv, LinksTyped
<1> HIDE DEF ended
<1>3. sharing' \in [ShareAdmins -> AdminRows]
    BY <1>1, <1>2 DEF ShareInv, LinksTyped, AdminRows
<1>4. Shares!Making' = Shares!Making \ {a}
    BY <1>1, <1>2 DEF Shares!Making
<1>5. QED
    BY <1>1, <1>2, <1>3, <1>4

LEMMA RevokedStep ==
    ASSUME ShareInv, NEW a \in ShareAdmins, Shares!Revoked(a)
    PROVE  ShareInv'
<1>1. /\ sharing[a].pc = "revoke"
      /\ sharing' = [sharing EXCEPT ![a].pc = "done", ![a].told = TRUE]
      /\ UNCHANGED <<view, atOnce>>
      /\ Taken /\ \A l \in sharing[a].live : link'[l].revoked
    BY RevokedRow DEF Shares!Revoked
<1>2. LinksTyped'
    BY <1>1, AdminTold DEF ShareInv, LinksTyped, Taken, AdminRows, LinkRows
<1>3. Shares!Making' = Shares!Making /\ a \notin Shares!Making
    BY <1>1, AdminTold DEF Shares!Making
<1>4. \A b \in Shares!Making : b \in ShareAdmins /\ sharing'[b] = sharing[b]
    BY <1>1, <1>3, AdminTold DEF Shares!Making
<1>5. MadeOnce'
    <2>1. \A b \in Shares!Making : sharing[b].link \in Links /\ ~link[sharing[b].link].made
        BY DEF ShareInv, MadeOnce
    <2>2. \A b \in Shares!Making' : sharing'[b].link \in Links /\ ~link'[sharing'[b].link].made
        BY <1>1, <1>3, <1>4, <2>1 DEF Taken
    <2>3. QED
        BY <1>3, <1>4, <2>2 DEF ShareInv, MadeOnce
<1>6. \A b \in ShareAdmins : sharing[b].live \subseteq Links /\ sharing'[b].live = sharing[b].live
    BY <1>1, AdminTold DEF ShareInv, LinksTyped
<1>7. HoldsMade'
    BY <1>1, <1>6, AdminTold DEF ShareInv, HoldsMade, Taken
<1>8. Finished' /\ AskedBefore'
    BY <1>1, AdminTold DEF ShareInv, Finished, AskedBefore
<1>9. AnswersTrue'
    <2>1. \A v \in Views : view[v].shows => view[v].link \in Links
        BY DEF ShareInv, HoldsMade
    <2>2. \A v \in Views : view'[v].shows => link'[view'[v].link].used
        BY <1>1, <2>1 DEF ShareInv, AnswersTrue, Taken
    <2>3. \A b \in ShareAdmins \ {a} : sharing[b].told =>
              \A l \in sharing[b].live : link'[l].revoked
        BY <1>1, <1>6 DEF ShareInv, AnswersTrue, Taken
    <2>4. QED
        BY <1>1, <1>6, <2>2, <2>3, AdminTold DEF AnswersTrue
<1>10. OneLive' /\ SecretsGone'
    BY <1>1, <1>3, <1>4, TakenKeepsLive
<1>11. QED
    BY <1>2, <1>5, <1>7, <1>8, <1>9, <1>10 DEF ShareInv

LEMMA MakeStep ==
    ASSUME ShareInv, NEW a \in ShareAdmins, Shares!Make(a)
    PROVE  ShareInv'
<1> DEFINE new == sharing[a].link
           fresh == [Shares!Unmade EXCEPT !.made = TRUE, !.secret = TRUE]
<1>1. /\ sharing[a].pc = "make"
      /\ link' = [l \in Links |->
                    IF l = new THEN fresh
                    ELSE IF l \in sharing[a].live
                    THEN [link[l] EXCEPT !.revoked = TRUE, !.secret = FALSE]
                    ELSE link[l]]
      /\ sharing' = [sharing EXCEPT ![a].pc = "done", ![a].told = TRUE]
      /\ UNCHANGED <<view, atOnce>>
    BY DEF Shares!Make
<1>2. a \in Shares!Making /\ new \in Links /\ ~link[new].made
    BY <1>1 DEF Shares!Making, ShareInv, MadeOnce
<1>3. /\ fresh \in LinkRows
      /\ fresh.made /\ fresh.secret /\ ~fresh.used /\ ~fresh.revoked
    BY DEF Shares!Unmade, LinkRows
<1>4. link'[new] = fresh
    BY <1>1, <1>2
<1>5. ASSUME NEW l \in Links \ {new}
      PROVE  /\ link'[l] \in LinkRows
             /\ link'[l].made = link[l].made
             /\ link'[l].used = link[l].used
             /\ link[l].revoked => link'[l].revoked
             /\ l \in sharing[a].live => link'[l].revoked /\ ~link'[l].secret
             /\ l \notin sharing[a].live => link'[l] = link[l]
    <2>1. link[l] \in LinkRows
        BY DEF ShareInv, LinksTyped, LinkRows
    <2>2. CASE l \in sharing[a].live
        <3>1. link'[l] = [link[l] EXCEPT !.revoked = TRUE, !.secret = FALSE]
            BY <1>1, <2>2
        <3>2. QED
            BY <2>1, <2>2, <3>1 DEF LinkRows
    <2>3. CASE l \notin sharing[a].live
        <3>1. link'[l] = link[l]
            BY <1>1, <2>3
        <3>2. QED
            BY <2>1, <2>3, <3>1
    <2>4. QED
        BY <2>2, <2>3
<1> HIDE DEF new, fresh
<1>6. \A b \in ShareAdmins : /\ sharing[b].live \subseteq Links \ {new}
                        /\ sharing'[b].live = sharing[b].live
    <2>1. \A b \in ShareAdmins : sharing[b].live \subseteq Links
        BY DEF ShareInv, LinksTyped
    <2>2. \A b \in ShareAdmins : new \notin sharing[b].live
        BY <1>2 DEF ShareInv, HoldsMade
    <2>3. \A b \in ShareAdmins : sharing'[b].live = sharing[b].live
        BY <1>1, AdminTold
    <2>4. QED
        BY <2>1, <2>2, <2>3
<1>7. \A v \in Views : view[v].pc = "commit" \/ view[v].shows =>
          view[v].link \in Links \ {new}
    BY <1>2 DEF ShareInv, HoldsMade
<1>8. LinksTyped'
    <2>1. link' \in [Links -> LinkRows]
        BY <1>1, <1>3, <1>4, <1>5
    <2>2. QED
        BY <1>1, <2>1, AdminTold DEF ShareInv, LinksTyped, AdminRows, LinkRows
<1>9. \A b \in Shares!Making' : /\ b \in Shares!Making /\ b \in ShareAdmins \ {a}
                         /\ sharing'[b] = sharing[b]
                         /\ sharing[b].link \in Links \ {new}
    <2>1. \A b \in Shares!Making' : b \in Shares!Making /\ b \in ShareAdmins \ {a}
        BY <1>1, AdminTold DEF Shares!Making
    <2>2. \A b \in ShareAdmins \ {a} : sharing'[b] = sharing[b]
        BY <1>1, AdminTold
    <2>3. \A b \in Shares!Making \ {a} : sharing[b].link \in Links \ {new}
        BY <1>2 DEF ShareInv, MadeOnce, new
    <2>4. QED
        BY <2>1, <2>2, <2>3
<1>10. MadeOnce'
    BY <1>5, <1>9 DEF ShareInv, MadeOnce
<1>11. HoldsMade'
    <2>1. ASSUME NEW v \in Views, view'[v].pc = "commit" \/ view'[v].shows
          PROVE  view'[v].link \in Links /\ link'[view'[v].link].made
        <3>1. view'[v] = view[v] /\ view[v].link \in Links \ {new}
            BY <1>1, <1>7, <2>1
        <3>2. link[view[v].link].made
            BY <2>1, <3>1 DEF ShareInv, HoldsMade
        <3>3. QED
            BY <1>5, <3>1, <3>2
    <2>2. \A b \in ShareAdmins : \A l \in sharing'[b].live : link'[l].made
        BY <1>5, <1>6 DEF ShareInv, HoldsMade
    <2>3. \A b \in ShareAdmins : sharing'[b].pc = "revoke" =>
              sharing'[b].live = {sharing'[b].link} /\ sharing'[b].link \in Links
        BY <1>1, AdminTold DEF ShareInv, HoldsMade
    <2>4. QED
        BY <2>1, <2>2, <2>3 DEF HoldsMade
<1>12. Finished' /\ AskedBefore'
    <2>1. /\ sharing'[a].pc = "done"
          /\ \A b \in ShareAdmins \ {a} : sharing'[b] = sharing[b]
        BY <1>1, AdminTold
    <2>2. Finished'
        BY <1>1, <2>1 DEF ShareInv, Finished
    <2>3. AskedBefore'
        BY <1>1 DEF ShareInv, AskedBefore
    <2>4. QED
        BY <2>2, <2>3
<1>13. AnswersTrue'
    <2>1. \A v \in Views : view'[v].shows => link'[view'[v].link].used
        BY <1>1, <1>5, <1>7 DEF ShareInv, AnswersTrue
    <2>2. \A b \in ShareAdmins \ {a} : sharing'[b] = sharing[b]
        BY <1>1, AdminTold
    <2>3. \A b \in ShareAdmins \ {a} : sharing'[b].told =>
              \A l \in sharing'[b].live : link'[l].revoked
        BY <1>5, <1>6, <2>2 DEF ShareInv, AnswersTrue
    <2>4. \A l \in sharing'[a].live : link'[l].revoked
        BY <1>5, <1>6
    <2>5. QED
        BY <2>1, <2>3, <2>4 DEF AnswersTrue
<1>14. SecretsGone'
    BY <1>3, <1>4, <1>5 DEF ShareInv, SecretsGone
<1>15. OneLive'
    <2>1. CASE atOnce
        BY <1>1, <2>1 DEF OneLive
    <2>2. CASE ~atOnce
        <3>1. Shares!Live \subseteq sharing[a].live /\ \A b \in Shares!Making : a = b
            BY <1>2, <2>2 DEF ShareInv, OneLive
        <3>2. Shares!Live' \subseteq {new}
            BY <1>5, <3>1 DEF Shares!Live
        <3>3. Shares!Making' = {}
            BY <1>9, <3>1
        <3>4. QED
            BY <3>2, <3>3 DEF OneLive
    <2>3. QED
        BY <2>1, <2>2
<1>16. QED
    BY <1>8, <1>10, <1>11, <1>12, <1>13, <1>14, <1>15 DEF ShareInv

LEMMA ExpireStep ==
    ASSUME ShareInv, NEW l \in Links, Shares!Expire(l)
    PROVE  ShareInv'
<1> DEFINE row == [link[l] EXCEPT !.expired = TRUE]
<1>1. /\ link[l].made /\ UNCHANGED <<view, sharing, atOnce>>
      /\ link' = [link EXCEPT ![l] = row]
    BY DEF Shares!Expire
<1>2. /\ row \in LinkRows /\ row.expired
      /\ row.made = link[l].made /\ row.secret = link[l].secret
      /\ row.used = link[l].used /\ row.revoked = link[l].revoked
    <2>1. link[l] \in LinkRows
        BY DEF ShareInv, LinksTyped, LinkRows
    <2>2. QED
        BY <2>1 DEF LinkRows
<1> HIDE DEF row
<1>3. Taken
    BY <1>1, <1>2, TakenOne DEF ShareInv, SecretsGone
<1>4. LinksTyped'
    BY <1>1, <1>3 DEF ShareInv, LinksTyped, Taken, LinkRows
<1>5. MadeOnce' /\ Finished' /\ AskedBefore'
    BY <1>1, <1>3 DEF ShareInv, MadeOnce, Finished, AskedBefore, Taken,
       Shares!Making
<1>6. /\ \A a \in ShareAdmins : sharing[a].live \subseteq Links
      /\ \A v \in Views : view[v].shows => view[v].link \in Links
    BY DEF ShareInv, LinksTyped, HoldsMade
<1>7. HoldsMade'
    BY <1>1, <1>3, <1>6 DEF ShareInv, HoldsMade, Taken
<1>8. AnswersTrue'
    BY <1>1, <1>3, <1>6 DEF ShareInv, AnswersTrue, Taken
<1>9. OneLive' /\ SecretsGone'
    BY <1>1, <1>3, TakenKeepsLive DEF Shares!Making
<1>10. QED
    BY <1>4, <1>5, <1>7, <1>8, <1>9 DEF ShareInv

-----------------------------------------------------------------------------
LEMMA ShareInit == Shares!Init => ShareInv
<1> SUFFICES ASSUME Shares!Init PROVE ShareInv
    OBVIOUS
<1>1. LinksTyped
    BY DEF Shares!Init, LinksTyped, Shares!Unmade
<1>2. MadeOnce /\ HoldsMade /\ Finished /\ AnswersTrue /\ AskedBefore
    BY DEF Shares!Init, MadeOnce, HoldsMade, Finished, AnswersTrue, AskedBefore,
       Shares!Making
<1>3. SecretsGone /\ OneLive
    BY DEF Shares!Init, SecretsGone, OneLive, Shares!Making, Shares!Live,
       Shares!Unmade
<1>4. QED
    BY <1>1, <1>2, <1>3 DEF ShareInv

LEMMA ShareStep == ShareInv /\ [Shares!Next]_(Shares!vars) => ShareInv'
<1> SUFFICES ASSUME ShareInv, [Shares!Next]_(Shares!vars) PROVE ShareInv'
    OBVIOUS
<1>1. CASE UNCHANGED Shares!vars
    BY <1>1 DEF Shares!vars, ShareInv, LinksTyped, MadeOnce, HoldsMade, Finished,
       AnswersTrue,
       AskedBefore, SecretsGone, OneLive, Shares!Making, Shares!Live
<1>2. QED
    BY <1>1, VisitStep, ShowStep, LostVisit, GenerateStep, MakeStep, RevokeStep,
       RevokedStep, ExpireStep DEF Shares!Next

\* A visit that shows the secret was asked for before every answer that it is
\* gone, and of links that are live there is one.
LEMMA SharesSound == ShareInv => Shares!ShownOnce
<1> SUFFICES ASSUME ShareInv PROVE Shares!ShownOnce
    OBVIOUS
<1>1. \A v \in Views : view[v].shows => view[v].before = {}
    BY DEF ShareInv, AskedBefore
<1>2. atOnce \/ Cardinality(Shares!Live) <= 1
    <2>1. CASE Shares!Live = {}
        BY <2>1, FS_EmptySet
    <2>2. CASE atOnce
        BY <2>2
    <2>3. ASSUME ~atOnce, NEW l \in Shares!Live PROVE Cardinality(Shares!Live) = 1
        <3>1. Shares!Live = {l}
            BY <2>3 DEF ShareInv, OneLive
        <3>2. QED
            BY <3>1, FS_Singleton
    <2>4. QED
        BY <2>1, <2>2, <2>3
<1>3. Shares!Cardinality(Shares!Live) = Cardinality(Shares!Live)
    BY DEF Shares!Cardinality, Cardinality
<1>4. QED
    BY <1>1, <1>2, <1>3 DEF ShareInv, SecretsGone, Shares!ShownOnce

\* In the focus of a behaviour, its steps are the component's.
LEMMA SharesMove ==
    /\ Init /\ focus = "shares" => Shares!Init
    /\ [Next]_vars /\ focus = "shares" => [Shares!Next]_(Shares!vars)
BY DEF Init, Next, vars, Shares!vars

\* A secret is shown once, and never after an answer that it is gone; one link
\* is live at a time unless two were made at once; and a link that is used,
\* revoked or superseded keeps no secret (routers/share.py, routers/admin.py).
THEOREM SecretIsShownOnce ==
    /\ Shares!Spec => []Shares!ShownOnce
    /\ Spec => []ShownOnce
<1> DEFINE InFocus == focus = "shares" => ShareInv
<1>1. Shares!Init => ShareInv
    BY ShareInit
<1>2. ShareInv /\ [Shares!Next]_(Shares!vars) => ShareInv'
    BY ShareStep
<1>3. ShareInv => Shares!ShownOnce
    BY SharesSound
<1>4. Init => InFocus
    BY <1>1, SharesMove
<1>5. InFocus /\ [Next]_vars => InFocus'
    BY <1>2, SharesMove, FocusStays
<1>6. InFocus => ShownOnce
    BY <1>3 DEF ShownOnce
<1> HIDE DEF InFocus
<1>7. Shares!Spec => []Shares!ShownOnce
    BY <1>1, <1>2, <1>3, PTL DEF Shares!Spec
<1>8. Spec => []ShownOnce
    BY <1>4, <1>5, <1>6, PTL DEF Spec
<1>9. QED
    BY <1>7, <1>8

HIDE DEF link, view, sharing, atOnce

-----------------------------------------------------------------------------
(* Fleet. The node's row is s1, its requests s2, the sweep s3, the heartbeat *)
(* s4, the managers that answer s5; the history is in s6, s7 and s8. What the *)
(* proof turns on: a request that has not been overtaken writes back what is *)
(* still in the row, but for what it means to change.                      *)

node == s1
task == s2
sweep == s3
beat == s4
up == s5
word == s6
seenAt == s7
races == s8
asked == s9

USE DEF node, task, sweep, beat, up, word, seenAt, races, asked

NodeRows == [exists : BOOLEAN, enabled : BOOLEAN, url : Urls \cup {Nodes!None}, seen : 0 .. TTL]

NodeRequests == [pc : {"idle", "probe"},
             op : {Nodes!None, "create", "update", "check", "activate"},
             saw : NodeRows, of : Urls \cup {Nodes!None, Nodes!Beat}, overtaken : BOOLEAN]

NodeTyped ==
    /\ node \in NodeRows
    /\ task \in [Tasks -> NodeRequests]
    /\ sweep \in Urls \cup {Nodes!None}
    /\ seenAt \in Urls \cup {Nodes!None, Nodes!Beat}

\* What a request is to write, if nothing was written since it read the row.
StillHolds(t) ==
    task[t].pc = "probe" /\ task[t].op # "create" /\ ~task[t].overtaken =>
        /\ node.exists
        /\ task[t].of = seenAt
        /\ task[t].saw.enabled <=> (task[t].op = "activate" \/ node.enabled)
        /\ task[t].saw.seen < TTL => /\ node.seen <= task[t].saw.seen
                                     /\ task[t].saw.url = node.url

\* A node that is added is in, and has not been seen.
NewNode(t) ==
    task[t].pc = "probe" /\ task[t].op = "create" =>
        task[t].saw.enabled /\ task[t].saw.seen = TTL

FleetInv ==
    /\ NodeTyped /\ Nodes!OperatorsWord
    /\ \A t \in Tasks : StillHolds(t) /\ NewNode(t)

-----------------------------------------------------------------------------
\* Every request that has read the row is overtaken, but for one.
LEMMA OvertakeAll ==
    ASSUME FleetInv, NEW but
    PROVE  /\ Nodes!Overtake(but) \in [Tasks -> NodeRequests]
           /\ \A t \in Tasks : t # but =>
                 /\ Nodes!Overtake(but)[t].pc = task[t].pc
                 /\ Nodes!Overtake(but)[t].op = task[t].op
                 /\ Nodes!Overtake(but)[t].saw = task[t].saw
                 /\ task[t].pc = "probe" /\ task[t].op # "create" =>
                       Nodes!Overtake(but)[t].overtaken
           /\ \A t \in Tasks : t = but => Nodes!Overtake(but)[t] = task[t]
<1>1. ASSUME NEW t \in Tasks
      PROVE  /\ Nodes!Overtake(but)[t] \in NodeRequests
             /\ t # but =>
                 /\ Nodes!Overtake(but)[t].pc = task[t].pc
                 /\ Nodes!Overtake(but)[t].op = task[t].op
                 /\ Nodes!Overtake(but)[t].saw = task[t].saw
                 /\ task[t].pc = "probe" /\ task[t].op # "create" =>
                       Nodes!Overtake(but)[t].overtaken
             /\ t = but => Nodes!Overtake(but)[t] = task[t]
    <2>1. task[t] \in NodeRequests
        BY DEF FleetInv, NodeTyped
    <2>2. CASE t # but /\ task[t].pc = "probe" /\ task[t].op # "create"
        <3>1. Nodes!Overtake(but)[t] = [task[t] EXCEPT !.overtaken = TRUE]
            BY <2>2 DEF Nodes!Overtake
        <3>2. QED
            BY <2>1, <2>2, <3>1 DEF NodeRequests
    <2>3. CASE ~(t # but /\ task[t].pc = "probe" /\ task[t].op # "create")
        <3>1. Nodes!Overtake(but)[t] = task[t]
            BY <2>3 DEF Nodes!Overtake
        <3>2. QED
            BY <2>1, <2>3, <3>1
    <2>4. QED
        BY <2>2, <2>3
<1>2. Nodes!Overtake(but) = [t \in Tasks |-> Nodes!Overtake(but)[t]]
    BY DEF Nodes!Overtake
<1>3. QED
    BY <1>1, <1>2

\* A write of the row by no request: every one that has read it is overtaken.
LEMMA RowWritten ==
    ASSUME FleetInv, NEW none, none \notin Tasks, task' = Nodes!Overtake(none),
           node' \in NodeRows, sweep' \in Urls \cup {Nodes!None},
           seenAt' \in Urls \cup {Nodes!None, Nodes!Beat}, Nodes!OperatorsWord'
    PROVE  FleetInv'
<1>1. NodeTyped'
    BY OvertakeAll DEF NodeTyped
<1>2. ASSUME NEW t \in Tasks PROVE StillHolds(t)' /\ NewNode(t)'
    <2>1. /\ task'[t].pc = task[t].pc /\ task'[t].op = task[t].op
          /\ task'[t].saw = task[t].saw
          /\ task[t].pc = "probe" /\ task[t].op # "create" => task'[t].overtaken
        BY OvertakeAll
    <2>2. QED
        BY <2>1 DEF FleetInv, StillHolds, NewNode
<1>3. QED
    BY <1>1, <1>2 DEF FleetInv

\* A step that leaves the row and the requests alone.
LEMMA Elsewhere ==
    ASSUME FleetInv, UNCHANGED <<node, task, seenAt, word, races>>,
           sweep' \in Urls \cup {Nodes!None}
    PROVE  FleetInv'
BY DEF FleetInv, NodeTyped, Nodes!OperatorsWord, StillHolds, NewNode, Nodes!Seen

\* A request begins with the row as it is, or with a node to add.
LEMMA ProbingStep ==
    ASSUME TTL \in Nat, FleetInv, NEW t \in Tasks,
           NEW op \in {"create", "update", "check", "activate"}, NEW saw \in NodeRows,
           Nodes!Probing(t, op, saw),
           op = "create" => saw.enabled /\ saw.seen = TTL,
           op # "create" =>
              /\ node.exists
              /\ saw.enabled <=> (op = "activate" \/ node.enabled)
              /\ saw.seen < TTL => node.seen <= saw.seen /\ saw.url = node.url
    PROVE  FleetInv'
<1> DEFINE begun == [Nodes!Idle EXCEPT !.pc = "probe", !.op = op, !.saw = saw, !.of = seenAt]
<1>1. /\ task' = [task EXCEPT ![t] = begun]
      /\ UNCHANGED <<node, sweep, word, seenAt, races>>
    BY DEF Nodes!Probing
<1>2. Nodes!Idle \in NodeRequests /\ ~Nodes!Idle.overtaken
    BY DEF Nodes!Idle, Nodes!Absent, NodeRequests, NodeRows
<1>3. /\ begun \in NodeRequests
      /\ begun.pc = "probe" /\ begun.op = op /\ begun.saw = saw
      /\ begun.of = seenAt /\ ~begun.overtaken
    BY <1>2 DEF FleetInv, NodeTyped, NodeRequests
<1> HIDE DEF begun
<1>4. /\ task'[t] = begun
      /\ \A s \in Tasks \ {t} : task'[s] = task[s]
    BY <1>1 DEF FleetInv, NodeTyped
<1>5. NodeTyped'
    BY <1>1, <1>3 DEF FleetInv, NodeTyped
<1>6. Nodes!OperatorsWord'
    BY <1>1 DEF FleetInv, Nodes!OperatorsWord, Nodes!Seen
<1>7. StillHolds(t)' /\ NewNode(t)'
    BY <1>1, <1>3, <1>4 DEF StillHolds, NewNode
<1>8. \A s \in Tasks \ {t} : StillHolds(s)' /\ NewNode(s)'
    BY <1>1, <1>4 DEF FleetInv, StillHolds, NewNode
<1>9. QED
    BY <1>5, <1>6, <1>7, <1>8 DEF FleetInv

LEMMA ProbeBegins ==
    ASSUME TTL \in Nat, FleetInv, NEW t \in Tasks,
           \/ \E u \in Urls : Nodes!Create(t, u) \/ Nodes!Readdress(t, u)
           \/ Nodes!Check(t) \/ Nodes!Activate(t)
    PROVE  FleetInv'
<1>1. node \in NodeRows
    BY DEF FleetInv, NodeTyped
<1>2. ASSUME NEW u \in Urls, Nodes!Create(t, u) PROVE FleetInv'
    <2> DEFINE saw == [exists |-> TRUE, enabled |-> TRUE, url |-> u, seen |-> TTL]
    <2>1. saw \in NodeRows /\ saw.enabled /\ saw.seen = TTL
        BY DEF NodeRows
    <2> HIDE DEF saw
    <2>2. Nodes!Probing(t, "create", saw)
        BY <1>2 DEF Nodes!Create, saw
    <2>3. QED
        BY <2>1, <2>2, ProbingStep
<1>3. ASSUME NEW u \in Urls, Nodes!Readdress(t, u) PROVE FleetInv'
    <2> DEFINE saw == [node EXCEPT !.url = u, !.seen = TTL]
    <2>1. saw \in NodeRows /\ saw.seen = TTL
        <3> DEFINE moved == [node EXCEPT !.url = u]
        <3>1. moved \in NodeRows
            BY <1>1 DEF NodeRows
        <3>2. saw = [moved EXCEPT !.seen = TTL]
            OBVIOUS
        <3> HIDE DEF moved, saw
        <3>3. TTL \in 0 .. TTL
            OBVIOUS
        <3>4. QED
            BY <3>1, <3>2, <3>3 DEF NodeRows
    <2>0. saw.enabled <=> node.enabled
        BY <1>1 DEF NodeRows
    <2> HIDE DEF saw
    <2>2. Nodes!Probing(t, "update", saw) /\ node.exists
        BY <1>3 DEF Nodes!Readdress, saw
    <2>3. QED
        BY <2>0, <2>1, <2>2, ProbingStep
<1>4. CASE Nodes!Check(t)
    <2>1. node.exists /\ Nodes!Probing(t, "check", node) /\ node.seen <= node.seen
        BY <1>1, <1>4 DEF Nodes!Check, NodeRows
    <2>2. QED
        BY <1>1, <2>1, ProbingStep
<1>5. CASE Nodes!Activate(t)
    <2> DEFINE saw == [node EXCEPT !.enabled = TRUE]
    <2>1. saw \in NodeRows /\ saw.enabled /\ saw.seen = node.seen /\ saw.url = node.url
        BY <1>1 DEF NodeRows
    <2> HIDE DEF saw
    <2>2. Nodes!Probing(t, "activate", saw) /\ node.exists
        BY <1>5 DEF Nodes!Activate, saw
    <2>3. saw.enabled <=> ("activate" = "activate" \/ node.enabled)
        BY <2>1
    <2>4. saw.seen <= saw.seen
        BY <2>1 DEF NodeRows
    <2>5. QED
        BY <2>1, <2>2, <2>3, <2>4, ProbingStep
<1>6. QED
    BY <1>2, <1>3, <1>4, <1>5

\* The answer of a probe, and the row as it was read.
LEMMA WriteBackStep ==
    ASSUME TTL \in Nat, FleetInv, NEW t \in Tasks, Nodes!WriteBack(t)
    PROVE  FleetInv'
<1> DEFINE answered == task[t].saw.url \in up
           written == [task[t].saw EXCEPT !.seen = IF answered THEN 0 ELSE @]
<1>1. Nodes!Idle \in NodeRequests /\ Nodes!Idle.pc = "idle"
    BY DEF Nodes!Idle, Nodes!Absent, NodeRequests, NodeRows
<1>2. task[t] \in NodeRequests /\ task[t].saw \in NodeRows /\ sweep' = sweep
      /\ task[t].pc = "probe"
    BY DEF FleetInv, NodeTyped, Nodes!WriteBack, NodeRequests
<1>3. CASE (task[t].op = "create") = node.exists
    <2>1. /\ task' = [task EXCEPT ![t] = Nodes!Idle]
          /\ UNCHANGED <<node, word, seenAt, races>>
        BY <1>3 DEF Nodes!WriteBack
    <2>2. /\ task'[t] = Nodes!Idle
          /\ \A s \in Tasks \ {t} : task'[s] = task[s]
        BY <2>1 DEF FleetInv, NodeTyped
    <2>3. NodeTyped'
        BY <1>1, <1>2, <2>1 DEF FleetInv, NodeTyped
    <2>4. Nodes!OperatorsWord'
        BY <2>1 DEF FleetInv, Nodes!OperatorsWord, Nodes!Seen
    <2>5. \A s \in Tasks : StillHolds(s)' /\ NewNode(s)'
        BY <1>1, <2>1, <2>2 DEF FleetInv, StillHolds, NewNode
    <2>6. QED
        BY <2>3, <2>4, <2>5 DEF FleetInv
<1>4. CASE (task[t].op = "create") # node.exists
    <2>1. /\ node' = written
          /\ word' = IF task[t].op \in {"activate", "create"} THEN "in" ELSE word
          /\ seenAt' = IF answered THEN task[t].saw.url ELSE task[t].of
          /\ races' = IF task[t].overtaken THEN races \cup {"overwritten"} ELSE races
          /\ task' = [Nodes!Overtake(t) EXCEPT ![t] = Nodes!Idle]
        BY <1>4 DEF Nodes!WriteBack
    <2>2. /\ written \in NodeRows
          /\ written.enabled = task[t].saw.enabled
          /\ written.url = task[t].saw.url
          /\ written.seen = IF answered THEN 0 ELSE task[t].saw.seen
        BY <1>2 DEF NodeRows
    <2>3. seenAt' \in Urls \cup {Nodes!None, Nodes!Beat}
        BY <1>2, <2>1 DEF NodeRequests, NodeRows
    <2> HIDE DEF written
    <2>4. /\ task' \in [Tasks -> NodeRequests]
          /\ task'[t] = Nodes!Idle
          /\ \A s \in Tasks \ {t} : task'[s] = Nodes!Overtake(t)[s]
        BY <1>1, <2>1, OvertakeAll
    <2>5. NodeTyped'
        BY <1>2, <2>1, <2>2, <2>3, <2>4 DEF FleetInv, NodeTyped
    <2>6. \A s \in Tasks : StillHolds(s)' /\ NewNode(s)'
        <3>1. StillHolds(t)' /\ NewNode(t)'
            BY <1>1, <2>4 DEF StillHolds, NewNode
        <3>2. ASSUME NEW s \in Tasks \ {t} PROVE StillHolds(s)' /\ NewNode(s)'
            <4>1. /\ task'[s].pc = task[s].pc /\ task'[s].op = task[s].op
                  /\ task'[s].saw = task[s].saw
                  /\ task[s].pc = "probe" /\ task[s].op # "create" =>
                        task'[s].overtaken
                BY <2>4, OvertakeAll
            <4>2. QED
                BY <4>1 DEF FleetInv, StillHolds, NewNode
        <3>3. QED
            BY <3>1, <3>2
    <2>7. Nodes!OperatorsWord'
        <3>1. CASE task[t].overtaken
            <4>1. "overwritten" \in races'
                BY <2>1, <3>1
            <4>2. QED
                BY <4>1 DEF Nodes!OperatorsWord
        <3>2. CASE ~task[t].overtaken /\ task[t].op = "create"
            <4>1. task[t].saw.enabled /\ task[t].saw.seen = TTL
                BY <1>2, <3>2 DEF FleetInv, NewNode
            <4>2. node'.enabled = TRUE /\ word' = "in"
                BY <2>1, <2>2, <3>2, <4>1 DEF NodeRows
            <4>3. ~Nodes!Seen' \/ seenAt' = node'.url
                BY <2>1, <2>2, <4>1 DEF Nodes!Seen
            <4>4. QED
                BY <4>2, <4>3 DEF Nodes!OperatorsWord
        <3>3. CASE ~task[t].overtaken /\ task[t].op # "create"
            <4>0. node \in NodeRows /\ task[t].saw \in NodeRows
                BY <1>2 DEF FleetInv, NodeTyped
            <4>1. /\ node.exists
                  /\ task[t].of = seenAt
                  /\ task[t].saw.enabled <=> (task[t].op = "activate" \/ node.enabled)
                  /\ task[t].saw.seen < TTL => /\ node.seen <= task[t].saw.seen
                                     /\ task[t].saw.url = node.url
                BY <1>2, <3>3 DEF FleetInv, StillHolds
            <4>2. /\ "overwritten" \in races \/ node.enabled = (word = "in")
                  /\ races # {} \/ (node.seen < TTL => seenAt \in {node.url, Nodes!Beat})
                BY <4>1 DEF FleetInv, Nodes!OperatorsWord, Nodes!Seen
            <4>3. races' = races
                BY <2>1, <3>3
            <4>4. "overwritten" \in races' \/ node'.enabled = (word' = "in")
                <5>1. CASE task[t].op = "activate"
                    <6>1. node'.enabled = TRUE /\ (word' = "in") = TRUE
                        BY <2>1, <2>2, <4>0, <4>1, <5>1 DEF NodeRows
                    <6>2. QED
                        BY <6>1
                <5>2. CASE task[t].op # "activate"
                    <6>1. word' = word
                        BY <2>1, <3>3, <5>2
                    <6>2. task[t].saw.enabled <=> node.enabled
                        BY <4>1, <5>2
                    <6>3. node'.enabled = node.enabled
                        BY <2>1, <2>2, <4>0, <6>2 DEF NodeRows
                    <6>4. QED
                        BY <4>2, <4>3, <6>1, <6>3
                <5>3. QED
                    BY <5>1, <5>2
            <4>5. races' # {} \/ (node'.seen < TTL => seenAt' \in {node'.url, Nodes!Beat})
                <5>1. task[t].saw.seen < TTL => node.seen < TTL /\ task[t].saw.url = node.url
                    BY <4>0, <4>1 DEF NodeRows
                <5>2. QED
                    BY <2>1, <2>2, <4>1, <4>2, <4>3, <5>1
            <4>6. QED
                BY <4>4, <4>5 DEF Nodes!OperatorsWord, Nodes!Seen
        <3>4. QED
            BY <3>1, <3>2, <3>3
    <2>8. QED
        BY <2>5, <2>6, <2>7 DEF FleetInv
<1>5. QED
    BY <1>3, <1>4

LEMMA CordonStep ==
    ASSUME Nodes!None \notin Tasks, TTL \in Nat, FleetInv, Nodes!Deactivate \/ Nodes!Delete
    PROVE  FleetInv'
<1>1. node \in NodeRows /\ sweep' \in Urls \cup {Nodes!None} /\ task' = Nodes!Overtake(Nodes!None)
    BY DEF FleetInv, NodeTyped, Nodes!Deactivate, Nodes!Delete
<1>2. CASE Nodes!Deactivate
    <2>1. /\ node' \in NodeRows /\ ~node'.enabled /\ node'.seen = node.seen
          /\ node'.url = node.url /\ node.exists
          /\ word' = "out" /\ races' = races /\ seenAt' = seenAt
        BY <1>1, <1>2 DEF Nodes!Deactivate, NodeRows
    <2>2. node'.enabled = (word' = "in")
        <3>1. node'.enabled = FALSE /\ (word' = "in") = FALSE
            BY <2>1 DEF NodeRows
        <3>2. QED
            BY <3>1
    <2>3. races' # {} \/ (Nodes!Seen' => seenAt' \in {node'.url, Nodes!Beat})
        BY <2>1 DEF FleetInv, Nodes!OperatorsWord, Nodes!Seen
    <2>4. Nodes!OperatorsWord' /\ seenAt' \in Urls \cup {Nodes!None, Nodes!Beat}
        BY <2>1, <2>2, <2>3 DEF FleetInv, NodeTyped, Nodes!OperatorsWord
    <2>5. QED
        BY <1>1, <2>1, <2>4, RowWritten
<1>3. CASE Nodes!Delete
    <2>1. node' \in NodeRows /\ ~node'.exists /\ seenAt' = Nodes!None
        BY <1>3 DEF Nodes!Delete, Nodes!Absent, NodeRows
    <2>2. Nodes!OperatorsWord'
        BY <2>1 DEF Nodes!OperatorsWord
    <2>3. QED
        BY <1>1, <2>1, <2>2, RowWritten
<1>4. QED
    BY <1>2, <1>3

\* A sighting writes no more than the observation.
LEMMA StampStep ==
    ASSUME Nodes!None \notin Tasks, TTL \in Nat, FleetInv,
           NEW what \in Urls \cup {Nodes!Beat}, Nodes!Stamp(what), UNCHANGED word,
           races \subseteq races', sweep' \in Urls \cup {Nodes!None},
           node.exists => what \in {node.url, Nodes!Beat} \/ races' # {}
    PROVE  FleetInv'
<1>1. node \in NodeRows
    BY DEF FleetInv, NodeTyped
<1>2. /\ node' \in NodeRows /\ node'.exists = node.exists
      /\ node'.enabled = node.enabled /\ node'.url = node.url
    BY <1>1 DEF Nodes!Stamp, NodeRows
<1>3. seenAt' \in Urls \cup {Nodes!None, Nodes!Beat} /\ (node.exists => seenAt' = what)
    BY DEF FleetInv, NodeTyped, Nodes!Stamp
<1>4. Nodes!OperatorsWord'
    BY <1>2, <1>3 DEF FleetInv, Nodes!OperatorsWord, Nodes!Seen
<1>5. QED
    BY <1>2, <1>3, <1>4, RowWritten DEF Nodes!Stamp

\* Time passes for the row and for what was read of it alike.
LEMMA NodeTicks ==
    ASSUME TTL \in Nat, FleetInv, Nodes!Tick
    PROVE  FleetInv'
<1>1. ASSUME NEW r \in NodeRows
      PROVE  /\ Nodes!Older(r) \in NodeRows
             /\ Nodes!Older(r).exists = r.exists /\ Nodes!Older(r).enabled = r.enabled
             /\ Nodes!Older(r).url = r.url
             /\ Nodes!Older(r).seen = IF r.seen < TTL THEN r.seen + 1 ELSE TTL
    BY DEF Nodes!Older, NodeRows
<1>2. /\ node \in NodeRows
      /\ \A t \in Tasks : task[t] \in NodeRequests /\ task[t].saw \in NodeRows
    BY DEF FleetInv, NodeTyped, NodeRequests
<1>3. node' = Nodes!Older(node) /\ UNCHANGED <<sweep, word, seenAt, races>>
    BY DEF Nodes!Tick
<1>4. ASSUME NEW t \in Tasks
      PROVE  /\ task'[t] \in NodeRequests
             /\ task'[t].pc = task[t].pc /\ task'[t].op = task[t].op
             /\ task'[t].of = task[t].of /\ task'[t].overtaken = task[t].overtaken
             /\ task'[t].saw = Nodes!Older(task[t].saw)
    <2>1. task'[t] = [task[t] EXCEPT !.saw = Nodes!Older(@)]
        BY DEF Nodes!Tick
    <2>2. QED
        BY <1>1, <1>2, <2>1 DEF NodeRequests
<1>5. NodeTyped'
    <2>1. task' = [t \in Tasks |-> task'[t]]
        BY DEF Nodes!Tick
    <2>2. task' \in [Tasks -> NodeRequests]
        BY <1>4, <2>1
    <2>3. QED
        BY <1>1, <1>2, <1>3, <2>2 DEF FleetInv, NodeTyped
<1>6. Nodes!OperatorsWord'
    <2>1. node'.seen < TTL => node.seen < TTL
        BY <1>1, <1>2, <1>3
    <2>2. QED
        BY <1>1, <1>2, <1>3, <2>1 DEF FleetInv, Nodes!OperatorsWord, Nodes!Seen
<1>7. ASSUME NEW t \in Tasks PROVE StillHolds(t)' /\ NewNode(t)'
    <2> DEFINE saw == task[t].saw
    <2>1. /\ saw \in NodeRows /\ node.seen \in 0 .. TTL /\ saw.seen \in 0 .. TTL
          /\ task'[t].saw.exists = saw.exists
          /\ task'[t].saw.enabled = saw.enabled
          /\ task'[t].saw.url = saw.url
          /\ task'[t].saw.seen = IF saw.seen < TTL THEN saw.seen + 1 ELSE TTL
          /\ node'.seen = IF node.seen < TTL THEN node.seen + 1 ELSE TTL
          /\ node'.exists = node.exists /\ node'.enabled = node.enabled
          /\ node'.url = node.url
        BY <1>1, <1>2, <1>3, <1>4 DEF NodeRows
    <2>2. NewNode(t)'
        BY <1>4, <2>1 DEF FleetInv, NewNode
    <2>3. StillHolds(t)'
        BY <1>3, <1>4, <2>1 DEF FleetInv, StillHolds
    <2>4. QED
        BY <2>2, <2>3
<1>8. QED
    BY <1>5, <1>6, <1>7 DEF FleetInv

-----------------------------------------------------------------------------
LEMMA FleetInit ==
    ASSUME TTL \in Nat, Nodes!Init
    PROVE  FleetInv
<1>1. Nodes!Idle \in NodeRequests /\ Nodes!Idle.pc = "idle"
    BY DEF Nodes!Idle, Nodes!Absent, NodeRequests, NodeRows
<1>2. NodeTyped
    BY <1>1 DEF Nodes!Init, NodeTyped, Nodes!Absent, NodeRows
<1>3. Nodes!OperatorsWord
    BY DEF Nodes!Init, Nodes!OperatorsWord, Nodes!Absent
<1>4. \A t \in Tasks : StillHolds(t) /\ NewNode(t)
    BY <1>1 DEF Nodes!Init, StillHolds, NewNode
<1>5. QED
    BY <1>2, <1>3, <1>4 DEF FleetInv

LEMMA FleetStep ==
    ASSUME Nodes!None \notin Tasks, TTL \in Nat, FleetInv, [Nodes!Next]_(Nodes!vars)
    PROVE  FleetInv'
<1>1. sweep \in Urls \cup {Nodes!None} /\ node \in NodeRows
    BY DEF FleetInv, NodeTyped
<1>2. ASSUME NEW t \in Tasks, NEW u \in Urls, Nodes!Create(t, u) \/ Nodes!Readdress(t, u)
      PROVE  FleetInv'
    BY <1>2, ProbeBegins
<1>3. ASSUME NEW t \in Tasks, Nodes!Check(t) \/ Nodes!Activate(t) \/ Nodes!WriteBack(t)
      PROVE  FleetInv'
    BY <1>3, ProbeBegins, WriteBackStep
<1>4. CASE Nodes!Deactivate \/ Nodes!Delete
    BY <1>4, CordonStep
<1>5. CASE Nodes!Heartbeat
    BY <1>1, <1>5, StampStep DEF Nodes!Heartbeat
<1>6. CASE Nodes!BeatChanges
    BY <1>1, <1>6, Elsewhere DEF Nodes!BeatChanges
<1>7. CASE Nodes!SweepBegins
    BY <1>1, <1>7, Elsewhere DEF Nodes!SweepBegins, NodeRows
<1>8. CASE Nodes!SweepEnds
    <2>1. CASE sweep \in up
        <3>1. /\ Nodes!Stamp(sweep) /\ sweep \in Urls /\ UNCHANGED word /\ sweep' = Nodes!None
              /\ races \subseteq races'
              /\ node.exists => sweep = node.url \/ races' # {}
            BY <1>1, <1>8, <2>1 DEF Nodes!SweepEnds
        <3>2. QED
            BY <3>1, StampStep
    <2>2. CASE sweep \notin up
        BY <1>8, <2>2, Elsewhere DEF Nodes!SweepEnds
    <2>3. QED
        BY <2>1, <2>2
<1>9. ASSUME NEW u \in Urls, Nodes!UpChanges(u) PROVE FleetInv'
    BY <1>1, <1>9, Elsewhere DEF Nodes!UpChanges
<1>10. CASE Nodes!Tick
    BY <1>10, NodeTicks
<1>11. CASE UNCHANGED Nodes!vars
    BY <1>1, <1>11, Elsewhere DEF Nodes!vars
<1>12. QED
    BY <1>2, <1>3, <1>4, <1>5, <1>6, <1>7, <1>8, <1>9, <1>10, <1>11 DEF Nodes!Next

\* In the focus of a behaviour, its steps are the component's.
LEMMA NodesMove ==
    /\ Init /\ focus = "nodes" => Nodes!Init
    /\ [Next]_vars /\ focus = "nodes" => [Nodes!Next]_(Nodes!vars)
BY DEF Init, Next, vars, Nodes!vars

\* A node is enabled exactly if that was the operator's last word, and one that
\* counts as alive was seen where the registry says it is, whatever requests,
\* sweeps and heartbeats overlap, but for the two races the property names
\* (fleet_routes.py, fleet_sweep.py).
THEOREM OperatorsWordStands ==
    /\ Nodes!Spec => []Nodes!OperatorsWord
    /\ Spec => []OperatorsWord
<1> DEFINE InFocus == focus = "nodes" => FleetInv
<1>1. Nodes!Init => FleetInv
    BY FleetInit, ServicesAssumption
<1>2. FleetInv /\ [Nodes!Next]_(Nodes!vars) => FleetInv'
    BY FleetStep, ServicesAssumption
<1>3. FleetInv => Nodes!OperatorsWord
    BY DEF FleetInv
<1>4. Init => InFocus
    BY <1>1, NodesMove
<1>5. InFocus /\ [Next]_vars => InFocus'
    BY <1>2, NodesMove, FocusStays
<1>6. InFocus => OperatorsWord
    BY <1>3 DEF OperatorsWord
<1> HIDE DEF InFocus
<1>7. Nodes!Spec => []Nodes!OperatorsWord
    BY <1>1, <1>2, <1>3, PTL DEF Nodes!Spec
<1>8. Spec => []OperatorsWord
    BY <1>4, <1>5, <1>6, PTL DEF Spec
<1>9. QED
    BY <1>7, <1>8

HIDE DEF node, task, sweep, beat, up, word, seenAt, races, asked

-----------------------------------------------------------------------------
(* Credentials. The clock is s1, the client's row s2, its revocation key s3, *)
(* the admin requests s4, the token requests s5, the tokens s6; s9 is the  *)
(* history. What the proof turns on: a lone endpoint commits to the row it *)
(* read, and the key it then writes covers every token that was not issued *)
(* behind its back.                                                        *)

now == s1
client == s2
revoked == s3
admin == s4
grant == s5
tokens == s6
ops == s7
faults == s8
excuse == s9

USE DEF now, client, revoked, admin, grant, tokens, ops, faults, excuse

AdminRequests == [pc : {"idle", "commit", "key"}, op : Clients!Endpoints, saw : Clients!Row, ttl : TTLs]

ClientTyped ==
    /\ now \in Nat /\ revoked \in Nat
    /\ client \in Clients!Row
    /\ admin \in [Admins -> AdminRequests]
    /\ grant \in [Grants -> [pc : {"idle", "issue"}, saw : Clients!Row]]
    /\ tokens \subseteq [exp : Nat, stray : BOOLEAN]

DeletedIsInactive == ~client.exists => ~client.active

\* The key outlives the life of every token that counts.
Covered == \A t \in tokens : t.stray \/ t.exp <= now \/ t.exp <= revoked

KeyMatchesRow == IF client.active THEN revoked <= now ELSE Covered

\* One request at a time: what it read still holds when it commits, and its
\* command is the one that the row it wrote calls for.
Alone ==
    /\ \A a, b \in Clients!Busy : a = b
    /\ \A a \in Clients!Busy : admin[a].pc = "commit" =>
          /\ admin[a].saw = client /\ client.exists
          /\ admin[a].op = "reactivate" => ~client.active
    /\ \A a \in Clients!Busy : admin[a].pc = "key" =>
          /\ admin[a].op # "update"
          /\ admin[a].op = "reactivate" <=> client.active

Agreed ==
    excuse = {} => /\ Alone
                   /\ (\A a \in Clients!Busy : admin[a].pc = "commit") => KeyMatchesRow

ClientInv == ClientTyped /\ DeletedIsInactive /\ Agreed

Lifetimes == TTLs \subseteq Nat /\ FirstTTL \in TTLs /\ Leeway \in Nat

-----------------------------------------------------------------------------
LEMMA AdminWritten ==
    ASSUME ClientTyped, NEW a \in Admins, NEW r \in AdminRequests,
           admin' = [admin EXCEPT ![a] = r]
    PROVE  /\ admin' \in [Admins -> AdminRequests]
           /\ admin'[a] = r
           /\ \A b \in Admins \ {a} : admin'[b] = admin[b]
           /\ r.pc # "idle" => Clients!Busy' = Clients!Busy \cup {a}
           /\ r.pc = "idle" => Clients!Busy' = Clients!Busy \ {a}
<1>1. /\ admin' \in [Admins -> AdminRequests]
      /\ admin'[a] = r
      /\ \A b \in Admins \ {a} : admin'[b] = admin[b]
    BY DEF ClientTyped
<1>2. QED
    BY <1>1 DEF Clients!Busy

\* The request of a slot moves on.
LEMMA Moved ==
    ASSUME ClientTyped, NEW a \in Admins, NEW place \in {"idle", "commit", "key"}
    PROVE  LET r == [admin[a] EXCEPT !.pc = place]
           IN  /\ r \in AdminRequests
               /\ r.pc = place /\ r.op = admin[a].op
               /\ r.saw = admin[a].saw /\ r.ttl = admin[a].ttl
<1>1. admin[a] \in AdminRequests
    BY DEF ClientTyped
<1>2. QED
    BY <1>1 DEF AdminRequests

LEMMA EndpointBegins ==
    ASSUME ClientInv, NEW a \in Admins, NEW op \in Clients!Endpoints, NEW ttl \in TTLs,
           Clients!Begin(a, op, ttl)
    PROVE  ClientInv'
<1> DEFINE r == [pc |-> "commit", op |-> op, saw |-> client, ttl |-> ttl]
<1>1. /\ admin' = [admin EXCEPT ![a] = r]
      /\ UNCHANGED <<now, client, revoked, grant, tokens>>
      /\ client.exists /\ (op = "reactivate" => ~client.active)
      /\ admin[a].pc = "idle"
      /\ excuse' = IF Clients!Busy = {} THEN excuse ELSE excuse \cup {"overlap"}
    BY DEF Clients!Begin
<1>2. /\ r \in AdminRequests
      /\ r.pc = "commit" /\ r.op = op /\ r.saw = client
    BY DEF ClientInv, ClientTyped, AdminRequests
<1> HIDE DEF r
<1>3. /\ admin' \in [Admins -> AdminRequests]
      /\ admin'[a] = r
      /\ Clients!Busy' = Clients!Busy \cup {a}
    BY <1>1, <1>2, AdminWritten DEF ClientInv
<1>4. ClientTyped' /\ DeletedIsInactive'
    BY <1>1, <1>3 DEF ClientInv, ClientTyped, DeletedIsInactive
<1>5. ASSUME excuse' = {} PROVE Alone' /\ KeyMatchesRow'
    <2>1. Clients!Busy = {} /\ excuse = {}
        BY <1>1, <1>5
    <2>2. Alone'
        BY <1>1, <1>2, <1>3, <2>1 DEF Alone
    <2>3. KeyMatchesRow'
        BY <1>1, <2>1 DEF ClientInv, Agreed, KeyMatchesRow, Covered
    <2>4. QED
        BY <2>2, <2>3
<1>6. QED
    BY <1>4, <1>5 DEF ClientInv, Agreed

\* A column is written if it differs from what was read.
LEMMA WrittenRow ==
    ASSUME ClientTyped, NEW saw, NEW active \in BOOLEAN, NEW ttl \in TTLs
    PROVE  LET w == Clients!Written(saw, active, ttl)
           IN  /\ w \in Clients!Row
               /\ w.exists = client.exists
               /\ saw = client => w.active = active
<1>1. client \in Clients!Row
    BY DEF ClientTyped
<1> DEFINE w == Clients!Written(saw, active, ttl)
<1>2. w \in Clients!Row /\ w.exists = client.exists
      /\ w.active = IF saw.active = active THEN client.active ELSE active
    BY <1>1 DEF Clients!Written, Clients!Row
<1>3. QED
    BY <1>2

LEMMA CommitStep ==
    ASSUME ClientInv, NEW a \in Admins, Clients!Commit(a)
    PROVE  ClientInv'
<1> DEFINE op == admin[a].op
           saw == admin[a].saw
           place == IF client.exists /\ op # "update" THEN "key" ELSE "idle"
           r == [admin[a] EXCEPT !.pc = place]
<1>1. /\ admin[a].pc = "commit" /\ a \in Clients!Busy
      /\ UNCHANGED <<now, revoked, grant, tokens, excuse>>
      /\ IF client.exists THEN client' = Clients!Committed(a) ELSE UNCHANGED client
      /\ admin' = [admin EXCEPT ![a] = r]
    BY DEF Clients!Commit, Clients!Ends, Clients!Busy
<1>2. admin[a] \in AdminRequests /\ op \in Clients!Endpoints /\ saw \in Clients!Row
    BY DEF ClientInv, ClientTyped, AdminRequests
<1>3. /\ r \in AdminRequests
      /\ r.pc = place /\ r.op = op
    BY Moved DEF ClientInv
<1>4. /\ client' \in Clients!Row
      /\ client.exists => client'.exists \/ ~client'.active
      /\ client.exists /\ saw = client =>
            /\ op \in {"deactivate", "delete"} => ~client'.active
            /\ op = "reactivate" => client'.active
            /\ op = "update" => client'.active = client.active
    <2>1. CASE ~client.exists
        BY <1>1, <2>1 DEF ClientInv, ClientTyped
    <2>2. CASE client.exists /\ op = "deactivate"
        <3>1. client' = Clients!Written(saw, FALSE, saw.ttl) /\ saw.ttl \in TTLs
            BY <1>1, <1>2, <2>2 DEF Clients!Committed, Clients!Row
        <3>2. QED
            BY <2>2, <3>1, WrittenRow DEF ClientInv
    <2>3. CASE client.exists /\ op = "reactivate"
        <3>1. client' = Clients!Written(saw, TRUE, saw.ttl) /\ saw.ttl \in TTLs
            BY <1>1, <1>2, <2>3 DEF Clients!Committed, Clients!Row
        <3>2. QED
            BY <2>3, <3>1, WrittenRow DEF ClientInv
    <2>4. CASE client.exists /\ op = "update"
        <3>1. /\ client' = Clients!Written(saw, saw.active, admin[a].ttl)
              /\ saw.active \in BOOLEAN /\ admin[a].ttl \in TTLs
            BY <1>1, <1>2, <2>4 DEF Clients!Committed, Clients!Row, AdminRequests
        <3>2. QED
            BY <2>4, <3>1, WrittenRow DEF ClientInv
    <2>5. CASE client.exists /\ op = "delete"
        <3>1. client' = [client EXCEPT !.exists = FALSE, !.active = FALSE]
            BY <1>1, <2>5 DEF Clients!Committed
        <3>2. client' \in Clients!Row /\ ~client'.active
            BY <3>1 DEF ClientInv, ClientTyped, Clients!Row
        <3>3. QED
            BY <2>5, <3>2
    <2>6. QED
        BY <1>2, <2>1, <2>2, <2>3, <2>4, <2>5 DEF Clients!Endpoints
<1>5. DeletedIsInactive'
    BY <1>1, <1>4 DEF ClientInv, DeletedIsInactive
<1> HIDE DEF r
<1>6. /\ admin' \in [Admins -> AdminRequests]
      /\ admin'[a] = r
      /\ Clients!Busy' = IF place = "idle" THEN Clients!Busy \ {a} ELSE Clients!Busy \cup {a}
    BY <1>1, <1>3, AdminWritten DEF ClientInv
<1>7. ClientTyped'
    BY <1>1, <1>4, <1>6 DEF ClientInv, ClientTyped
<1>8. ASSUME excuse' = {}
      PROVE  Alone' /\ ((\A b \in Clients!Busy' : admin'[b].pc = "commit") => KeyMatchesRow')
    <2>1. /\ Clients!Busy = {a} /\ saw = client /\ client.exists
          /\ KeyMatchesRow
        BY <1>1, <1>8 DEF ClientInv, Agreed, Alone
    <2>2. CASE op = "update"
        <3>1. Clients!Busy' = {} /\ client'.active = client.active
            BY <1>4, <1>6, <2>1, <2>2
        <3>2. KeyMatchesRow'
            BY <1>1, <2>1, <3>1 DEF KeyMatchesRow, Covered
        <3>3. QED
            BY <3>1, <3>2 DEF Alone
    <2>3. CASE op # "update"
        <3>1. Clients!Busy' = {a} /\ admin'[a].pc = "key" /\ admin'[a].op = op
            BY <1>3, <1>6, <2>1, <2>3
        <3>2. op = "reactivate" <=> client'.active
            BY <1>2, <1>4, <2>1, <2>3 DEF Clients!Endpoints
        <3>3. QED
            BY <2>3, <3>1, <3>2 DEF Alone
    <2>4. QED
        BY <2>2, <2>3
<1>9. QED
    BY <1>5, <1>7, <1>8 DEF ClientInv, Agreed

\* A key that is written, or fails to be: the request is over.
LEMMA KeyStep ==
    ASSUME Lifetimes, ClientInv, NEW a \in Admins, Clients!Key(a) \/ Clients!KeyFails(a)
    PROVE  ClientInv'
<1> DEFINE r == [admin[a] EXCEPT !.pc = "idle"]
           op == admin[a].op
           expires == now + admin[a].saw.ttl
<1>1. /\ admin[a].pc = "key" /\ a \in Clients!Busy
      /\ UNCHANGED <<now, client, grant, tokens>>
      /\ admin' = [admin EXCEPT ![a] = r]
    BY DEF Clients!Key, Clients!KeyFails, Clients!Ends, Clients!Busy
<1>2. expires \in Nat
    <2>1. admin[a] \in AdminRequests /\ now \in Nat
        BY DEF ClientInv, ClientTyped
    <2>2. admin[a].saw.ttl \in TTLs
        BY <2>1 DEF AdminRequests, Clients!Row
    <2>3. admin[a].saw.ttl \in Nat
        BY <2>2 DEF Lifetimes
    <2>4. QED
        BY <2>1, <2>3
<1>3. r \in AdminRequests /\ r.pc = "idle"
    BY Moved DEF ClientInv
<1> HIDE DEF r
<1>4. admin' \in [Admins -> AdminRequests] /\ Clients!Busy' = Clients!Busy \ {a}
    BY <1>1, <1>3, AdminWritten DEF ClientInv
<1>5. ClientTyped' /\ DeletedIsInactive'
    <2>1. revoked' \in Nat
        BY <1>2 DEF Clients!Key, Clients!KeyFails, ClientInv, ClientTyped
    <2>2. QED
        BY <1>1, <1>4, <2>1 DEF ClientInv, ClientTyped, DeletedIsInactive
<1>6. ASSUME excuse' = {} PROVE Alone' /\ KeyMatchesRow'
    <2>1. Clients!Key(a) /\ excuse = {}
        BY <1>6 DEF Clients!Key, Clients!KeyFails
    <2>2. /\ Clients!Busy = {a}
          /\ op = "reactivate" <=> client.active
        BY <1>1, <2>1 DEF ClientInv, Agreed, Alone
    <2>3. Alone'
        BY <1>4, <2>2 DEF Alone
    <2>4. CASE op = "reactivate"
        <3>1. revoked' = 0 /\ client'.active /\ now' \in Nat
            BY <1>1, <2>1, <2>2, <2>4 DEF Clients!Key, ClientInv, ClientTyped
        <3>2. QED
            BY <2>3, <3>1 DEF KeyMatchesRow
    <2>5. CASE op # "reactivate"
        <3>1. /\ revoked' = expires /\ ~client'.active /\ tokens' = tokens
              /\ {t \in tokens : t.exp > expires} = {}
            BY <1>1, <1>6, <2>1, <2>2, <2>5 DEF Clients!Key
        <3>2. \A t \in tokens : t.exp \in Nat /\ ~(t.exp > expires)
            BY <3>1 DEF ClientInv, ClientTyped
        <3>3. Covered'
            BY <1>2, <3>1, <3>2 DEF Covered
        <3>4. QED
            BY <2>3, <3>1, <3>3 DEF KeyMatchesRow
    <2>6. QED
        BY <2>4, <2>5
<1>7. QED
    BY <1>5, <1>6 DEF ClientInv, Agreed

LEMMA AskStep ==
    ASSUME ClientInv, NEW g \in Grants, Clients!Ask(g)
    PROVE  ClientInv'
<1>1. /\ UNCHANGED <<now, client, revoked, admin, tokens, excuse>>
      /\ grant' = [grant EXCEPT ![g] = [pc |-> "issue", saw |-> client]]
    BY DEF Clients!Ask
<1>2. ClientTyped'
    BY <1>1 DEF ClientInv, ClientTyped
<1>3. DeletedIsInactive' /\ Agreed'
    BY <1>1 DEF ClientInv, DeletedIsInactive, Agreed, Alone, KeyMatchesRow,
       Covered, Clients!Busy
<1>4. QED
    BY <1>2, <1>3 DEF ClientInv

\* A token for a client that is inactive by now is a stray.
LEMMA IssueStep ==
    ASSUME Lifetimes, ClientInv, NEW g \in Grants, Clients!Issue(g)
    PROVE  ClientInv'
<1> DEFINE t == [exp |-> now + grant[g].saw.ttl, stray |-> ~client.active]
<1>1. /\ UNCHANGED <<now, client, revoked, admin, excuse>>
      /\ tokens' = tokens \cup {t}
      /\ grant' = [grant EXCEPT ![g].pc = "idle"]
    BY DEF Clients!Issue
<1>2. grant[g] \in [pc : {"idle", "issue"}, saw : Clients!Row]
    BY DEF ClientInv, ClientTyped
<1>3. grant' \in [Grants -> [pc : {"idle", "issue"}, saw : Clients!Row]]
    BY <1>1, <1>2 DEF ClientInv, ClientTyped
<1>4. t \in [exp : Nat, stray : BOOLEAN] /\ (~client.active => t.stray)
    <2>1. grant[g].saw.ttl \in TTLs
        BY <1>2 DEF Clients!Row
    <2>2. now + grant[g].saw.ttl \in Nat
        <3>1. now \in Nat /\ grant[g].saw.ttl \in Nat
            BY <2>1 DEF ClientInv, ClientTyped, Lifetimes
        <3>2. QED
            BY <3>1
    <2>3. QED
        BY <2>2 DEF ClientInv, ClientTyped, Clients!Row
<1> HIDE DEF t
<1>5. ClientTyped'
    BY <1>1, <1>3, <1>4 DEF ClientInv, ClientTyped
<1>6. KeyMatchesRow => KeyMatchesRow'
    BY <1>1, <1>4 DEF KeyMatchesRow, Covered
<1>7. DeletedIsInactive' /\ Agreed'
    BY <1>1, <1>6 DEF ClientInv, DeletedIsInactive, Agreed, Alone, Clients!Busy
<1>8. QED
    BY <1>5, <1>7 DEF ClientInv

LEMMA ClientTicks ==
    ASSUME Lifetimes, ClientInv, Clients!Tick
    PROVE  ClientInv'
<1>1. /\ now' = now + 1 /\ UNCHANGED <<client, admin, grant, excuse>>
      /\ revoked' = IF revoked <= now' THEN 0 ELSE revoked
      /\ tokens' \subseteq tokens
    BY DEF Clients!Tick
<1>2. now \in Nat /\ revoked \in Nat /\ \A t \in tokens : t.exp \in Nat
    BY DEF ClientInv, ClientTyped
<1>3. ClientTyped'
    BY <1>1, <1>2 DEF ClientInv, ClientTyped
<1>4. KeyMatchesRow => KeyMatchesRow'
    BY <1>1, <1>2 DEF KeyMatchesRow, Covered
<1>5. DeletedIsInactive' /\ Agreed'
    BY <1>1, <1>4 DEF ClientInv, DeletedIsInactive, Agreed, Alone, Clients!Busy
<1>6. QED
    BY <1>3, <1>5 DEF ClientInv

-----------------------------------------------------------------------------
LEMMA ClientInit ==
    ASSUME Lifetimes, Clients!Init
    PROVE  ClientInv
<1>1. client \in Clients!Row /\ client.active /\ client.exists
    BY DEF Clients!Init, Clients!Row, Lifetimes
<1>2. ClientTyped
    BY <1>1 DEF Clients!Init, ClientTyped, AdminRequests, Clients!Endpoints,
       Lifetimes
<1>3. Clients!Busy = {} /\ revoked <= now
    BY DEF Clients!Init, Clients!Busy
<1>4. QED
    BY <1>1, <1>2, <1>3
       DEF ClientInv, DeletedIsInactive, Agreed, Alone, KeyMatchesRow

LEMMA ClientStep ==
    ASSUME Lifetimes, ClientInv, [Clients!Next]_(Clients!vars)
    PROVE  ClientInv'
<1>1. CASE UNCHANGED Clients!vars
    BY <1>1 DEF Clients!vars, ClientInv, ClientTyped, DeletedIsInactive, Agreed,
       Alone,
       KeyMatchesRow, Covered, Clients!Busy
<1>2. QED
    BY <1>1, EndpointBegins, CommitStep, KeyStep, AskStep, IssueStep, ClientTicks
       DEF Clients!Next

LEMMA ClientsAgree == ClientInv => Clients!RevocationHolds
<1> SUFFICES ASSUME ClientInv, Clients!Busy = {}, excuse = {}
             PROVE  IF client.exists /\ client.active THEN ~Clients!KeySet
                    ELSE \A t \in tokens : Clients!Accepted(t) => t.stray \/ t.exp <= now
    BY DEF Clients!RevocationHolds
<1>1. KeyMatchesRow
    BY DEF ClientInv, Agreed
<1>2. /\ now \in Nat /\ revoked \in Nat
      /\ \A t \in tokens : t.exp \in Nat
    BY DEF ClientInv, ClientTyped
<1>3. CASE client.active
    <2>1. client.exists
        BY <1>3 DEF ClientInv, DeletedIsInactive
    <2>2. ~Clients!KeySet
        BY <1>1, <1>2, <1>3 DEF KeyMatchesRow, Clients!KeySet
    <2>3. QED
        BY <1>3, <2>1, <2>2
<1>4. CASE ~client.active
    <2>1. \A t \in tokens : Clients!Accepted(t) => t.stray \/ t.exp <= now
        BY <1>1, <1>2, <1>4 DEF KeyMatchesRow, Covered, Clients!Accepted, Clients!KeySet
    <2>2. QED
        BY <1>4, <2>1
<1>5. QED
    BY <1>3, <1>4

\* In the focus of a behaviour, its steps are the component's.
LEMMA ClientsMove ==
    /\ Init /\ focus = "clients" => Clients!Init
    /\ [Next]_vars /\ focus = "clients" => [Clients!Next]_(Clients!vars)
BY DEF Init, Next, vars, Clients!vars

\* Once an answer to a deactivation or a deletion has gone out the gateway
\* accepts no token of the client that is inside its life, and once it is active
\* again it refuses none, but for what excuse names and for strays: a token is
\* accepted after the key is gone only within the leeway that follows its life
\* (routers/admin.py, routers/oauth2.py, middleware.py:306).
THEOREM RevocationStands ==
    /\ Clients!Spec => []Clients!RevocationHolds
    /\ Spec => []RevocationHolds
<1> DEFINE InFocus == focus = "clients" => ClientInv
<1>1. Clients!Init => ClientInv
    BY ClientInit, ServicesAssumption DEF Lifetimes
<1>2. ClientInv /\ [Clients!Next]_(Clients!vars) => ClientInv'
    BY ClientStep, ServicesAssumption DEF Lifetimes
<1>3. ClientInv => Clients!RevocationHolds
    BY ClientsAgree
<1>4. Init => InFocus
    BY <1>1, ClientsMove
<1>5. InFocus /\ [Next]_vars => InFocus'
    BY <1>2, ClientsMove, FocusStays
<1>6. InFocus => RevocationHolds
    BY <1>3 DEF RevocationHolds
<1> HIDE DEF InFocus
<1>7. Clients!Spec => []Clients!RevocationHolds
    BY <1>1, <1>2, <1>3, PTL DEF Clients!Spec
<1>8. Spec => []RevocationHolds
    BY <1>4, <1>5, <1>6, PTL DEF Spec
<1>9. QED
    BY <1>7, <1>8

HIDE DEF now, client, revoked, admin, grant, tokens, ops, faults, excuse

-----------------------------------------------------------------------------
(* Jwks. The service's key is s1 and its age s2, the workers' copies s3,    *)
(* the shared copy s4, the validations s6. What the proof turns on: how    *)
(* old a copy of a retired key must be. It left the service before the     *)
(* rotation, was a Delay on its way to Redis, and was read from there      *)
(* before it expired.                                                      *)

current == s1
since == s2
own == s3
shared == s4
forced == s5
check == s6

USE DEF current, since, own, shared, forced, check

Lasting ==
    /\ Workers # {}
    /\ L1TTL \in Nat /\ L2TTL \in Nat /\ Delay \in Nat

Copies == [key : Nat, age : Nat]

Checks ==
    [pc : {"idle", "lookup", "shared", "service", "store"}, worker : Workers, token : Nat,
     key : Nat, wait : Nat, began : Nat, retried : BOOLEAN]

KeysTyped ==
    /\ current \in Nat \ {0} /\ since \in Nat
    /\ own \in [Workers -> Copies]
    /\ shared \in Copies
    /\ check \in [Requests -> Checks]

\* A key that is not the service's any more.
Retired(k) == k # 0 /\ k # current

OwnAged(copy) ==
    Retired(copy.key) /\ copy.age <= L1TTL => since <= copy.age + L2TTL + Delay

SharedAged ==
    /\ shared.age <= L2TTL
    /\ Retired(shared.key) => since <= shared.age + Delay

FetchAged(q) ==
    /\ Keys!Waiting(q) => q.wait <= Delay
    /\ q.pc = "store" => q.key # 0 /\ (Retired(q.key) => since <= q.wait)

KeysInv ==
    /\ KeysTyped
    /\ \A w \in Workers : OwnAged(own[w])
    /\ SharedAged
    /\ \A r \in Requests : FetchAged(check[r])

-----------------------------------------------------------------------------
\* What a request is given by the steps of a validation.
LEMMA ChecksAre ==
    ASSUME Lasting
    PROVE  /\ Keys!Idle \in Checks /\ Keys!Idle.pc = "idle"
           /\ Keys!Nothing \in Copies /\ Keys!Nothing.key = 0
<1>1. (CHOOSE w \in Workers : TRUE) \in Workers
    BY DEF Lasting
<1>2. QED
    BY <1>1 DEF Keys!Idle, Checks, Keys!Nothing, Copies

\* One validation goes on, and one worker's copy is another.
LEMMA ValidationKeeps ==
    ASSUME Lasting, KeysInv, NEW r \in Requests, NEW q \in Checks, FetchAged(q),
           NEW w \in Workers, NEW copy \in Copies, OwnAged(copy),
           check' = [check EXCEPT ![r] = q], own' = [own EXCEPT ![w] = copy],
           UNCHANGED <<current, since>>, shared' \in Copies, SharedAged'
    PROVE  KeysInv'
<1>1. KeysTyped'
    BY DEF KeysInv, KeysTyped
<1>2. ASSUME NEW v \in Workers PROVE OwnAged(own[v])'
    <2>1. own'[v] = IF v = w THEN copy ELSE own[v]
        BY DEF KeysInv, KeysTyped
    <2>2. QED
        BY <2>1 DEF KeysInv, OwnAged, Retired
<1>3. ASSUME NEW p \in Requests PROVE FetchAged(check[p])'
    <2>1. check'[p] = IF p = r THEN q ELSE check[p]
        BY DEF KeysInv, KeysTyped
    <2>2. QED
        BY <2>1 DEF KeysInv, FetchAged, Retired, Keys!Waiting
<1>4. QED
    BY <1>1, <1>2, <1>3 DEF KeysInv

\* Decode ends the validation with the copy it was given, or drops the copy and
\* looks again.
LEMMA DecodeLeaves ==
    ASSUME Lasting, KeysInv, NEW r \in Requests, NEW keys, NEW copies,
           Keys!Decode(r, keys, copies)
    PROVE  LET w == check[r].worker
           IN  \/ /\ own' = copies
                  /\ check' = [check EXCEPT ![r] = Keys!Idle]
               \/ /\ own' = [own EXCEPT ![w] = Keys!Nothing]
                  /\ \E q \in Checks : q.pc = "lookup" /\ check' = [check EXCEPT ![r] = q]
<1>1. CASE Keys!Invalidate(r)
    <2> DEFINE q == [[check[r] EXCEPT !.pc = "lookup", !.wait = 0] EXCEPT !.retried = TRUE]
    <2>1. q \in Checks /\ q.pc = "lookup"
        BY DEF KeysInv, KeysTyped, Checks
    <2>2. /\ check' = [check EXCEPT ![r] = q]
          /\ own' = [own EXCEPT ![check[r].worker] = Keys!Nothing]
        BY <1>1 DEF Keys!Invalidate, Keys!Goes
    <2>3. QED
        BY <2>1, <2>2
<1>2. CASE own' = copies /\ check' = [check EXCEPT ![r] = Keys!Idle]
    BY <1>2
<1>3. QED
    BY <1>1, <1>2 DEF Keys!Decode

LEMMA DecodeKeeps ==
    ASSUME Lasting, KeysInv, NEW r \in Requests, NEW keys,
           NEW copy \in Copies, OwnAged(copy),
           Keys!Decode(r, keys, [own EXCEPT ![check[r].worker] = copy]),
           UNCHANGED <<current, since>>, shared' \in Copies, SharedAged'
    PROVE  KeysInv'
<1>1. check[r].worker \in Workers
    BY DEF KeysInv, KeysTyped, Checks
<1>2. CASE /\ own' = [own EXCEPT ![check[r].worker] = copy]
           /\ check' = [check EXCEPT ![r] = Keys!Idle]
    <2>1. FetchAged(Keys!Idle)
        BY ChecksAre DEF FetchAged, Keys!Waiting
    <2>2. QED
        BY <1>1, <1>2, <2>1, ChecksAre, ValidationKeeps
<1>3. ASSUME own' = [own EXCEPT ![check[r].worker] = Keys!Nothing],
             NEW q \in Checks, q.pc = "lookup", check' = [check EXCEPT ![r] = q]
      PROVE  KeysInv'
    <2>1. FetchAged(q) /\ OwnAged(Keys!Nothing)
        BY <1>3, ChecksAre DEF FetchAged, Keys!Waiting, OwnAged, Retired
    <2>2. QED
        BY <1>1, <1>3, <2>1, ChecksAre, ValidationKeeps
<1>4. QED
    BY <1>2, <1>3, DecodeLeaves

\* A step that leaves the workers' copies alone.
LEMMA CheckMoves ==
    ASSUME Lasting, KeysInv, NEW r \in Requests, NEW q \in Checks, FetchAged(q),
           check' = [check EXCEPT ![r] = q], UNCHANGED <<current, since, own, shared>>
    PROVE  KeysInv'
<1>1. KeysTyped' /\ SharedAged'
    BY DEF KeysInv, KeysTyped, SharedAged, Retired
<1>2. \A v \in Workers : OwnAged(own[v])'
    BY DEF KeysInv, OwnAged, Retired
<1>3. ASSUME NEW p \in Requests PROVE FetchAged(check[p])'
    <2>1. check'[p] = IF p = r THEN q ELSE check[p]
        BY DEF KeysInv, KeysTyped
    <2>2. QED
        BY <2>1 DEF KeysInv, FetchAged, Retired, Keys!Waiting
<1>4. QED
    BY <1>1, <1>2, <1>3 DEF KeysInv

LEMMA RequestArrives ==
    ASSUME Lasting, KeysInv, NEW r \in Requests, NEW w \in Workers, Keys!Arrive(r, w)
    PROVE  KeysInv'
<1>1. PICK t \in 1 .. current :
          check' = [check EXCEPT ![r] = [Keys!Idle EXCEPT !.pc = "lookup", !.worker = w, !.token = t]]
    BY DEF Keys!Arrive
<1> DEFINE q == [Keys!Idle EXCEPT !.pc = "lookup", !.worker = w, !.token = t]
<1>2. t \in Nat
    BY DEF KeysInv, KeysTyped
<1>3. q \in Checks /\ q.pc = "lookup"
    BY <1>2, ChecksAre DEF Checks
<1>4. UNCHANGED <<current, since, own, shared>> /\ check' = [check EXCEPT ![r] = q]
    BY <1>1 DEF Keys!Arrive
<1> HIDE DEF q
<1>5. FetchAged(q)
    BY <1>3 DEF FetchAged, Keys!Waiting
<1>6. QED
    BY <1>3, <1>4, <1>5, CheckMoves

\* The validation goes on to another exchange.
LEMMA GoesTo ==
    ASSUME Lasting, KeysInv, NEW r \in Requests,
           NEW pc \in {"lookup", "shared", "service", "store"}
    PROVE  LET q == Keys!Goes(r, pc)
           IN  q \in Checks /\ q.pc = pc /\ q.wait = 0 /\ (pc # "store" => FetchAged(q))
<1> DEFINE q == Keys!Goes(r, pc)
<1>1. q \in Checks /\ q.pc = pc /\ q.wait = 0
    BY DEF KeysInv, KeysTyped, Checks, Keys!Goes
<1> HIDE DEF q
<1>2. pc # "store" => FetchAged(q)
    BY <1>1 DEF FetchAged, Keys!Waiting, Lasting
<1>3. QED
    BY <1>1, <1>2 DEF q

LEMMA RequestLooksUp ==
    ASSUME Lasting, KeysInv, NEW r \in Requests, Keys!Lookup(r)
    PROVE  KeysInv'
<1> DEFINE w == check[r].worker
<1>1. UNCHANGED <<current, since, shared>>
    BY DEF Keys!Lookup
<1>2. w \in Workers /\ own[w] \in Copies /\ OwnAged(own[w])
    BY DEF KeysInv, KeysTyped, Checks
<1>3. shared' \in Copies /\ SharedAged'
    BY <1>1 DEF KeysInv, KeysTyped, SharedAged, Retired
<1>4. CASE Keys!Decode(r, own[w].key, own)
    <2>1. own = [own EXCEPT ![w] = own[w]]
        BY DEF KeysInv, KeysTyped
    <2>2. QED
        BY <1>1, <1>2, <1>3, <1>4, <2>1, DecodeKeeps
<1>5. CASE /\ check' = [check EXCEPT ![r] = [Keys!Goes(r, "shared") EXCEPT !.began = 0]]
           /\ UNCHANGED <<own, forced>>
    <2> DEFINE g == Keys!Goes(r, "shared")
               q == [g EXCEPT !.began = 0]
    <2>1. g \in Checks /\ g.pc = "shared" /\ g.wait = 0
        BY GoesTo
    <2> HIDE DEF g
    <2>2. q \in Checks /\ q.pc = "shared" /\ q.wait = 0
        BY <2>1 DEF Checks
    <2>3. check' = [check EXCEPT ![r] = q]
        BY <1>5 DEF g
    <2> HIDE DEF q
    <2>4. FetchAged(q)
        BY <2>2 DEF FetchAged, Keys!Waiting, Lasting
    <2>5. QED
        BY <1>1, <1>5, <2>2, <2>3, <2>4, CheckMoves
<1>6. QED
    BY <1>4, <1>5 DEF Keys!Lookup

LEMMA RequestReadsShared ==
    ASSUME Lasting, KeysInv, NEW r \in Requests, Keys!ReadShared(r)
    PROVE  KeysInv'
<1> DEFINE w == check[r].worker
           copy == [key |-> shared.key, age |-> check[r].began]
<1>1. UNCHANGED <<current, since, shared>>
    BY DEF Keys!ReadShared
<1>2. shared' \in Copies /\ SharedAged'
    BY <1>1 DEF KeysInv, KeysTyped, SharedAged, Retired
<1>3. copy \in Copies
    BY DEF KeysInv, KeysTyped, Checks, Copies
<1>4. OwnAged(copy)
    <2>1. /\ copy.key = shared.key /\ copy.age \in Nat
          /\ shared.age \in Nat /\ since \in Nat
        BY <1>3 DEF KeysInv, KeysTyped, Copies
    <2> HIDE DEF copy
    <2>2. QED
        BY <2>1 DEF KeysInv, SharedAged, OwnAged, Lasting
<1>5. CASE Keys!Decode(r, shared.key, [own EXCEPT ![w] = copy])
    BY <1>1, <1>2, <1>3, <1>4, <1>5, DecodeKeeps
<1>6. CASE check' = [check EXCEPT ![r] = Keys!Goes(r, "service")] /\ UNCHANGED <<own, forced>>
    BY <1>1, <1>6, GoesTo, CheckMoves
<1>7. QED
    BY <1>5, <1>6 DEF Keys!ReadShared

LEMMA ServiceAnswers ==
    ASSUME Lasting, KeysInv, NEW r \in Requests, Keys!AskService(r)
    PROVE  KeysInv'
<1>1. UNCHANGED <<current, since, own, shared>>
    BY DEF Keys!AskService
<1>2. CASE check' = [check EXCEPT ![r] = [Keys!Goes(r, "store") EXCEPT !.key = current]]
    <2> DEFINE g == Keys!Goes(r, "store")
               q == [g EXCEPT !.key = current]
    <2>1. g \in Checks /\ g.pc = "store" /\ g.wait = 0
        BY GoesTo
    <2> HIDE DEF g
    <2>2. q \in Checks /\ q.pc = "store" /\ q.wait = 0 /\ q.key = current /\ current # 0
        BY <2>1 DEF Checks, KeysInv, KeysTyped
    <2>3. check' = [check EXCEPT ![r] = q]
        BY <1>2 DEF g
    <2> HIDE DEF q
    <2>4. FetchAged(q)
        BY <2>2 DEF FetchAged, Keys!Waiting, Lasting, Retired
    <2>5. QED
        BY <1>1, <2>2, <2>3, <2>4, CheckMoves
<1>3. CASE check' = [check EXCEPT ![r] = Keys!Idle]
    <2>1. FetchAged(Keys!Idle)
        BY ChecksAre DEF FetchAged, Keys!Waiting
    <2>2. QED
        BY <1>1, <1>3, <2>1, ChecksAre, CheckMoves
<1>4. QED
    BY <1>2, <1>3 DEF Keys!AskService

LEMMA AnswerIsStored ==
    ASSUME Lasting, KeysInv, NEW r \in Requests, Keys!Store(r)
    PROVE  KeysInv'
<1> DEFINE copy == [key |-> check[r].key, age |-> check[r].began]
<1>1. UNCHANGED <<current, since>> /\ check[r].pc = "store"
      /\ Keys!Decode(r, check[r].key, [own EXCEPT ![check[r].worker] = copy])
    BY DEF Keys!Store
<1>2. /\ check[r] \in Checks /\ FetchAged(check[r]) /\ since \in Nat
      /\ check[r].key \in Nat /\ check[r].wait \in Nat /\ check[r].began \in Nat
    BY DEF KeysInv, KeysTyped, Checks
<1>3. Retired(check[r].key) => since <= Delay
    BY <1>1, <1>2 DEF FetchAged, Keys!Waiting, Lasting
<1>4. shared' \in Copies /\ SharedAged'
    <2>1. CASE shared' = [key |-> check[r].key, age |-> 0]
        BY <1>1, <1>2, <1>3, <2>1 DEF Copies, SharedAged, Retired, Lasting
    <2>2. CASE UNCHANGED shared
        BY <1>1, <2>2 DEF KeysInv, KeysTyped, SharedAged, Retired
    <2>3. QED
        BY <2>1, <2>2 DEF Keys!Store
<1>5. copy \in Copies /\ copy.key = check[r].key /\ copy.age \in Nat
    BY <1>2 DEF Copies
<1> HIDE DEF copy
<1>6. OwnAged(copy)
    BY <1>2, <1>3, <1>5 DEF OwnAged, Lasting
<1>7. QED
    BY <1>1, <1>4, <1>5, <1>6, DecodeKeeps

LEMMA ServiceRotates ==
    ASSUME Lasting, KeysInv, Keys!Rotate
    PROVE  KeysInv'
<1>1. current' = current + 1 /\ since' = 0 /\ UNCHANGED <<own, shared, check>>
    BY DEF Keys!Rotate
<1>2. KeysTyped'
    BY <1>1 DEF KeysInv, KeysTyped
<1>3. \A w \in Workers : OwnAged(own[w])'
    BY <1>1 DEF KeysInv, KeysTyped, OwnAged, Copies, Lasting
<1>4. \A r \in Requests : FetchAged(check[r])'
    BY <1>1 DEF KeysInv, KeysTyped, FetchAged, Checks, Keys!Waiting
<1>5. SharedAged'
    BY <1>1 DEF KeysInv, KeysTyped, SharedAged, Copies, Lasting
<1>6. QED
    BY <1>2, <1>3, <1>4, <1>5 DEF KeysInv

LEMMA WorkerRestarts ==
    ASSUME Lasting, KeysInv, NEW w \in Workers, Keys!Restart(w)
    PROVE  KeysInv'
<1>1. /\ UNCHANGED <<current, since, shared>>
      /\ own' = [own EXCEPT ![w] = Keys!Nothing]
      /\ check' = [r \in Requests |-> IF check[r].worker = w THEN Keys!Idle ELSE check[r]]
    BY DEF Keys!Restart
<1>2. ASSUME NEW r \in Requests
      PROVE  check'[r] \in Checks /\ check'[r] \in {Keys!Idle, check[r]}
    BY <1>1, ChecksAre DEF KeysInv, KeysTyped
<1>3. \A v \in Workers : own'[v] \in {Keys!Nothing, own[v]} /\ own'[v] \in Copies
    BY <1>1, ChecksAre DEF KeysInv, KeysTyped
<1>4. KeysTyped'
    BY <1>1, <1>2, <1>3, ChecksAre DEF KeysInv, KeysTyped
<1>5. SharedAged'
    BY <1>1 DEF KeysInv, SharedAged, Retired
<1>6. ASSUME NEW v \in Workers PROVE OwnAged(own[v])'
    BY <1>1, <1>3, ChecksAre DEF KeysInv, OwnAged, Retired
<1>7. ASSUME NEW r \in Requests PROVE FetchAged(check[r])'
    BY <1>1, <1>2, ChecksAre DEF KeysInv, FetchAged, Retired, Keys!Waiting
<1>8. QED
    BY <1>4, <1>5, <1>6, <1>7 DEF KeysInv

\* A copy ages by one, or is dropped.
LEMMA OlderIs ==
    ASSUME NEW copy \in Copies, NEW ttl \in Nat
    PROVE  LET old == Keys!Older(copy, ttl)
           IN  /\ old \in Copies /\ old.age \in Nat /\ copy.age \in Nat
               /\ \/ old.key = 0 /\ old.age = 0
                  \/ old.key = copy.key /\ old.age = copy.age + 1 /\ old.age <= ttl
<1>1. CASE copy.key = 0 \/ copy.age >= ttl
    BY <1>1 DEF Keys!Older, Keys!Nothing, Copies
<1>2. CASE ~ (copy.key = 0 \/ copy.age >= ttl)
    <2> DEFINE old == [copy EXCEPT !.age = @ + 1]
    <2>1. old \in Copies /\ old.key = copy.key /\ old.age = copy.age + 1
        BY DEF Copies
    <2>2. Keys!Older(copy, ttl) = old /\ copy.age + 1 <= ttl
        BY <1>2 DEF Keys!Older, Copies
    <2> HIDE DEF old
    <2>3. QED
        BY <2>1, <2>2 DEF Copies
<1>3. QED
    BY <1>1, <1>2

\* An exchange that is waited for lasts a tick longer.
LEMMA WaitIs ==
    ASSUME NEW c \in Checks
    PROVE  LET q == [c EXCEPT !.wait = @ + 1, !.began = @ + 1]
           IN  q \in Checks /\ q.pc = c.pc /\ q.key = c.key /\ q.wait = c.wait + 1
<1> DEFINE d == [c EXCEPT !.wait = c.wait + 1]
           q == [d EXCEPT !.began = c.began + 1]
<1>1. d \in Checks /\ d.pc = c.pc /\ d.key = c.key /\ d.wait = c.wait + 1 /\ c.began \in Nat
    BY DEF Checks
<1>2. [c EXCEPT !.wait = @ + 1, !.began = @ + 1] = q
    BY DEF Checks
<1> HIDE DEF d
<1>3. q \in Checks /\ q.pc = d.pc /\ q.key = d.key /\ q.wait = d.wait
    BY <1>1 DEF Checks
<1>4. QED
    BY <1>1, <1>2, <1>3

LEMMA TimePasses ==
    ASSUME Lasting, KeysInv, Keys!Tick
    PROVE  KeysInv'
<1>1. /\ UNCHANGED current
      /\ own' = [w \in Workers |-> Keys!Older(own[w], L1TTL)]
      /\ shared' = Keys!Older(shared, L2TTL)
      /\ check' = [r \in Requests |-> IF Keys!Waiting(check[r])
                        THEN [check[r] EXCEPT !.wait = @ + 1, !.began = @ + 1] ELSE check[r]]
      /\ \A r \in Requests : Keys!Waiting(check[r]) => check[r].wait < Delay
    BY DEF Keys!Tick
<1>2. since' \in Nat /\ since \in Nat /\ since' <= since + 1
    <2>1. since \in Nat
        BY DEF KeysInv, KeysTyped
    <2>2. since' = since \/ since' = since + 1
        BY DEF Keys!Tick
    <2>3. QED
        BY <2>1, <2>2
<1>3. L1TTL \in Nat /\ L2TTL \in Nat /\ Delay \in Nat
    BY DEF Lasting
<1>4. ASSUME NEW w \in Workers PROVE own'[w] \in Copies /\ OwnAged(own[w])'
    <2>1. own[w] \in Copies /\ OwnAged(own[w]) /\ own'[w] = Keys!Older(own[w], L1TTL)
        BY <1>1 DEF KeysInv, KeysTyped
    <2>2. /\ own'[w] \in Copies /\ own'[w].age \in Nat /\ own[w].age \in Nat
          /\ \/ own'[w].key = 0 /\ own'[w].age = 0
             \/ /\ own'[w].key = own[w].key /\ own'[w].age = own[w].age + 1
                /\ own'[w].age <= L1TTL
        <3> DEFINE old == Keys!Older(own[w], L1TTL)
        <3>1. /\ old \in Copies /\ old.age \in Nat /\ own[w].age \in Nat
              /\ \/ old.key = 0 /\ old.age = 0
                 \/ old.key = own[w].key /\ old.age = own[w].age + 1 /\ old.age <= L1TTL
            BY <1>3, <2>1, OlderIs
        <3>2. own'[w] = old
            BY <2>1
        <3> HIDE DEF old
        <3>3. QED
            BY <3>1, <3>2
    <2>3. UNCHANGED current
        BY <1>1
    <2>4. QED
        BY <1>2, <1>3, <2>1, <2>2, <2>3 DEF OwnAged, Retired
<1>5. shared' \in Copies /\ SharedAged'
    <2>1. shared \in Copies /\ SharedAged
        BY DEF KeysInv, KeysTyped
    <2>2. /\ shared' \in Copies /\ shared'.age \in Nat /\ shared.age \in Nat
          /\ \/ shared'.key = 0 /\ shared'.age = 0
             \/ /\ shared'.key = shared.key /\ shared'.age = shared.age + 1
                /\ shared'.age <= L2TTL
        BY <1>1, <1>3, <2>1, OlderIs
    <2>3. UNCHANGED current
        BY <1>1
    <2>4. QED
        BY <1>2, <1>3, <2>1, <2>2, <2>3 DEF SharedAged, Retired
<1>6. ASSUME NEW r \in Requests PROVE check'[r] \in Checks /\ FetchAged(check[r])'
    <2>1. check[r] \in Checks /\ FetchAged(check[r])
        BY DEF KeysInv, KeysTyped
    <2>2. CASE ~ Keys!Waiting(check[r])
        <3>1. check'[r] = check[r] /\ check[r].pc # "store"
            BY <1>1, <2>2 DEF Keys!Waiting
        <3>2. QED
            BY <2>1, <2>2, <3>1 DEF FetchAged, Keys!Waiting
    <2>3. CASE Keys!Waiting(check[r])
        <3> DEFINE q == [check[r] EXCEPT !.wait = @ + 1, !.began = @ + 1]
        <3>1. /\ q \in Checks /\ q.pc = check[r].pc /\ q.key = check[r].key
              /\ q.wait = check[r].wait + 1
            BY <2>1, WaitIs
        <3>2. check'[r] = q /\ check[r].wait < Delay
            BY <1>1, <2>3
        <3>2a. check[r].wait \in Nat /\ UNCHANGED current
            BY <1>1, <2>1 DEF Checks
        <3> HIDE DEF q
        <3>3. QED
            BY <1>2, <1>3, <2>1, <3>1, <3>2, <3>2a DEF FetchAged, Keys!Waiting, Retired
    <2>4. QED
        BY <2>2, <2>3
<1>7. KeysTyped'
    <2>1. own' \in [Workers -> Copies] /\ check' \in [Requests -> Checks]
        BY <1>1, <1>4, <1>6
    <2>2. QED
        BY <1>1, <1>2, <1>5, <2>1 DEF KeysInv, KeysTyped
<1>8. QED
    BY <1>4, <1>5, <1>6, <1>7 DEF KeysInv

-----------------------------------------------------------------------------
LEMMA KeysInit == ASSUME Lasting, Keys!Init PROVE KeysInv
<1>1. /\ current = 1 /\ shared = Keys!Nothing
      /\ since = L1TTL + L2TTL + Delay + 1
      /\ own = [w \in Workers |-> Keys!Nothing]
      /\ check = [r \in Requests |-> Keys!Idle]
    BY DEF Keys!Init, Keys!Settled
<1>2. KeysTyped
    BY <1>1, ChecksAre DEF KeysTyped, Lasting
<1>3. \A w \in Workers : OwnAged(own[w])
    BY <1>1, ChecksAre DEF OwnAged, Retired
<1>4. SharedAged
    BY <1>1 DEF SharedAged, Retired, Keys!Nothing, Lasting
<1>5. \A r \in Requests : FetchAged(check[r])
    BY <1>1, ChecksAre DEF FetchAged, Keys!Waiting
<1>6. QED
    BY <1>2, <1>3, <1>4, <1>5 DEF KeysInv

LEMMA KeysStep ==
    ASSUME Lasting, KeysInv, [Keys!Next]_(Keys!vars)
    PROVE  KeysInv'
<1>1. CASE UNCHANGED Keys!vars
    BY <1>1 DEF Keys!vars, KeysInv, KeysTyped, OwnAged, SharedAged, FetchAged, Retired,
       Keys!Waiting
<1>2. QED
    BY <1>1, RequestArrives, RequestLooksUp, RequestReadsShared, ServiceAnswers,
       AnswerIsStored, WorkerRestarts, ServiceRotates, TimePasses
       DEF Keys!Next

LEMMA KeysSettle == ASSUME Lasting, KeysInv PROVE Keys!RotationSettles
<1> SUFFICES ASSUME since > L1TTL + L2TTL + Delay
             PROVE  /\ \A w \in Workers : Keys!Fresh(own[w]) => own[w].key = current
                    /\ shared.key \in {0, current}
                    /\ \A r \in Requests : check[r].pc = "store" => check[r].key = current
    BY DEF Keys!RotationSettles, Keys!Settled
<1>1. /\ L1TTL \in Nat /\ L2TTL \in Nat /\ Delay \in Nat /\ since \in Nat
    BY DEF Lasting, KeysInv, KeysTyped
<1>2. ASSUME NEW w \in Workers, Keys!Fresh(own[w]) PROVE own[w].key = current
    <2>1. own[w].age \in Nat /\ OwnAged(own[w])
        BY DEF KeysInv, KeysTyped, Copies
    <2>2. QED
        BY <1>1, <1>2, <2>1 DEF OwnAged, Retired, Keys!Fresh
<1>3. shared.key \in {0, current}
    <2>1. shared.age \in Nat /\ SharedAged
        BY DEF KeysInv, KeysTyped, Copies
    <2>2. QED
        BY <1>1, <2>1 DEF SharedAged, Retired
<1>4. ASSUME NEW r \in Requests, check[r].pc = "store" PROVE check[r].key = current
    <2>1. check[r].wait \in Nat /\ FetchAged(check[r])
        BY DEF KeysInv, KeysTyped, Checks
    <2>2. QED
        BY <1>1, <1>4, <2>1 DEF FetchAged, Retired, Keys!Waiting
<1>5. QED
    BY <1>2, <1>3, <1>4

LEMMA KeysMove ==
    /\ Init /\ focus = "keys" => Keys!Init
    /\ [Next]_vars /\ focus = "keys" => [Keys!Next]_(Keys!vars)
BY DEF Init, Next, vars, Keys!vars

\* Once both lifetimes and the exchanges under way at a rotation of the signing
\* key are over, no worker, no shared copy and no fetch holds another key
\* (auth/jwks.py, _validate_token).
THEOREM RotationsSettle ==
    /\ Keys!Spec => []Keys!RotationSettles
    /\ Spec => []RotationSettles
<1> DEFINE InFocus == focus = "keys" => KeysInv
<1>1. Keys!Init => KeysInv
    BY KeysInit, ServicesAssumption DEF Lasting
<1>2. KeysInv /\ [Keys!Next]_(Keys!vars) => KeysInv'
    BY KeysStep, ServicesAssumption DEF Lasting
<1>3. KeysInv => Keys!RotationSettles
    BY KeysSettle, ServicesAssumption DEF Lasting
<1>4. Init => InFocus
    BY <1>1, KeysMove
<1>5. InFocus /\ [Next]_vars => InFocus'
    BY <1>2, KeysMove, FocusStays
<1>6. InFocus => RotationSettles
    BY <1>3 DEF RotationSettles
<1> HIDE DEF InFocus
<1>7. Keys!Spec => []Keys!RotationSettles
    BY <1>1, <1>2, <1>3, PTL DEF Keys!Spec
<1>8. Spec => []RotationSettles
    BY <1>4, <1>5, <1>6, PTL DEF Spec
<1>9. QED
    BY <1>7, <1>8

HIDE DEF current, since, own, shared, forced, check

-----------------------------------------------------------------------------
(* LoginThrottle. The failures of each key are s1, the attempts s2, and s3  *)
(* is what refused callers were told. What the proof turns on: an attempt  *)
(* let in takes its share of the overdraft with it; and a promise to a     *)
(* caller of a key that is just spent is the time its oldest failure has.  *)

failures == s1
attempt == s2
promise == s3

USE DEF failures, attempt, promise

Throttles ==
    /\ IsFiniteSet(Attempts) /\ Window \in Nat \ {0}
    /\ MaxOf \in [Identities \cup Addresses -> Nat \ {0}]

Ages == 0 .. Window - 1

LoginTyped ==
    /\ failures \in [Logins!Keys -> Seq(Ages)]
    /\ attempt \in [Attempts -> [pc : {"idle", "select"}, keys : SUBSET Logins!Keys]]
    /\ \A a \in Attempts : attempt[a].pc = "idle" => attempt[a].keys = {}
    /\ promise \in [Logins!Keys -> Nat \cup {Logins!None}]

\* The attempts that will be charged to a key, if they fail.
Charged(k) == {a \in Attempts : k \in attempt[a].keys}

\* Whoever is let in finds the key with budget, and is one of the attempts.
Budgeted(k) ==
    Len(failures[k]) + Cardinality(Charged(k)) < MaxOf[k] + Cardinality(Attempts)

Promised(k) ==
    promise[k] # Logins!None =>
        \/ Len(failures[k]) < MaxOf[k]
        \/ Len(failures[k]) = MaxOf[k] /\ promise[k] = Logins!RetryAfter(k)

\* Failures are kept in the order they happened in.
OldestFirst(ages) == \A i, j \in DOMAIN ages : i <= j => ages[j] <= ages[i]

LoginInv ==
    /\ LoginTyped
    /\ \A k \in Logins!Keys : Budgeted(k) /\ Promised(k) /\ OldestFirst(failures[k])

-----------------------------------------------------------------------------
LEMMA ChargedIsFinite ==
    ASSUME Throttles, NEW k
    PROVE  /\ IsFiniteSet(Charged(k)) /\ Cardinality(Charged(k)) \in Nat
           /\ Cardinality(Attempts) \in Nat
           /\ Cardinality(Charged(k)) <= Cardinality(Attempts)
<1>1. Charged(k) \subseteq Attempts
    BY DEF Charged
<1>2. IsFiniteSet(Charged(k)) /\ Cardinality(Charged(k)) <= Cardinality(Attempts)
    BY <1>1, FS_Subset DEF Throttles
<1>3. QED
    BY <1>2, FS_CardinalityType DEF Throttles

\* Once an attempt is over, fewer are left to be charged.
LEMMA ChargedLess ==
    ASSUME Throttles, LoginTyped, NEW a \in Attempts, NEW k \in Logins!Keys, Logins!Ends(a)
    PROVE  /\ attempt' \in [Attempts -> [pc : {"idle", "select"}, keys : SUBSET Logins!Keys]]
           /\ \A b \in Attempts : attempt'[b].pc = "idle" => attempt'[b].keys = {}
           /\ Charged(k)' = Charged(k) \ {a}
           /\ Cardinality(Charged(k)') =
                 Cardinality(Charged(k)) - (IF k \in attempt[a].keys THEN 1 ELSE 0)
           /\ Cardinality(Charged(k)') \in Nat
<1>1. /\ attempt'[a] = [pc |-> "idle", keys |-> {}]
      /\ \A b \in Attempts \ {a} : attempt'[b] = attempt[b]
      /\ attempt' \in [Attempts -> [pc : {"idle", "select"}, keys : SUBSET Logins!Keys]]
    BY DEF Logins!Ends, LoginTyped
<1>2. Charged(k)' = Charged(k) \ {a}
    BY <1>1 DEF Charged
<1>3. a \in Charged(k) <=> k \in attempt[a].keys
    BY DEF Charged
<1>4. /\ Cardinality(Charged(k) \ {a}) =
             Cardinality(Charged(k)) - (IF a \in Charged(k) THEN 1 ELSE 0)
      /\ IsFiniteSet(Charged(k) \ {a})
    BY ChargedIsFinite, FS_RemoveElement
<1>5. Cardinality(Charged(k) \ {a}) \in Nat
    BY <1>4, FS_CardinalityType
<1>6. \A b \in Attempts : attempt'[b].pc = "idle" => attempt'[b].keys = {}
    BY <1>1 DEF LoginTyped
<1>7. QED
    BY <1>1, <1>2, <1>3, <1>4, <1>5, <1>6

LEMMA AttemptAdmitted ==
    ASSUME Throttles, LoginInv, NEW a \in Attempts, NEW keys \in SUBSET Logins!Keys,
           Logins!Admit(a, keys)
    PROVE  LoginInv'
<1>1. /\ attempt'[a] = [pc |-> "select", keys |-> keys]
      /\ \A b \in Attempts \ {a} : attempt'[b] = attempt[b]
      /\ attempt' \in [Attempts -> [pc : {"idle", "select"}, keys : SUBSET Logins!Keys]]
      /\ UNCHANGED <<failures, promise>>
      /\ attempt[a].keys = {}
      /\ \A k \in keys : Len(failures[k]) < MaxOf[k]
    <2>1. /\ attempt' = [attempt EXCEPT ![a] = [pc |-> "select", keys |-> keys]]
          /\ attempt \in [Attempts -> [pc : {"idle", "select"}, keys : SUBSET Logins!Keys]]
          /\ UNCHANGED <<failures, promise>>
          /\ attempt[a].keys = {}
        BY DEF Logins!Admit, LoginInv, LoginTyped
    <2>2. ASSUME NEW k \in keys PROVE Len(failures[k]) < MaxOf[k]
        <3>1. ~ Logins!Spent(k) /\ failures[k] \in Seq(Ages) /\ MaxOf[k] \in Nat
            BY DEF Logins!Admit, LoginInv, LoginTyped, Throttles, Logins!Keys
        <3>2. Len(failures[k]) \in Nat
            BY <3>1
        <3>3. QED
            BY <3>1, <3>2 DEF Logins!Spent
    <2>3. QED
        BY <2>1, <2>2
<1>2. LoginTyped'
    <2>1. \A b \in Attempts : attempt'[b].pc = "idle" => attempt'[b].keys = {}
        BY <1>1 DEF LoginInv, LoginTyped
    <2>2. QED
        BY <1>1, <2>1 DEF LoginInv, LoginTyped
<1>3. ASSUME NEW k \in Logins!Keys PROVE Budgeted(k)'
    <2>1. CASE k \in keys
        <3>1. Charged(k)' \subseteq Attempts
            BY DEF Charged
        <3>2. /\ Cardinality(Charged(k)') \in Nat
              /\ Cardinality(Charged(k)') <= Cardinality(Attempts)
            BY <3>1, FS_Subset, FS_CardinalityType DEF Throttles
        <3>3. Len(failures[k]) \in Nat /\ MaxOf[k] \in Nat
            BY DEF LoginInv, LoginTyped, Throttles, Logins!Keys
        <3>4. Len(failures[k]) < MaxOf[k] /\ failures' = failures
            BY <1>1, <2>1
        <3>5. Cardinality(Attempts) \in Nat
            BY ChargedIsFinite
        <3>6. Len(failures[k])' = Len(failures[k])
            BY <3>4
        <3>7. QED
            BY <3>2, <3>3, <3>4, <3>5, <3>6 DEF Budgeted
    <2>2. CASE k \notin keys
        <3>1. Charged(k)' = Charged(k)
            BY <1>1, <2>2 DEF Charged
        <3>2. QED
            BY <1>1, <3>1 DEF Budgeted, LoginInv
    <2>3. QED
        BY <2>1, <2>2
<1>4. ASSUME NEW k \in Logins!Keys PROVE Promised(k)'
    BY <1>1 DEF LoginInv, Promised, Logins!RetryAfter
<1>5. QED
    BY <1>1, <1>2, <1>3, <1>4 DEF LoginInv

LEMMA AttemptRefused ==
    ASSUME Throttles, LoginInv, NEW keys \in SUBSET Logins!Keys, Logins!Refuse(keys)
    PROVE  LoginInv'
<1>1. UNCHANGED <<failures, attempt>>
    BY DEF Logins!Refuse
<1>2. ASSUME NEW k \in Logins!Keys
      PROVE  promise'[k] \in Nat \cup {Logins!None} /\ Promised(k)'
    <2>1. promise'[k] = IF k \in keys /\ Logins!Spent(k) /\ Logins!Owed(k) /\ promise[k] = Logins!None
                        THEN Logins!RetryAfter(k) ELSE promise[k]
        BY DEF Logins!Refuse
    <2>2. CASE promise'[k] = promise[k]
        BY <1>1, <2>2 DEF LoginInv, LoginTyped, Promised, Logins!RetryAfter
    <2>3. ASSUME promise'[k] = Logins!RetryAfter(k), Logins!Owed(k)
          PROVE  promise'[k] \in Nat \cup {Logins!None} /\ Promised(k)'
        <3>1. failures[k] \in Seq(Ages) /\ Len(failures[k]) = MaxOf[k] /\ MaxOf[k] \in Nat \ {0}
            BY <2>3 DEF LoginInv, LoginTyped, Logins!Owed, Throttles, Logins!Keys
        <3>2. Head(failures[k]) \in Ages
            BY <3>1
        <3>3. Logins!RetryAfter(k) \in Nat
            BY <3>2 DEF Logins!RetryAfter, Ages, Throttles
        <3>4. Promised(k)'
            BY <1>1, <2>3, <3>1 DEF Promised, Logins!RetryAfter
        <3>5. QED
            BY <2>3, <3>3, <3>4
    <2>4. QED
        BY <2>1, <2>2, <2>3
<1>3. promise' \in [Logins!Keys -> Nat \cup {Logins!None}]
    BY <1>2 DEF Logins!Refuse
<1>4. LoginTyped'
    BY <1>1, <1>3 DEF LoginInv, LoginTyped
<1>5. \A k \in Logins!Keys : Budgeted(k)'
    BY <1>1 DEF LoginInv, Budgeted, Charged
<1>6. QED
    BY <1>1, <1>2, <1>4, <1>5 DEF LoginInv

\* A failure of now is the last.
LEMMA NewestLast ==
    ASSUME NEW ages \in Seq(Ages), OldestFirst(ages), Throttles
    PROVE  OldestFirst(Append(ages, 0))
<1> DEFINE longer == Append(ages, 0)
           n == Len(ages)
<1>1. /\ DOMAIN longer = 1 .. n + 1 /\ DOMAIN ages = 1 .. n /\ n \in Nat
      /\ longer[n + 1] = 0
      /\ \A i \in 1 .. n : longer[i] = ages[i] /\ ages[i] \in Nat
    BY DEF Ages, Throttles
<1> HIDE DEF longer, n
<1>2. QED
    BY <1>1 DEF OldestFirst, longer

LEMMA AttemptFails ==
    ASSUME Throttles, LoginInv, NEW a \in Attempts, Logins!Fails(a)
    PROVE  LoginInv'
<1> DEFINE Hit(k) == k \in attempt[a].keys
<1>1. Logins!Ends(a)
    BY DEF Logins!Fails
<1>2. ASSUME NEW k \in Logins!Keys
      PROVE  /\ failures[k] \in Seq(Ages) /\ MaxOf[k] \in Nat \ {0}
             /\ failures'[k] = IF Hit(k) THEN Append(failures[k], 0) ELSE failures[k]
             /\ promise'[k] = IF Hit(k) THEN Logins!None ELSE promise[k]
    BY DEF Logins!Fails, LoginInv, LoginTyped, Throttles, Logins!Keys
<1>3. 0 \in Ages
    BY DEF Ages, Throttles
<1>4. ASSUME NEW k \in Logins!Keys PROVE failures'[k] \in Seq(Ages)
    <2>1. Append(failures[k], 0) \in Seq(Ages)
        BY <1>2, <1>3
    <2>2. QED
        BY <1>2, <2>1
<1>5. LoginTyped'
    <2>1. failures' \in [Logins!Keys -> Seq(Ages)]
        BY <1>4 DEF Logins!Fails
    <2>2. promise' \in [Logins!Keys -> Nat \cup {Logins!None}]
        BY DEF Logins!Fails, LoginInv, LoginTyped
    <2>3. attempt' \in [Attempts -> [pc : {"idle", "select"}, keys : SUBSET Logins!Keys]]
          /\ \A b \in Attempts : attempt'[b].pc = "idle" => attempt'[b].keys = {}
        BY <1>1 DEF Logins!Ends, LoginInv, LoginTyped
    <2>4. QED
        BY <2>1, <2>2, <2>3 DEF LoginTyped
<1>6. ASSUME NEW k \in Logins!Keys PROVE Budgeted(k)'
    <2>1. /\ Cardinality(Charged(k)') = Cardinality(Charged(k)) - (IF Hit(k) THEN 1 ELSE 0)
          /\ Cardinality(Charged(k)) \in Nat /\ Cardinality(Attempts) \in Nat
        BY <1>1, ChargedLess, ChargedIsFinite DEF LoginInv
    <2>2. Len(failures[k]) + Cardinality(Charged(k)) < MaxOf[k] + Cardinality(Attempts)
        BY DEF LoginInv, Budgeted
    <2>3. CASE Hit(k)
        <3>1. failures[k] \in Seq(Ages) /\ 0 \in Ages
            BY <1>2, <1>3
        <3>2. Len(Append(failures[k], 0)) = Len(failures[k]) + 1 /\ Len(failures[k]) \in Nat
            BY <3>1
        <3>3. failures'[k] = Append(failures[k], 0)
            BY <1>2, <2>3
        <3>4. Len(failures'[k]) = Len(failures[k]) + 1
            BY <3>2, <3>3
        <3>5. Cardinality(Charged(k)') = Cardinality(Charged(k)) - 1
            BY <2>1, <2>3
        <3>6. QED
            BY <2>1, <2>2, <3>2, <3>4, <3>5, <1>2 DEF Budgeted
    <2>4. CASE ~ Hit(k)
        <3>1. failures'[k] = failures[k]
            BY <1>2, <2>4
        <3>2. Cardinality(Charged(k)') = Cardinality(Charged(k))
            BY <2>1, <2>4
        <3>3. QED
            BY <2>2, <3>1, <3>2 DEF Budgeted
    <2>5. QED
        BY <2>3, <2>4
<1>7. ASSUME NEW k \in Logins!Keys PROVE Promised(k)'
    BY <1>2 DEF Promised, LoginInv, Logins!RetryAfter
<1>8. ASSUME NEW k \in Logins!Keys PROVE OldestFirst(failures'[k])
    BY <1>2, NewestLast DEF LoginInv
<1>9. QED
    BY <1>5, <1>6, <1>7, <1>8 DEF LoginInv

LEMMA AttemptSucceeds ==
    ASSUME Throttles, LoginInv, NEW a \in Attempts, Logins!Succeeds(a)
    PROVE  LoginInv'
<1> DEFINE Hit(k) == k \in attempt[a].keys
<1>1. Logins!Ends(a) /\ UNCHANGED promise
    BY DEF Logins!Succeeds
<1>2. ASSUME NEW k \in Logins!Keys
      PROVE  /\ failures[k] \in Seq(Ages) /\ MaxOf[k] \in Nat \ {0}
             /\ failures'[k] = IF Hit(k) THEN <<>> ELSE failures[k]
    BY DEF Logins!Succeeds, LoginInv, LoginTyped, Throttles, Logins!Keys
<1>3. LoginTyped'
    <2>1. failures' \in [Logins!Keys -> Seq(Ages)]
        BY <1>2 DEF Logins!Succeeds
    <2>2. attempt' \in [Attempts -> [pc : {"idle", "select"}, keys : SUBSET Logins!Keys]]
          /\ \A b \in Attempts : attempt'[b].pc = "idle" => attempt'[b].keys = {}
        BY <1>1 DEF Logins!Ends, LoginInv, LoginTyped
    <2>3. QED
        BY <1>1, <2>1, <2>2 DEF LoginInv, LoginTyped
<1>4. ASSUME NEW k \in Logins!Keys PROVE Budgeted(k)'
    <2>1. /\ Cardinality(Charged(k)') = Cardinality(Charged(k)) - (IF Hit(k) THEN 1 ELSE 0)
          /\ Cardinality(Charged(k)) \in Nat /\ Cardinality(Attempts) \in Nat
          /\ Cardinality(Charged(k)) <= Cardinality(Attempts)
        BY <1>1, ChargedLess, ChargedIsFinite DEF LoginInv
    <2>2. /\ Len(failures'[k]) = IF Hit(k) THEN 0 ELSE Len(failures[k])
          /\ Len(failures[k]) \in Nat
        BY <1>2
    <2>3. Budgeted(k)
        BY DEF LoginInv
    <2> HIDE DEF Hit
    <2>4. QED
        BY <1>2, <2>1, <2>2, <2>3 DEF Budgeted
<1>5. ASSUME NEW k \in Logins!Keys PROVE Promised(k)'
    BY <1>1, <1>2 DEF Promised, LoginInv, Logins!RetryAfter
<1>6. ASSUME NEW k \in Logins!Keys PROVE OldestFirst(failures'[k])
    BY <1>2 DEF LoginInv, OldestFirst
<1>7. QED
    BY <1>3, <1>4, <1>5, <1>6 DEF LoginInv

LEMMA AttemptLeaves ==
    ASSUME Throttles, LoginInv, NEW a \in Attempts, Logins!Leaves(a)
    PROVE  LoginInv'
<1>1. Logins!Ends(a) /\ UNCHANGED <<failures, promise>>
    BY DEF Logins!Leaves
<1>2. LoginTyped'
    BY <1>1 DEF Logins!Ends, LoginInv, LoginTyped
<1>3. ASSUME NEW k \in Logins!Keys PROVE Budgeted(k)'
    <2>1. /\ Cardinality(Charged(k)') <= Cardinality(Charged(k))
          /\ Cardinality(Charged(k)) \in Nat /\ Cardinality(Attempts) \in Nat
          /\ Cardinality(Charged(k)') \in Nat
        BY <1>1, ChargedLess, ChargedIsFinite DEF LoginInv
    <2>2. Len(failures[k]) \in Nat /\ MaxOf[k] \in Nat /\ failures' = failures
        BY <1>1 DEF LoginInv, LoginTyped, Throttles, Logins!Keys
    <2>3. Budgeted(k)
        BY DEF LoginInv
    <2>4. QED
        BY <2>1, <2>2, <2>3 DEF Budgeted
<1>4. ASSUME NEW k \in Logins!Keys PROVE Promised(k)'
    BY <1>1 DEF Promised, LoginInv, Logins!RetryAfter
<1>5. QED
    BY <1>1, <1>2, <1>3, <1>4 DEF LoginInv

\* The module's own Cardinality is the one the library has its theorems about.
LEMMA SameCount == \A S : Logins!Cardinality(S) = Cardinality(S)
BY DEF Cardinality, Logins!Cardinality

\* Time takes failures from the front: none, or the oldest among them.
LEMMA RecentIs ==
    ASSUME Throttles, NEW ages \in Seq(Ages), OldestFirst(ages)
    PROVE  LET left == Logins!Recent(ages)
           IN  /\ left \in Seq(Ages) /\ OldestFirst(left)
               /\ Len(left) \in Nat /\ Len(ages) \in Nat /\ Len(left) <= Len(ages)
               /\ Len(left) = Len(ages) /\ Len(ages) > 0 => Head(left) = Head(ages) + 1
<1> DEFINE n == Len(ages)
           older == [i \in DOMAIN ages |-> ages[i] + 1]
           gone == {i \in DOMAIN ages : older[i] >= Window}
           g == Cardinality(gone)
           left == SubSeq(older, g + 1, n)
<1>1. /\ n \in Nat /\ DOMAIN ages = 1 .. n /\ Window \in Nat \ {0}
      /\ \A i \in 1 .. n : ages[i] \in 0 .. Window - 1
    BY DEF Ages, Throttles
<1>2. /\ \A i \in 1 .. n : older[i] = ages[i] + 1
      /\ DOMAIN older = 1 .. n /\ Len(older) = n /\ older \in Seq(Nat)
    <2>1. \A i \in 1 .. n : ages[i] + 1 \in Nat
        BY <1>1
    <2>2. older = [i \in 1 .. n |-> ages[i] + 1]
        BY <1>1
    <2>3. older \in Seq(Nat)
        BY <1>1, <2>1, <2>2
    <2>4. QED
        BY <1>1, <2>2, <2>3
<1>3. g \in 0 .. n
    <2>1. gone \subseteq 1 .. n
        BY <1>1
    <2>2. IsFiniteSet(1 .. n) /\ Cardinality(1 .. n) = n
        BY <1>1, FS_Interval
    <2> DEFINE S == 1 .. n
    <2>3. IsFiniteSet(S) /\ gone \subseteq S /\ Cardinality(S) = n
        BY <2>1, <2>2
    <2> HIDE DEF S
    <2>4. IsFiniteSet(gone) /\ Cardinality(gone) <= Cardinality(S)
        BY <2>3, FS_Subset, ZenonT(60)
    <2>5. g <= n
        BY <2>3, <2>4
    <2>6. g \in Nat
        BY <2>4, FS_CardinalityType
    <2>7. QED
        BY <1>1, <2>5, <2>6
<1>4. ASSUME NEW i \in 1 .. n, i > g PROVE ages[i] + 1 \in 0 .. Window - 1
    <2> SUFFICES ASSUME ages[i] + 1 >= Window PROVE FALSE
        BY <1>1
    <2>1. ASSUME NEW j \in 1 .. i PROVE j \in gone
        <3>1. j \in 1 .. n /\ j \in DOMAIN ages /\ i \in DOMAIN ages /\ j <= i
            BY <1>1
        <3>2. ages[i] <= ages[j] /\ ages[i] \in Nat /\ ages[j] \in Nat
            BY <1>1, <3>1 DEF OldestFirst
        <3>3. older[j] >= Window
            BY <1>1, <1>2, <3>1, <3>2
        <3>4. QED
            BY <3>1, <3>3
    <2>2. gone \subseteq 1 .. n
        BY <1>1
    <2>3. IsFiniteSet(1 .. n)
        BY <1>1, FS_Interval
    <2> HIDE DEF gone
    <2>4. IsFiniteSet(gone)
        BY <2>2, <2>3, FS_Subset
    <2>5. Cardinality(1 .. i) <= g
        BY <2>1, <2>4, FS_Subset
    <2>6. Cardinality(1 .. i) = i
        BY FS_Interval
    <2>7. QED
        BY <1>3, <1>4, <2>5, <2>6
<1>5. Logins!Recent(ages) = left
    <2>1. Logins!Recent(ages) = SubSeq(older, g + 1, Len(older))
        BY SameCount DEF Logins!Recent
    <2>2. QED
        BY <1>2, <2>1
<1> HIDE DEF g, older, gone
<1>6. /\ left \in Seq(Nat) /\ Len(left) = n - g
      /\ \A i \in 1 .. n - g : left[i] = older[g + i]
    <2>1. g + 1 \in Int /\ n \in Int
        BY <1>1, <1>3
    <2>2. \A i \in g + 1 .. n : older[i] \in Nat
        BY <1>1, <1>2, <1>3
    <2>3. /\ left \in Seq(Nat)
          /\ Len(left) = IF g + 1 <= n THEN n - (g + 1) + 1 ELSE 0
          /\ \A i \in 1 .. n - (g + 1) + 1 : left[i] = older[g + 1 + i - 1]
        BY <2>1, <2>2, SubSeqProperties
    <2> HIDE DEF left
    <2>4. ASSUME NEW i \in 1 .. n - g PROVE left[i] = older[g + i]
        <3>1. g + 1 + i - 1 = g + i /\ i \in 1 .. n - (g + 1) + 1
            BY <1>1, <1>3
        <3>2. left[i] = older[g + 1 + i - 1]
            BY <2>3, <3>1
        <3>3. QED
            BY <3>1, <3>2
    <2>5. Len(left) = n - g
        BY <1>1, <1>3, <2>3
    <2>6. QED
        BY <2>3, <2>4, <2>5
<1> HIDE DEF left
<1>7. ASSUME NEW i \in 1 .. n - g PROVE left[i] = ages[g + i] + 1 /\ left[i] \in Ages
    <2>1. g + i \in 1 .. n /\ g + i > g
        BY <1>1, <1>3
    <2>2. ages[g + i] + 1 \in 0 .. Window - 1
        BY <1>4, <2>1
    <2>3. QED
        BY <1>2, <1>6, <2>1, <2>2 DEF Ages
<1>8. DOMAIN left = 1 .. n - g
    BY <1>6
<1>9. left \in Seq(Ages)
    BY <1>6, <1>7, <1>8
<1>10. OldestFirst(left)
    <2> SUFFICES ASSUME NEW i \in 1 .. n - g, NEW j \in 1 .. n - g, i <= j
                 PROVE  left[j] <= left[i]
        BY <1>8 DEF OldestFirst
    <2>1. g + i \in DOMAIN ages /\ g + j \in DOMAIN ages /\ g + i <= g + j
        BY <1>1, <1>3
    <2>2. ages[g + j] <= ages[g + i] /\ ages[g + j] \in Nat /\ ages[g + i] \in Nat
        BY <1>1, <2>1 DEF OldestFirst
    <2>3. QED
        BY <1>7, <2>2
<1>11. ASSUME Len(left) = n, n > 0 PROVE Head(left) = Head(ages) + 1
    <2>1. g = 0 /\ 1 \in 1 .. n - g
        BY <1>1, <1>3, <1>6, <1>11
    <2>2. Head(left) = left[1] /\ Head(ages) = ages[1]
        BY <1>6, <1>11
    <2>3. left[1] = ages[g + 1] + 1 /\ g + 1 = 1
        BY <1>7, <2>1
    <2>4. QED
        BY <2>2, <2>3
<1>12. Len(left) \in Nat /\ Len(left) <= n
    BY <1>1, <1>3, <1>6
<1>13. QED
    BY <1>1, <1>5, <1>9, <1>10, <1>11, <1>12

LEMMA FailuresAge ==
    ASSUME Throttles, LoginInv, Logins!Tick
    PROVE  LoginInv'
<1>1. ASSUME NEW k \in Logins!Keys
      PROVE  /\ failures[k] \in Seq(Ages) /\ OldestFirst(failures[k])
             /\ failures'[k] = Logins!Recent(failures[k])
             /\ promise[k] \in Nat \cup {Logins!None}
             /\ promise'[k] = IF promise[k] = Logins!None \/ promise[k] = 0
                              THEN Logins!None ELSE promise[k] - 1
             /\ Budgeted(k) /\ Promised(k) /\ MaxOf[k] \in Nat \ {0}
    BY DEF LoginInv, LoginTyped, Logins!Tick, Throttles, Logins!Keys
<1>2. UNCHANGED attempt
    BY DEF Logins!Tick
<1>3. ASSUME NEW k \in Logins!Keys
      PROVE  /\ failures'[k] \in Seq(Ages) /\ OldestFirst(failures'[k])
             /\ Len(failures'[k]) \in Nat /\ Len(failures[k]) \in Nat
             /\ Len(failures'[k]) <= Len(failures[k])
             /\ Len(failures'[k]) = Len(failures[k]) /\ Len(failures[k]) > 0
                    => Head(failures'[k]) = Head(failures[k]) + 1
    <2> DEFINE ages == failures[k]
               left == Logins!Recent(ages)
    <2>1. ages \in Seq(Ages) /\ OldestFirst(ages) /\ failures'[k] = left
        BY <1>1
    <2> HIDE DEF ages
    <2>2. /\ left \in Seq(Ages) /\ OldestFirst(left)
          /\ Len(left) \in Nat /\ Len(ages) \in Nat /\ Len(left) <= Len(ages)
          /\ Len(left) = Len(ages) /\ Len(ages) > 0 => Head(left) = Head(ages) + 1
        BY <2>1, RecentIs
    <2> HIDE DEF left
    <2>3. QED
        BY <2>1, <2>2 DEF ages
<1>4. ASSUME NEW k \in Logins!Keys PROVE promise'[k] \in Nat \cup {Logins!None}
    BY <1>1 DEF Logins!None
<1>5. LoginTyped'
    <2>1. failures' \in [Logins!Keys -> Seq(Ages)]
        BY <1>3 DEF Logins!Tick
    <2>2. promise' \in [Logins!Keys -> Nat \cup {Logins!None}]
        BY <1>4 DEF Logins!Tick
    <2>3. QED
        BY <1>2, <2>1, <2>2 DEF LoginInv, LoginTyped
<1>6. ASSUME NEW k \in Logins!Keys PROVE Budgeted(k)'
    <2>1. Charged(k)' = Charged(k)
        BY <1>2 DEF Charged
    <2>2. /\ Cardinality(Charged(k)) \in Nat /\ Cardinality(Attempts) \in Nat
        BY ChargedIsFinite
    <2>3. QED
        BY <1>1, <1>3, <2>1, <2>2 DEF Budgeted
<1>7. ASSUME NEW k \in Logins!Keys PROVE Promised(k)'
    <2>1. SUFFICES ASSUME promise'[k] # Logins!None
                   PROVE  \/ Len(failures'[k]) < MaxOf[k]
                          \/ /\ Len(failures'[k]) = MaxOf[k]
                             /\ promise'[k] = Window - Head(failures'[k])
        BY DEF Promised, Logins!RetryAfter
    <2>2. promise[k] # Logins!None /\ promise'[k] = promise[k] - 1
        BY <1>1, <2>1
    <2>3. CASE Len(failures[k]) < MaxOf[k]
        BY <1>1, <1>3, <2>3
    <2>4. CASE Len(failures[k]) = MaxOf[k] /\ promise[k] = Window - Head(failures[k])
        <3>1. Head(failures[k]) \in Nat /\ Window \in Nat
            BY <1>1, <1>3, <2>4 DEF Ages, Throttles
        <3>2. QED
            BY <1>1, <1>3, <2>2, <2>4, <3>1
    <2>5. QED
        BY <1>1, <2>2, <2>3, <2>4 DEF Promised, Logins!RetryAfter
<1>8. QED
    BY <1>3, <1>5, <1>6, <1>7 DEF LoginInv

-----------------------------------------------------------------------------
LEMMA LoginInit == ASSUME Throttles, Logins!Init PROVE LoginInv
<1>1. LoginTyped
    BY DEF Logins!Init, LoginTyped
<1>2. ASSUME NEW k \in Logins!Keys
      PROVE  Budgeted(k) /\ Promised(k) /\ OldestFirst(failures[k])
    <2>1. Charged(k) = {} /\ failures[k] = <<>> /\ promise[k] = Logins!None
        BY DEF Charged, Logins!Init
    <2>2. Cardinality(Charged(k)) = 0 /\ Cardinality(Attempts) \in Nat
        BY <2>1, FS_EmptySet, ChargedIsFinite
    <2>3. Len(failures[k]) = 0 /\ MaxOf[k] \in Nat \ {0}
        BY <2>1 DEF Throttles, Logins!Keys
    <2>4. QED
        BY <2>1, <2>2, <2>3 DEF Budgeted, Promised, OldestFirst
<1>3. QED
    BY <1>1, <1>2 DEF LoginInv

LEMMA LoginStep ==
    ASSUME Throttles, LoginInv, [Logins!Next]_(Logins!vars)
    PROVE  LoginInv'
<1>1. CASE UNCHANGED Logins!vars
    BY <1>1 DEF Logins!vars, LoginInv, LoginTyped, Budgeted, Promised, Charged,
       Logins!RetryAfter
<1>2. ASSUME NEW i \in Identities, NEW d \in Addresses
      PROVE  {i, d} \in SUBSET Logins!Keys
    BY DEF Logins!Keys
<1>3. QED
    BY <1>1, <1>2, AttemptAdmitted, AttemptRefused, AttemptFails, AttemptSucceeds,
       AttemptLeaves, FailuresAge DEF Logins!Next

LEMMA LoginHolds == ASSUME Throttles, LoginInv PROVE Logins!BudgetHolds
<1>1. ASSUME NEW k \in Logins!Keys
      PROVE  /\ Len(failures[k]) < MaxOf[k] + Cardinality(Attempts)
             /\ promise[k] = 0 => ~ Logins!Spent(k)
    <2>1. /\ Cardinality(Charged(k)) \in Nat /\ Cardinality(Attempts) \in Nat
          /\ failures[k] \in Seq(Ages) /\ Len(failures[k]) \in Nat
          /\ MaxOf[k] \in Nat \ {0} /\ Budgeted(k) /\ Promised(k)
        <3>1. failures[k] \in Seq(Ages) /\ MaxOf[k] \in Nat \ {0}
            BY DEF LoginInv, LoginTyped, Throttles, Logins!Keys
        <3>2. QED
            BY <3>1, ChargedIsFinite DEF LoginInv
    <2>2. Len(failures[k]) < MaxOf[k] + Cardinality(Attempts)
        BY <2>1 DEF Budgeted
    <2>3. ASSUME promise[k] = 0 PROVE ~ Logins!Spent(k)
        <3>1. ASSUME Len(failures[k]) = MaxOf[k] PROVE Logins!RetryAfter(k) # 0
            <4>1. Head(failures[k]) \in Ages
                BY <2>1, <3>1
            <4>2. QED
                BY <4>1 DEF Logins!RetryAfter, Ages, Throttles
        <3>2. Len(failures[k]) < MaxOf[k]
            BY <2>1, <2>3, <3>1 DEF Promised, Logins!None
        <3>3. QED
            BY <2>1, <3>2 DEF Logins!Spent
    <2>4. QED
        BY <2>2, <2>3
<1>2. QED
    BY <1>1, SameCount DEF Logins!BudgetHolds

LEMMA LoginsMove ==
    /\ Init /\ focus = "logins" => Logins!Init
    /\ [Next]_vars /\ focus = "logins" => [Logins!Next]_(Logins!vars)
BY DEF Init, Next, vars, Logins!vars

\* A budget of failed sign-ins is overdrawn by at most the attempts that run at
\* a time, less one; and whoever waits as long as it was told finds budget,
\* unless the key was charged since (login_throttle.py, routers/oauth2.py).
THEOREM BudgetsHold ==
    /\ Logins!Spec => []Logins!BudgetHolds
    /\ Spec => []BudgetHolds
<1> DEFINE InFocus == focus = "logins" => LoginInv
<1>1. Logins!Init => LoginInv
    BY LoginInit, ServicesAssumption DEF Throttles
<1>2. LoginInv /\ [Logins!Next]_(Logins!vars) => LoginInv'
    BY LoginStep, ServicesAssumption DEF Throttles
<1>3. LoginInv => Logins!BudgetHolds
    BY LoginHolds, ServicesAssumption DEF Throttles
<1>4. Init => InFocus
    BY <1>1, LoginsMove
<1>5. InFocus /\ [Next]_vars => InFocus'
    BY <1>2, LoginsMove, FocusStays
<1>6. InFocus => BudgetHolds
    BY <1>3 DEF BudgetHolds
<1> HIDE DEF InFocus
<1>7. Logins!Spec => []Logins!BudgetHolds
    BY <1>1, <1>2, <1>3, PTL DEF Logins!Spec
<1>8. Spec => []BudgetHolds
    BY <1>4, <1>5, <1>6, PTL DEF Spec
<1>9. QED
    BY <1>7, <1>8

HIDE DEF failures, attempt, promise

-----------------------------------------------------------------------------
(* SchemaChain. The table is s1, its version s2, where the constructor is  *)
(* s3, its had_tables s4, and s6 tells that a new table was left without a *)
(* version. What the proof turns on: a version is the shape's, a table     *)
(* without one is new in the hands of the boot that made it, or on its way *)
(* from the first release to the baseline.                                 *)

table == s1
version == s2
place == s3
hadTables == s4
orphan == s6

USE DEF table, version, place, hadTables, orphan

Last == Len(Migrations)
Added == Chain!Elements(AddedColumns)

\* Each migration is written for the shape that those before it leave.
ChainFits ==
    /\ Last \in Nat /\ AddedColumns \in Seq(Added)
    /\ Original # {}
    /\ \A n \in 0 .. Last :
          /\ Chain!Shape[n] # {} /\ Added \subseteq Chain!Shape[n]
          /\ n < Last => /\ Migrations[n + 1].drops \subseteq Chain!Shape[n]
                         /\ Migrations[n + 1].adds \cap Chain!Shape[n] = {}

\* A table of the first release, perhaps lifted in part.
OfOld == Original \subseteq table /\ table \subseteq Chain!BaselineColumns

Unstamped ==
    \/ table = {} /\ (place = "off" \/ (place = "create" /\ ~ hadTables))
    \/ table = Chain!HeadColumns /\ place = "lift" /\ ~ hadTables
    \/ OfOld /\ (place = "off" \/ (place \in {"create", "lift"} /\ hadTables))

Stamped == version \in 1 .. Last + 1 /\ table = Chain!Shape[version - 1]

ChainInv ==
    orphan \/ /\ place \in {"off", "create", "lift", "migrate", "up"}
              /\ (version = 0 /\ Unstamped) \/ Stamped
              /\ place = "up" => version = Last + 1

-----------------------------------------------------------------------------
\* A set of naturals has a least one.
LEMMA LeastOf ==
    ASSUME NEW S \in SUBSET Nat, S # {}
    PROVE  \E m \in S : \A n \in S : m <= n
<1> DEFINE Before == {ss \in Nat \X Nat : ss[1] < ss[2]}
<1>1. IsWellFoundedOn(Before, Nat)
    BY NatLessThanWellFounded DEF OpToRel
<1>2. \A x, y \in Nat : x < y => <<x, y>> \in Before
    OBVIOUS
<1> HIDE DEF Before
<1>3. PICK m \in S : \A n \in S : ~ (<<n, m>> \in Before)
    BY <1>1, WFMin
<1>4. ASSUME NEW n \in S PROVE m <= n
    <2>1. m \in Nat /\ n \in Nat
        OBVIOUS
    <2>2. ~ (n < m)
        BY <1>2, <1>3, <2>1
    <2>3. QED
        BY <2>1, <2>2
<1>5. QED
    BY <1>4

\* One shape from the one before it.
After(shapes, n) ==
    IF n = 0 THEN Chain!BaselineColumns
    ELSE (shapes[n - 1] \ Migrations[n].drops) \cup Migrations[n].adds

\* The shapes of the first migrations, up to the k-th.
Shapes(k, shapes) == shapes = [n \in 0 .. k |-> After(shapes, n)]

LEMMA ShapesGoOn ==
    ASSUME NEW k \in Nat, NEW f, Shapes(k, f)
    PROVE  \E g : Shapes(k + 1, g)
<1> DEFINE g == [n \in 0 .. k + 1 |-> IF n = k + 1 THEN After(f, k + 1) ELSE f[n]]
<1>1. ASSUME NEW n \in 0 .. k + 1 PROVE g[n] = After(g, n)
    <2>1. CASE n = 0
        <3>1. g[n] = f[n] /\ f[n] = After(f, n)
            BY <2>1 DEF Shapes
        <3>2. QED
            BY <2>1, <3>1 DEF After
    <2>2. CASE n # 0
        <3>1. n - 1 \in 0 .. k /\ g[n - 1] = f[n - 1]
            BY <2>2
        <3>2. g[n] = After(f, n)
            BY <2>2 DEF Shapes
        <3> HIDE DEF g
        <3>3. QED
            BY <2>2, <3>1, <3>2 DEF After
    <2>3. QED
        BY <2>1, <2>2
<1>2. DOMAIN g = 0 .. k + 1 /\ g = [n \in 0 .. k + 1 |-> g[n]]
    OBVIOUS
<1> HIDE DEF g
<1>3. g = [n \in 0 .. k + 1 |-> After(g, n)]
    BY <1>1, <1>2
<1>4. QED
    BY <1>3 DEF Shapes

LEMMA ShapesExist == ASSUME NEW k \in Nat PROVE \E f : Shapes(k, f)
<1> DEFINE Bad == {n \in Nat : ~ \E f : Shapes(n, f)}
<1> SUFFICES ASSUME Bad # {} PROVE FALSE
    OBVIOUS
<1>1. PICK m \in Bad : \A n \in Bad : m <= n
    <2>1. Bad \in SUBSET Nat
        OBVIOUS
    <2> HIDE DEF Bad
    <2>2. QED
        BY <2>1, LeastOf
<1>2. \E f : Shapes(0, f)
    <2> DEFINE f == [n \in 0 .. 0 |-> Chain!BaselineColumns]
    <2>1. f = [n \in 0 .. 0 |-> After(f, n)]
        BY DEF After
    <2> HIDE DEF f
    <2>2. QED
        BY <2>1 DEF Shapes
<1>3. m # 0 /\ m \in Nat
    BY <1>2
<1>4. m - 1 \in Nat /\ m - 1 \notin Bad
    BY <1>1, <1>3
<1>5. PICK f : Shapes(m - 1, f)
    BY <1>4
<1>6. \E g : Shapes(m - 1 + 1, g)
    BY <1>4, <1>5, ShapesGoOn
<1>7. QED
    BY <1>3, <1>6

\* The shape after n migrations, for every chain of them.
LEMMA ShapeIs ==
    ASSUME ChainFits
    PROVE  /\ Chain!Shape[0] = Chain!BaselineColumns
           /\ \A n \in 1 .. Last :
                 Chain!Shape[n] = (Chain!Shape[n - 1] \ Migrations[n].drops) \cup Migrations[n].adds
<1>1. \E f : Shapes(Last, f)
    BY ShapesExist DEF ChainFits
<1>2. Shapes(Last, Chain!Shape)
    BY <1>1 DEF Shapes, After, Chain!Shape, Last
<1>3. \A n \in 0 .. Last : Chain!Shape[n] = After(Chain!Shape, n)
    BY <1>2 DEF Shapes
<1>4. Last \in Nat
    BY DEF ChainFits
<1>5. Chain!Shape[0] = Chain!BaselineColumns
    <2>1. Chain!Shape[0] = After(Chain!Shape, 0)
        BY <1>3, <1>4
    <2>2. QED
        BY <2>1 DEF After
<1>6. ASSUME NEW n \in 1 .. Last
      PROVE  Chain!Shape[n] = (Chain!Shape[n - 1] \ Migrations[n].drops) \cup Migrations[n].adds
    <2>1. Chain!Shape[n] = After(Chain!Shape, n) /\ n # 0
        BY <1>3, <1>4
    <2>2. QED
        BY <2>1 DEF After
<1>7. QED
    BY <1>5, <1>6

-----------------------------------------------------------------------------
LEMMA ChainInit == ASSUME ChainFits, Chain!Init PROVE ChainInv
<1>1. place = "off" /\ hadTables = FALSE /\ orphan = FALSE
    BY DEF Chain!Init
<1>2. CASE table = {} /\ version = 0
    BY <1>1, <1>2 DEF ChainInv, Unstamped
<1>3. ASSUME NEW n \in 0 .. Len(AddedColumns),
             table = Original \cup {AddedColumns[i] : i \in 1 .. n}, version = 0
      PROVE  ChainInv
    <2>1. \A i \in 1 .. n : AddedColumns[i] \in Added
        BY DEF ChainFits, Chain!Elements, Added
    <2>2. OfOld
        BY <1>3, <2>1 DEF OfOld, Chain!BaselineColumns, Added
    <2>3. QED
        BY <1>1, <1>3, <2>2 DEF ChainInv, Unstamped
<1>4. ASSUME NEW n \in 0 .. Last, table = Chain!Shape[n], version = 1 + n
      PROVE  ChainInv
    <2>1. version \in 1 .. Last + 1 /\ version - 1 = n
        BY <1>4 DEF ChainFits
    <2>2. QED
        BY <1>1, <1>4, <2>1 DEF ChainInv, Stamped
<1>5. QED
    BY <1>2, <1>3, <1>4 DEF Chain!Init, Chain!Baseline, Last

LEMMA ChainStep ==
    ASSUME ChainFits, ChainInv, [Chain!Next]_(Chain!vars)
    PROVE  ChainInv'
<1>1. CASE UNCHANGED Chain!vars
    BY <1>1 DEF Chain!vars, ChainInv, Unstamped, OfOld, Stamped
<1>2. CASE orphan
    <2>1. orphan'
        BY <1>2 DEF Chain!Next, Chain!vars, Chain!Boot, Chain!Create, Chain!Lift, Chain!Stamp,
           Chain!Migrate, Chain!MigrationFails, Chain!Up, Chain!Down
    <2>2. QED
        BY <2>1 DEF ChainInv
<1>3. CASE ~ orphan
    <2>1. /\ place \in {"off", "create", "lift", "migrate", "up"}
          /\ (version = 0 /\ Unstamped) \/ Stamped
          /\ place = "up" => version = Last + 1
        BY <1>3 DEF ChainInv
    <2>2. Chain!Latest = Last + 1 /\ Last \in Nat /\ Chain!HeadColumns = Chain!Shape[Last]
        BY DEF Chain!Latest, Chain!Baseline, ChainFits, Chain!HeadColumns, Last
    <2>3. Stamped => /\ version \in Nat \ {0} /\ version - 1 \in 0 .. Last
                     /\ table # {} /\ Added \subseteq table
        BY <2>2 DEF Stamped, ChainFits
    <2>4. OfOld => table # {}
        BY DEF OfOld, ChainFits
    <2>5. Chain!HeadColumns # {} /\ Added \subseteq Chain!HeadColumns
        BY <2>2 DEF ChainFits
    <2>6. CASE Chain!Boot
        BY <2>1, <2>2, <2>3, <2>4, <2>6 DEF Chain!Boot, ChainInv, Unstamped, OfOld, Stamped
    <2>7. CASE Chain!Create
        BY <2>1, <2>2, <2>3, <2>4, <2>7 DEF Chain!Create, ChainInv, Unstamped, OfOld, Stamped
    <2>8. CASE Chain!Lift
        <3>1. PICK i \in Chain!Missing : \A j \in Chain!Missing : i <= j
            <4>1. Chain!Missing \in SUBSET Nat /\ Chain!Missing # {}
                BY <2>8 DEF Chain!Lift, Chain!Missing, ChainFits
            <4>2. QED
                BY <4>1, LeastOf
        <3> DEFINE least == CHOOSE j \in Chain!Missing : \A l \in Chain!Missing : j <= l
        <3>2. least \in Chain!Missing
            BY <3>1
        <3>3. table' = table \cup {AddedColumns[least]}
            BY <2>8 DEF Chain!Lift
        <3> HIDE DEF least
        <3>4. AddedColumns[least] \in Added /\ AddedColumns[least] \notin table
            BY <3>2 DEF Chain!Missing, Added, Chain!Elements
        <3>5. ~ Stamped /\ table # Chain!HeadColumns
            BY <2>3, <2>5, <3>4
        <3>6. place = "lift" /\ UNCHANGED <<version, place, hadTables, orphan>>
            BY <2>8 DEF Chain!Lift
        <3>7. version = 0 /\ OfOld /\ hadTables
            BY <2>1, <3>5, <3>6 DEF Unstamped
        <3>8. OfOld'
            BY <3>3, <3>4, <3>7 DEF OfOld, Chain!BaselineColumns, Added
        <3>9. QED
            BY <3>6, <3>7, <3>8 DEF ChainInv, Unstamped
    <2>9. CASE Chain!Stamp
        <3>1. Added \subseteq table
            BY <2>9 DEF Chain!Stamp, Chain!Missing, Added, Chain!Elements
        <3>2. /\ place = "lift" /\ place' = "migrate" /\ UNCHANGED <<table, hadTables, orphan>>
              /\ version' = IF version # 0 THEN version ELSE IF hadTables THEN 1 ELSE Last + 1
            BY <2>2, <2>9 DEF Chain!Stamp, Chain!Baseline
        <3>3. CASE Stamped
            BY <2>3, <3>2, <3>3 DEF ChainInv, Stamped
        <3>4. CASE version = 0 /\ OfOld /\ hadTables
            <4>1. table = Chain!Shape[0]
                BY <3>1, <3>4, ShapeIs DEF OfOld, Chain!BaselineColumns, Added
            <4>2. version' = 1 /\ version' - 1 = 0
                BY <3>2, <3>4
            <4>3. QED
                BY <2>2, <3>2, <4>1, <4>2 DEF ChainInv, Stamped
        <3>5. CASE version = 0 /\ table = Chain!HeadColumns /\ ~ hadTables
            <4>1. version' = Last + 1 /\ version' - 1 = Last
                BY <2>2, <3>2, <3>5
            <4>2. QED
                BY <2>2, <3>2, <3>5, <4>1 DEF ChainInv, Stamped
        <3>6. QED
            BY <2>1, <3>2, <3>3, <3>4, <3>5 DEF Unstamped
    <2>10. ASSUME place = "migrate", version < Chain!Latest
           PROVE  /\ Stamped /\ version \in 1 .. Last
                  /\ Chain!Pending = Migrations[version] /\ Chain!Applies(Chain!Pending)
        <3>1. Stamped
            BY <2>1, <2>10 DEF Unstamped
        <3>2. version \in 1 .. Last /\ version - 1 + 1 = version
            BY <2>2, <2>3, <2>10, <3>1
        <3>3. Chain!Pending = Migrations[version]
            BY <3>2 DEF Chain!Pending, Chain!Baseline
        <3>4. /\ Migrations[version].drops \subseteq Chain!Shape[version - 1]
              /\ Migrations[version].adds \cap Chain!Shape[version - 1] = {}
            <4>1. version - 1 \in 0 .. Last /\ version - 1 < Last /\ (version - 1) + 1 = version
                BY <2>2, <3>2
            <4>2. QED
                BY <4>1 DEF ChainFits
        <3>5. QED
            BY <3>1, <3>2, <3>3, <3>4 DEF Chain!Applies, Stamped
    <2>11. CASE Chain!Migrate
        <3>1. place = "migrate" /\ version < Chain!Latest
            BY <2>11 DEF Chain!Migrate
        <3>2. /\ table' = (table \ Migrations[version].drops) \cup Migrations[version].adds
              /\ version' = version + 1 /\ UNCHANGED <<place, hadTables, orphan>>
            BY <2>10, <2>11, <3>1 DEF Chain!Migrate
        <3>3. table' = Chain!Shape[version]
            BY <2>10, <3>1, <3>2, ShapeIs DEF Stamped
        <3>4. version' \in 1 .. Last + 1 /\ version' - 1 = version
            BY <2>2, <2>10, <3>1, <3>2
        <3>5. QED
            BY <3>1, <3>2, <3>3, <3>4 DEF ChainInv, Stamped
    <2>12. CASE Chain!MigrationFails
        BY <2>10, <2>12 DEF Chain!MigrationFails
    <2>13. CASE Chain!Up
        <3>1. Stamped
            BY <2>1, <2>13 DEF Chain!Up, Unstamped
        <3>2. QED
            BY <2>2, <2>13, <3>1 DEF Chain!Up, ChainInv, Stamped
    <2>14. CASE Chain!Down
        <3>1. /\ place' = "off" /\ UNCHANGED <<table, version, hadTables>>
              /\ orphan' = (~ hadTables /\ table # {} /\ version = 0)
            BY <1>3, <2>14 DEF Chain!Down
        <3>2. CASE Stamped
            BY <3>1, <3>2 DEF ChainInv, Stamped
        <3>3. CASE version = 0 /\ Unstamped
            BY <2>5, <3>1, <3>3 DEF ChainInv, Unstamped, OfOld
        <3>4. QED
            BY <2>1, <3>2, <3>3
    <2>15. QED
        BY <1>1, <2>6, <2>7, <2>8, <2>9, <2>11, <2>12, <2>13, <2>14 DEF Chain!Next
<1>4. QED
    BY <1>2, <1>3

LEMMA ChainHolds == ASSUME ChainFits, ChainInv PROVE Chain!SchemaSound
<1>1. CASE orphan
    BY <1>1 DEF Chain!SchemaSound
<1>2. CASE ~ orphan
    <2>1. /\ place # "raised"
          /\ (version = 0 /\ Unstamped) \/ Stamped
          /\ place = "up" => version = Last + 1
        BY <1>2 DEF ChainInv
    <2>2. Last \in Nat /\ Chain!HeadColumns = Chain!Shape[Last]
        BY DEF ChainFits, Chain!HeadColumns, Last
    <2>3. version # 0 => table = Chain!Shape[version - 1]
        BY <2>1 DEF Stamped
    <2>4. place = "up" => table = Chain!HeadColumns
        BY <2>1, <2>2, <2>3
    <2>5. QED
        BY <2>1, <2>3, <2>4 DEF Chain!SchemaSound, Chain!Baseline
<1>3. QED
    BY <1>1, <1>2

LEMMA ChainMoves ==
    /\ Init /\ focus = "chain" => Chain!Init
    /\ [Next]_vars /\ focus = "chain" => [Chain!Next]_(Chain!vars)
BY DEF Init, Next, vars, Chain!vars

\* Whatever release left the database and wherever earlier boots were killed, a
\* stamped version is the one the table has the shape of, no migration meets a
\* table it was not written for, and a boot that is not killed brings both to
\* head; but for a new table that was left without a version (core/schema.py,
\* core/fleet.py).
THEOREM ChainIsSound ==
    /\ Chain!Spec => []Chain!SchemaSound
    /\ Spec => []SchemaSound
<1> DEFINE InFocus == focus = "chain" => ChainInv
<1>0. ChainFits
    <2>1. Last \in Nat
        BY ServicesAssumption DEF Last
    <2>2. QED
        BY <2>1, ServicesAssumption DEF ChainFits, Last, Added
<1>1. Chain!Init => ChainInv
    BY <1>0, ChainInit
<1>2. ChainInv /\ [Chain!Next]_(Chain!vars) => ChainInv'
    BY <1>0, ChainStep
<1>3. ChainInv => Chain!SchemaSound
    BY <1>0, ChainHolds
<1>4. Init => InFocus
    BY <1>1, ChainMoves
<1>5. InFocus /\ [Next]_vars => InFocus'
    BY <1>2, ChainMoves, FocusStays
<1>6. InFocus => SchemaSound
    BY <1>3 DEF SchemaSound
<1> HIDE DEF InFocus
<1>7. Chain!Spec => []Chain!SchemaSound
    BY <1>1, <1>2, <1>3, PTL DEF Chain!Spec
<1>8. Spec => []SchemaSound
    BY <1>4, <1>5, <1>6, PTL DEF Spec
<1>9. QED
    BY <1>7, <1>8

HIDE DEF table, version, place, hadTables, orphan

-----------------------------------------------------------------------------
(* RegistryUpgrade. The names are s1, the files s2, the processes s3, the  *)
(* models registered so far s5; s6 tells that two processes were opening   *)
(* the registry at once, s7 that an older release wrote beside a backup.   *)
(* What the proof turns on: until there is a whole backup that nobody is   *)
(* about to write, the database has every model, and only one process has  *)
(* come far enough to replace it.                                          *)

names == s1
files == s2
procs == s3
crashes == s4
models == s5
together == s6
unseen == s7

USE DEF names, files, procs, crashes, models, together, unseen

\* The files that can be made are numbered, the first of them 1; and it is the
\* manager's API and its terminal UI that open the registry.
UpgradeSetting ==
    /\ Slots \subseteq Nat \ {0} /\ 1 \in Slots
    /\ \E api, tui : Processes \subseteq {api, tui}

Backup == "pre-rm51.bak"
Yamls == {"yaml", "yaml.bak"}

Importing(p) == procs[p].pc \in {"yaml temp", "yaml fill", "yaml swap", "yaml rename"}
Copying(p) == procs[p].pc \in {"copy", "copied"}
Splitting(p) == procs[p].pc \in {"split temp", "split fill", "split swap"}

Places == {"down", "yaml temp", "yaml fill", "yaml swap", "yaml rename", "probe", "copy",
           "copied", "read", "split temp", "split fill", "split swap", "open", "columns",
           "alter", "up", "failed"}

UpgradeTyped ==
    /\ names \in [Upgrade!Names -> Slots \cup {0}]
    /\ files \in [Slots -> [kind : {"none", "yaml", "single", "split", "torn"},
                            rows : SUBSET (Old \cup Later), cols : SUBSET Identity]]
    /\ procs \in [Processes ->
            [pc : Places, open : Slots \cup {0}, from : Slots \cup {0},
             rows : SUBSET (Old \cup Later), column : Identity \cup {""}, raised : BOOLEAN]]
    /\ models \in SUBSET (Old \cup Later)
    /\ together \in BOOLEAN /\ unseen \in BOOLEAN

\* Names lead to files in use, each to its own.
NamesApart ==
    /\ \A n \in Upgrade!Names : names[n] # 0 => files[names[n]].kind # "none"
    /\ \A m, n \in Upgrade!Names : names[m] = names[n] /\ names[m] # 0 => m = n

\* A single-table database is the database itself, until there is a backup; with
\* a YAML file there is none.
SinglesAre ==
    /\ \A i \in Slots : files[i].kind = "single" =>
          /\ i = names["db"] \/ Upgrade!Exists(Backup)
          /\ ~ Upgrade!Exists("yaml") /\ \A p \in Processes : ~ Importing(p)
    /\ \A p \in Processes : 
          procs[p].pc \in {"copied", "read"} \/ Splitting(p) => Upgrade!Exists(Backup)

\* What has a file open, has a file.
Holding ==
    \A p \in Processes :
        /\ procs[p].pc \in {"yaml fill", "split fill", "yaml swap", "split swap",
                            "copied", "columns", "alter"} =>
              procs[p].open \in Slots
        /\ procs[p].pc = "copied" =>
              procs[p].from \in Slots /\ files[procs[p].from].kind # "none"
        /\ procs[p].pc = "copy" => Upgrade!Exists("db")
        /\ procs[p].pc = "alter" => procs[p].column \in Identity

FilesKept == UpgradeTyped /\ NamesApart /\ SinglesAre /\ Holding

Whole(i) == models \subseteq files[i].rows

\* Nothing is left of a single-table database, or never was.
Plain ==
    /\ \A i \in Slots : files[i].kind # "single"
    /\ \A p \in Processes : ~ Copying(p) /\ ~ Splitting(p) /\ procs[p].pc # "read"
    /\ \/ models = {}
       \/ /\ \E n \in Yamls : Upgrade!Exists(n)
          /\ \A n \in Yamls : Upgrade!Exists(n) => Whole(names[n])
       \/ /\ Upgrade!Exists("db") /\ Whole(names["db"])
          /\ ~ Upgrade!Exists("yaml") /\ \A p \in Processes : ~ Importing(p)

\* There is a backup to rely on, and nobody is about to write it.
BackedUp ==
    /\ Upgrade!Exists(Backup) /\ Whole(names[Backup])
    /\ \A p \in Processes : ~ Copying(p)

\* Until then the database has every model, and only one process has come so
\* far as to replace it, by a file that nobody else has replaced.
NotYet ==
    /\ Whole(names["db"])
    /\ \A p, q \in Processes : Splitting(p) /\ Splitting(q) => p = q
    /\ \A p \in Processes :
          /\ procs[p].pc \in {"split fill", "split swap"} => procs[p].open = names["db.tmp"]
          /\ procs[p].pc = "split swap" => Whole(names["db.tmp"])

SplitKept ==
    /\ Upgrade!Exists("db")
    /\ ~ Upgrade!Exists("yaml") /\ \A p \in Processes : ~ Importing(p)
    /\ \A i \in Slots : files[i].kind = "single" => Whole(i)
    /\ \A p \in Processes :
          /\ procs[p].pc \in {"split temp", "split fill"} => models \subseteq procs[p].rows
          /\ procs[p].pc = "copied" =>
                /\ procs[p].open = names[Backup] /\ Upgrade!Exists(Backup)
                /\ procs[p].from \in Slots \ {procs[p].open} /\ Whole(procs[p].from)
    /\ BackedUp \/ NotYet

ModelsKept == unseen \/ Plain \/ SplitKept

\* What one process at a time finds at each place of the upgrade.
Has(i) == unseen \/ files[i].rows = models

Whence(p) ==
    LET at == procs[p].pc
        single == Upgrade!Exists("db") /\ files[names["db"]].kind = "single"
        temp == names["db.tmp"] = procs[p].open /\ procs[p].open # 0
    IN  /\ at \in {"yaml temp", "yaml fill", "yaml swap"} =>
              Upgrade!Exists("yaml") /\ ~ Upgrade!Exists("db")
        /\ at \in {"yaml fill", "split fill"} => temp /\ files[procs[p].open].rows = {}
        /\ at \in {"yaml swap", "split swap"} => temp /\ Has(procs[p].open)
        /\ at = "split swap" => files[procs[p].open].kind = "split"
        /\ at = "yaml rename" => Upgrade!Exists("db")
        /\ at \in {"probe", "open"} => Upgrade!Exists("db") \/ ~ Upgrade!Exists("yaml")
        /\ Copying(p) \/ at = "read" \/ Splitting(p) => single
        /\ at = "copy" => ~ Upgrade!Exists(Backup)
        /\ at = "copied" =>
              /\ procs[p].open = names[Backup] /\ Upgrade!Exists(Backup)
              /\ procs[p].from = names["db"]
              /\ \A q \in Processes : ~ procs[q].raised
        /\ at \in {"split temp", "split fill"} => unseen \/ procs[p].rows = models
        /\ at \in {"open", "columns", "alter", "up"} => ~ single
        /\ at \in {"columns", "alter", "up"} =>
              Upgrade!Exists("db") /\ procs[p].open = names["db"]
        /\ at = "alter" => procs[p].column \notin files[procs[p].open].cols
        /\ at = "up" => unseen \/ procs[p].rows = models
        /\ procs[p].raised => 
              /\ at = "failed" 
              /\ Upgrade!Exists(Backup) /\ files[names[Backup]].kind = "torn"

\* Where the rows come from: the database, the YAML file, the backup.
Sources ==
    /\ Upgrade!Exists("db") => Has(names["db"])
    /\ Upgrade!Exists("yaml") => files[names["yaml"]].rows = models
    /\ ~ Upgrade!Exists("db") /\ ~ Upgrade!Exists("yaml") => models = {}
    /\ \A i \in Slots : files[i].kind = "single" => Has(i)
    /\ Upgrade!Exists(Backup) => files[names[Backup]].kind \in {"single", "torn"}

OneAtATime ==
    /\ \A p, q \in Processes : Upgrade!Opening(p) /\ Upgrade!Opening(q) => p = q
    /\ Sources
    /\ \A p \in Processes : Whence(p)

UpgradeInv == FilesKept /\ ModelsKept /\ (together \/ OneAtATime)

-----------------------------------------------------------------------------
\* A new file is one that nothing leads to.
Fresh(i) ==
    /\ i \in Slots \ {0} /\ files[i] = Upgrade!Unused
    /\ \A p \in Processes : i # procs[p].open /\ i # procs[p].from

LEMMA NewFileIsFresh ==
    ASSUME UpgradeSetting, Upgrade!Free # {}
    PROVE  Fresh(Upgrade!NewFile)
<1>1. Upgrade!Free \in SUBSET Nat
    BY DEF Upgrade!Free, UpgradeSetting
<1>2. PICK i \in Upgrade!Free : \A j \in Upgrade!Free : i <= j
    BY <1>1, LeastOf
<1>3. Upgrade!NewFile \in Upgrade!Free
    BY <1>2 DEF Upgrade!NewFile
<1>4. QED
    BY <1>3 DEF Upgrade!Free, Fresh, Upgrade!None

LEMMA FreshIsApart ==
    ASSUME FilesKept, NEW i, Fresh(i)
    PROVE  /\ \A n \in Upgrade!Names : names[n] # i
           /\ files[i].kind = "none" /\ files[i].rows = {}
BY DEF FilesKept, NamesApart, Fresh, Upgrade!Unused

Records == [pc : Places, open : Slots \cup {0}, from : Slots \cup {0},
            rows : SUBSET (Old \cup Later), column : Identity \cup {""}, raised : BOOLEAN]

\* One process goes on, to a place, and what it holds becomes this.
Becomes(p, at, open, from, rows, column, raised) ==
    /\ procs' \in [Processes -> Records]
    /\ \A r \in Processes \ {p} : procs'[r] = procs[r]
    /\ procs'[p].pc = at /\ procs'[p].open = open /\ procs'[p].from = from
    /\ procs'[p].rows = rows /\ procs'[p].column = column /\ procs'[p].raised = raised

LEMMA RecordsChange ==
    ASSUME UpgradeTyped, NEW p \in Processes, NEW q \in Records, procs' = [procs EXCEPT ![p] = q]
    PROVE  Becomes(p, q.pc, q.open, q.from, q.rows, q.column, q.raised)
BY DEF UpgradeTyped, Records, Becomes

LEMMA GoesToPlace ==
    ASSUME UpgradeTyped, NEW p \in Processes, NEW at \in Places, Upgrade!Goto(p, at)
    PROVE  Becomes(p, at, procs[p].open, procs[p].from, procs[p].rows, procs[p].column,
                   procs[p].raised)
<1> DEFINE q == [procs[p] EXCEPT !.pc = at]
<1>1. procs[p] \in Records
    BY DEF UpgradeTyped, Records
<1>2. /\ q \in Records /\ q.pc = at /\ q.open = procs[p].open /\ q.from = procs[p].from
      /\ q.rows = procs[p].rows /\ q.column = procs[p].column /\ q.raised = procs[p].raised
    BY <1>1 DEF Records
<1>3. procs' = [procs EXCEPT ![p] = q]
    BY DEF Upgrade!Goto
<1> HIDE DEF q
<1>4. Becomes(p, q.pc, q.open, q.from, q.rows, q.column, q.raised)
    BY <1>2, <1>3, RecordsChange
<1>5. QED
    BY <1>2, <1>4

LEMMA RaisesOrDies ==
    ASSUME UpgradeTyped, NEW p \in Processes
    PROVE  /\ Upgrade!Raise(p) => Becomes(p, "failed", 0, 0, {}, "", TRUE)
           /\ procs' = [procs EXCEPT ![p] = Upgrade!Down]
                 => Becomes(p, "down", 0, 0, {}, "", FALSE)
<1> DEFINE q == [Upgrade!Down EXCEPT !.pc = "failed", !.raised = TRUE]
           d == Upgrade!Down
<1>1. /\ q \in Records /\ q.pc = "failed" /\ q.open = 0 /\ q.from = 0
      /\ q.rows = {} /\ q.column = "" /\ q.raised = TRUE
    BY DEF Records, Upgrade!Down, Upgrade!None, Places
<1>2. /\ d \in Records /\ d.pc = "down" /\ d.open = 0 /\ d.from = 0
      /\ d.rows = {} /\ d.column = "" /\ d.raised = FALSE
    BY DEF Records, Upgrade!Down, Upgrade!None, Places
<1>3. Upgrade!Raise(p) => procs' = [procs EXCEPT ![p] = q]
    BY DEF Upgrade!Raise
<1> HIDE DEF q
<1>4. Upgrade!Raise(p) => Becomes(p, "failed", 0, 0, {}, "", TRUE)
    <2> SUFFICES ASSUME Upgrade!Raise(p) PROVE Becomes(p, "failed", 0, 0, {}, "", TRUE)
        OBVIOUS
    <2>1. Becomes(p, q.pc, q.open, q.from, q.rows, q.column, q.raised)
        BY <1>1, <1>3, RecordsChange
    <2>2. QED
        BY <1>1, <2>1
<1> HIDE DEF d
<1>5. ASSUME procs' = [procs EXCEPT ![p] = d] PROVE Becomes(p, "down", 0, 0, {}, "", FALSE)
    <2>1. Becomes(p, d.pc, d.open, d.from, d.rows, d.column, d.raised)
        BY <1>2, <1>5, RecordsChange
    <2>2. QED
        BY <1>2, <2>1
<1>6. QED
    BY <1>4, <1>5 DEF d

\* The other ways to go on: with another file open, with rows, with a column.
LEMMA GoesWith ==
    ASSUME UpgradeTyped, NEW p \in Processes, NEW at \in Places, NEW open \in Slots \cup {0},
           NEW from \in Slots \cup {0}, NEW rows \in SUBSET (Old \cup Later),
           NEW column \in Identity \cup {""},
           \/ procs' = [procs EXCEPT ![p].pc = at, ![p].open = open] /\ from = procs[p].from
                 /\ rows = procs[p].rows /\ column = procs[p].column
           \/ procs' = [procs EXCEPT ![p].pc = at, ![p].open = open, ![p].from = from]
                 /\ rows = procs[p].rows /\ column = procs[p].column
           \/ procs' = [procs EXCEPT ![p].pc = at, ![p].rows = rows]
                 /\ open = procs[p].open /\ from = procs[p].from /\ column = procs[p].column
           \/ procs' = [procs EXCEPT ![p].pc = at, ![p].column = column]
                 /\ open = procs[p].open /\ from = procs[p].from /\ rows = procs[p].rows
    PROVE  Becomes(p, at, open, from, rows, column, procs[p].raised)
<1> DEFINE q == [pc |-> at, open |-> open, from |-> from, rows |-> rows, column |-> column,
                 raised |-> procs[p].raised]
<1>1. /\ procs[p] = [pc |-> procs[p].pc, open |-> procs[p].open, from |-> procs[p].from,
                     rows |-> procs[p].rows, column |-> procs[p].column,
                     raised |-> procs[p].raised]
      /\ procs[p].raised \in BOOLEAN
    BY DEF UpgradeTyped
<1>2. procs' = [procs EXCEPT ![p] = q]
    BY <1>1, ZenonT(60)
<1>3. /\ q \in Records /\ q.pc = at /\ q.open = open /\ q.from = from /\ q.rows = rows
      /\ q.column = column /\ q.raised = procs[p].raised
    BY <1>1 DEF Records
<1> HIDE DEF q
<1>4. Becomes(p, q.pc, q.open, q.from, q.rows, q.column, q.raised)
    BY <1>2, <1>3, RecordsChange
<1>5. QED
    BY <1>3, <1>4

Keeps(p, at) ==
    Becomes(p, at, procs[p].open, procs[p].from, procs[p].rows, procs[p].column,
            procs[p].raised)

Onto(p, at, i) ==
    Becomes(p, at, i, procs[p].from, procs[p].rows, procs[p].column, procs[p].raised)

Fails(p) == Becomes(p, "failed", 0, 0, {}, "", TRUE)

\* What becomes of one file, and of one name.
Written(i, kind, rows, cols) ==
    /\ files' \in [Slots -> [kind : {"none", "yaml", "single", "split", "torn"},
                             rows : SUBSET (Old \cup Later), cols : SUBSET Identity]]
    /\ \A j \in Slots \ {i} : files'[j] = files[j]
    /\ files'[i].kind = kind /\ files'[i].rows = rows /\ files'[i].cols = cols

Leads(n, i) ==
    /\ names' \in [Upgrade!Names -> Slots \cup {0}]
    /\ names'[n] = i /\ \A m \in Upgrade!Names \ {n} : names'[m] = names[m]

Quiet == UNCHANGED <<names, files, models, unseen>>

LEMMA FileChanges ==
    ASSUME UpgradeTyped, NEW i \in Slots,
           NEW c \in [kind : {"none", "yaml", "single", "split", "torn"},
                      rows : SUBSET (Old \cup Later), cols : SUBSET Identity],
           files' = [files EXCEPT ![i] = c]
    PROVE  Written(i, c.kind, c.rows, c.cols)
BY DEF UpgradeTyped, Written

LEMMA NameChanges ==
    ASSUME UpgradeTyped, NEW n \in Upgrade!Names, NEW i \in Slots \cup {0},
           names' = [names EXCEPT ![n] = i]
    PROVE  Leads(n, i)
BY DEF UpgradeTyped, Leads

LEMMA SplitIs ==
    ASSUME NEW rows \in SUBSET (Old \cup Later)
    PROVE  /\ Upgrade!Split(rows) \in [kind : {"none", "yaml", "single", "split", "torn"},
                                       rows : SUBSET (Old \cup Later), cols : SUBSET Identity]
           /\ Upgrade!Split(rows).kind = "split" /\ Upgrade!Split(rows).rows = rows
           /\ Upgrade!Split(rows).cols = Identity
BY DEF Upgrade!Split

\* A file is made, and a name given to it.
Makes(n, i) == Fresh(i) /\ Leads(n, i) /\ Written(i, "split", {}, Identity)

LEMMA IsMade ==
    ASSUME UpgradeSetting, UpgradeTyped, NEW n \in Upgrade!Names, Upgrade!Free # {},
           names' = [names EXCEPT ![n] = Upgrade!NewFile],
           files' = [files EXCEPT ![Upgrade!NewFile] = Upgrade!Split({})]
    PROVE  Makes(n, Upgrade!NewFile)
<1> DEFINE i == Upgrade!NewFile
           c == Upgrade!Split({})
<1>1. Fresh(i) /\ i \in Slots
    BY NewFileIsFresh DEF Fresh
<1>2. /\ c \in [kind : {"none", "yaml", "single", "split", "torn"},
                rows : SUBSET (Old \cup Later), cols : SUBSET Identity]
      /\ c.kind = "split" /\ c.rows = {} /\ c.cols = Identity
    BY SplitIs
<1> HIDE DEF i, c
<1>3. Leads(n, i)
    BY <1>1, NameChanges DEF i
<1>4. Written(i, c.kind, c.rows, c.cols)
    <2>1. files' = [files EXCEPT ![i] = c]
        BY DEF i, c
    <2>2. QED
        BY <1>1, <1>2, <2>1, FileChanges
<1>5. QED
    BY <1>1, <1>2, <1>3, <1>4 DEF Makes, i

-----------------------------------------------------------------------------
LEMMA Boots ==
    ASSUME UpgradeTyped, NEW p \in Processes, Upgrade!Boot(p)
    PROVE  /\ procs[p].pc = "down" /\ Quiet
           /\ together' = (together \/ \E q \in Processes \ {p} : Upgrade!Opening(q))
           /\ \/ ~ Upgrade!Exists("db") /\ Upgrade!Exists("yaml") /\ Keeps(p, "yaml temp")
              \/ (Upgrade!Exists("db") \/ ~ Upgrade!Exists("yaml")) /\ Keeps(p, "probe")
<1>1. CASE ~ Upgrade!Exists("db") /\ Upgrade!Exists("yaml")
    <2>1. Upgrade!Goto(p, "yaml temp") /\ "yaml temp" \in Places
        BY <1>1 DEF Upgrade!Boot, Places
    <2>2. QED
        BY <1>1, <2>1, GoesToPlace DEF Upgrade!Boot, Keeps, Quiet
<1>2. CASE ~ (~ Upgrade!Exists("db") /\ Upgrade!Exists("yaml"))
    <2>1. Upgrade!Goto(p, "probe") /\ "probe" \in Places
        BY <1>2 DEF Upgrade!Boot, Places
    <2>2. QED
        BY <1>2, <2>1, GoesToPlace DEF Upgrade!Boot, Keeps, Quiet
<1>3. QED
    BY <1>1, <1>2

LEMMA MakesTemp ==
    ASSUME UpgradeSetting, UpgradeTyped, NEW p \in Processes,
           Upgrade!YamlTemp(p) \/ Upgrade!SplitTemp(p)
    PROVE  /\ UNCHANGED <<models, unseen, together>>
           /\ \E i \in Slots : 
                 /\ Makes("db.tmp", i)
                 /\ \/ procs[p].pc = "yaml temp" /\ Onto(p, "yaml fill", i)
                    \/ procs[p].pc = "split temp" /\ Onto(p, "split fill", i)
<1> DEFINE i == Upgrade!NewFile
<1>1. /\ Upgrade!Free # {} /\ i = Upgrade!NewFile
      /\ names' = [names EXCEPT !["db.tmp"] = i]
      /\ files' = [files EXCEPT ![i] = Upgrade!Split({})]
      /\ UNCHANGED <<models, unseen, together>>
      /\ \/ procs[p].pc = "yaml temp"
               /\ procs' = [procs EXCEPT ![p].pc = "yaml fill", ![p].open = i]
         \/ procs[p].pc = "split temp"
               /\ procs' = [procs EXCEPT ![p].pc = "split fill", ![p].open = i]
    BY DEF Upgrade!YamlTemp, Upgrade!SplitTemp, Upgrade!Temp, Upgrade!Aside
<1> HIDE DEF i
<1>2. Makes("db.tmp", i)
    BY <1>1, IsMade DEF Upgrade!Names
<1>3. i \in Slots /\ "yaml fill" \in Places /\ "split fill" \in Places
    BY <1>2 DEF Makes, Fresh, Places
<1>4. /\ procs[p].from \in Slots \cup {0} /\ procs[p].rows \in SUBSET (Old \cup Later)
      /\ procs[p].column \in Identity \cup {""}
    BY DEF UpgradeTyped
<1>5. \A at \in {"yaml fill", "split fill"} :
         procs' = [procs EXCEPT ![p].pc = at, ![p].open = i] => Onto(p, at, i)
    BY <1>3, <1>4, GoesWith DEF Onto
<1>6. QED
    BY <1>1, <1>2, <1>3, <1>5

LEMMA Fills ==
    ASSUME UpgradeTyped, NEW p \in Processes, NEW rows \in SUBSET (Old \cup Later),
           NEW next \in Places, procs[p].open \in Slots, Upgrade!Fill(p, rows, next)
    PROVE  /\ Keeps(p, next) /\ UNCHANGED <<names, models, unseen, together>>
           /\ Written(procs[p].open, "split", files[procs[p].open].rows \cup rows, Identity)
<1> DEFINE i == procs[p].open
           all == files[i].rows \cup rows
           c == Upgrade!Split(all)
<1>1. all \in SUBSET (Old \cup Later)
    BY DEF UpgradeTyped
<1>2. files' = [files EXCEPT ![i] = c]
    BY DEF Upgrade!Fill, UpgradeTyped
<1> HIDE DEF i, all
<1>3. /\ c \in [kind : {"none", "yaml", "single", "split", "torn"},
                rows : SUBSET (Old \cup Later), cols : SUBSET Identity]
      /\ c.kind = "split" /\ c.rows = all /\ c.cols = Identity
    BY <1>1, SplitIs
<1> HIDE DEF c
<1>4. Written(i, c.kind, c.rows, c.cols)
    BY <1>2, <1>3, FileChanges DEF i
<1>5. QED
    BY <1>3, <1>4, GoesToPlace DEF Upgrade!Fill, Upgrade!Aside, Keeps, i, all

LEMMA FillsYaml ==
    ASSUME UpgradeTyped, NEW p \in Processes, Upgrade!YamlFill(p),
           procs[p].open \in Slots
    PROVE  /\ procs[p].pc = "yaml fill" /\ UNCHANGED <<names, models, unseen, together>>
           /\ \/ /\ ~ Upgrade!Exists("yaml") /\ Fails(p) /\ UNCHANGED files
              \/ /\ Upgrade!Exists("yaml") /\ Keeps(p, "yaml swap")
                 /\ Written(procs[p].open, "split",
                        files[procs[p].open].rows \cup files[names["yaml"]].rows, Identity)
<1>1. CASE Upgrade!Exists("yaml")
    <2> DEFINE rows == files[names["yaml"]].rows
    <2>1. rows \in SUBSET (Old \cup Later)
        BY <1>1 DEF UpgradeTyped, Upgrade!Names, Upgrade!Exists, Upgrade!None
    <2>2. Upgrade!Fill(p, rows, "yaml swap") /\ "yaml swap" \in Places
        BY <1>1 DEF Upgrade!YamlFill, Upgrade!At, Places
    <2> HIDE DEF rows
    <2>3. /\ Keeps(p, "yaml swap") /\ UNCHANGED <<names, models, unseen, together>>
          /\ Written(procs[p].open, "split", files[procs[p].open].rows \cup rows, Identity)
        BY <2>1, <2>2, Fills
    <2>4. QED
        BY <1>1, <2>3 DEF Upgrade!YamlFill, rows
<1>2. CASE ~ Upgrade!Exists("yaml")
    BY <1>2, RaisesOrDies DEF Upgrade!YamlFill, Fails, Upgrade!Aside
<1>3. QED
    BY <1>1, <1>2

LEMMA FillsSplit ==
    ASSUME UpgradeTyped, NEW p \in Processes, Upgrade!SplitFill(p), procs[p].open \in Slots
    PROVE  /\ procs[p].pc = "split fill" /\ UNCHANGED <<names, models, unseen, together>>
           /\ Keeps(p, "split swap")
           /\ Written(procs[p].open, "split",
                  files[procs[p].open].rows \cup procs[p].rows, Identity)
<1>1. procs[p].rows \in SUBSET (Old \cup Later) /\ "split swap" \in Places
    BY DEF UpgradeTyped, Places
<1>2. procs[p].pc = "split fill" /\ Upgrade!Fill(p, procs[p].rows, "split swap")
    BY DEF Upgrade!SplitFill
<1>3. QED
    BY <1>1, <1>2, Fills

LEMMA Swaps ==
    ASSUME UpgradeTyped, NEW p \in Processes, Upgrade!YamlSwap(p) \/ Upgrade!SplitSwap(p)
    PROVE  /\ UNCHANGED <<files, models, unseen, together>>
           /\ procs[p].pc \in {"yaml swap", "split swap"}
           /\ \/ ~ Upgrade!Exists("db.tmp") /\ Fails(p) /\ UNCHANGED names
              \/ /\ Upgrade!Exists("db.tmp")
                 /\ Onto(p, IF procs[p].pc = "yaml swap" THEN "yaml rename" ELSE "open", 0)
                 /\ names' \in [Upgrade!Names -> Slots \cup {0}]
                 /\ names'["db"] = names["db.tmp"] /\ names'["db.tmp"] = 0
                 /\ \A n \in Upgrade!Names \ {"db", "db.tmp"} : names'[n] = names[n]
<1> DEFINE next == IF procs[p].pc = "yaml swap" THEN "yaml rename" ELSE "open"
<1>1. procs[p].pc \in {"yaml swap", "split swap"} /\ Upgrade!Swap(p, next)
    BY DEF Upgrade!YamlSwap, Upgrade!SplitSwap
<1>2. next \in Places
    BY DEF Places
<1> HIDE DEF next
<1>3. UNCHANGED <<files, models, unseen, together>>
    BY <1>1 DEF Upgrade!Swap, Upgrade!Aside
<1>4. CASE ~ Upgrade!Exists("db.tmp")
    BY <1>1, <1>3, <1>4, RaisesOrDies DEF Upgrade!Swap, Fails
<1>5. CASE Upgrade!Exists("db.tmp")
    <2>1. /\ names' = [names EXCEPT !["db"] = names["db.tmp"], !["db.tmp"] = 0]
          /\ procs' = [procs EXCEPT ![p].pc = next, ![p].open = 0]
        BY <1>1, <1>5 DEF Upgrade!Swap, Upgrade!None
    <2>2. /\ procs[p].from \in Slots \cup {0} /\ procs[p].rows \in SUBSET (Old \cup Later)
          /\ procs[p].column \in Identity \cup {""} /\ 0 \in Slots \cup {0}
        BY DEF UpgradeTyped
    <2>3. Onto(p, next, 0)
        BY <1>2, <2>1, <2>2, GoesWith DEF Onto
    <2>4. /\ names' \in [Upgrade!Names -> Slots \cup {0}]
          /\ names'["db"] = names["db.tmp"] /\ names'["db.tmp"] = 0
          /\ \A n \in Upgrade!Names \ {"db", "db.tmp"} : names'[n] = names[n]
        BY <2>1 DEF UpgradeTyped, Upgrade!Names
    <2>5. QED
        BY <1>1, <1>3, <1>5, <2>3, <2>4 DEF next
<1>6. QED
    BY <1>4, <1>5

LEMMA Renames ==
    ASSUME UpgradeTyped, NEW p \in Processes, Upgrade!YamlRename(p)
    PROVE  /\ procs[p].pc = "yaml rename" /\ Keeps(p, "probe")
           /\ UNCHANGED <<files, models, unseen, together>>
           /\ \/ ~ Upgrade!Exists("yaml") /\ UNCHANGED names
              \/ /\ Upgrade!Exists("yaml")
                 /\ names' \in [Upgrade!Names -> Slots \cup {0}]
                 /\ names'["yaml.bak"] = names["yaml"] /\ names'["yaml"] = 0
                 /\ \A n \in Upgrade!Names \ {"yaml", "yaml.bak"} : names'[n] = names[n]
<1>1. Keeps(p, "probe")
    BY GoesToPlace DEF Upgrade!YamlRename, Keeps, Places
<1>2. CASE Upgrade!Exists("yaml")
    <2>1. names' = [names EXCEPT !["yaml.bak"] = names["yaml"], !["yaml"] = 0]
        BY <1>2 DEF Upgrade!YamlRename, Upgrade!None
    <2>2. /\ names' \in [Upgrade!Names -> Slots \cup {0}]
          /\ names'["yaml.bak"] = names["yaml"] /\ names'["yaml"] = 0
          /\ \A n \in Upgrade!Names \ {"yaml", "yaml.bak"} : names'[n] = names[n]
        BY <2>1 DEF UpgradeTyped, Upgrade!Names
    <2>3. QED
        BY <1>1, <1>2, <2>2 DEF Upgrade!YamlRename, Upgrade!Aside
<1>3. CASE ~ Upgrade!Exists("yaml")
    BY <1>1, <1>3 DEF Upgrade!YamlRename, Upgrade!Aside
<1>4. QED
    BY <1>2, <1>3

\* The database has the single table.
Single == Upgrade!Exists("db") /\ files[names["db"]].kind = "single"

LEMMA Probes ==
    ASSUME UpgradeTyped, NEW p \in Processes, Upgrade!Probe(p)
    PROVE  /\ procs[p].pc = "probe" /\ Quiet /\ UNCHANGED together
           /\ \/ ~ Single /\ Keeps(p, "open")
              \/ Single /\ Upgrade!Exists(Backup) /\ Keeps(p, "read")
              \/ Single /\ ~ Upgrade!Exists(Backup) /\ Keeps(p, "copy")
<1>1. procs[p].pc = "probe" /\ Quiet /\ UNCHANGED together
    BY DEF Upgrade!Probe, Quiet, Upgrade!Aside
<1>2. \/ ~ Single /\ Upgrade!Goto(p, "open")
      \/ Single /\ Upgrade!Exists(Backup) /\ Upgrade!Goto(p, "read")
      \/ Single /\ ~ Upgrade!Exists(Backup) /\ Upgrade!Goto(p, "copy")
    BY DEF Upgrade!Probe, Single, Upgrade!At, Backup
<1>3. \A at \in {"open", "read", "copy"} : Upgrade!Goto(p, at) => Keeps(p, at)
    BY GoesToPlace DEF Keeps, Places
<1>4. QED
    BY <1>1, <1>2, <1>3

\* The backup is made or truncated, and written later.
LEMMA CopiesIt ==
    ASSUME UpgradeSetting, UpgradeTyped, NEW p \in Processes, Upgrade!Copy(p)
    PROVE  /\ procs[p].pc = "copy" /\ UNCHANGED <<models, unseen, together>>
           /\ \E i \in Slots :
                 /\ IF Upgrade!Exists(Backup) THEN i = names[Backup] ELSE Fresh(i)
                 /\ Leads(Backup, i) /\ Written(i, "torn", {}, {})
                 /\ Becomes(p, "copied", i, names["db"], procs[p].rows, procs[p].column,
                            procs[p].raised)
<1> DEFINE i == IF Upgrade!Exists(Backup) THEN names[Backup] ELSE Upgrade!NewFile
           c == [Upgrade!Unused EXCEPT !.kind = "torn"]
<1>1. /\ procs[p].pc = "copy" /\ UNCHANGED <<models, unseen, together>>
      /\ Upgrade!Exists(Backup) \/ Upgrade!Free # {}
      /\ names' = [names EXCEPT ![Backup] = i] /\ files' = [files EXCEPT ![i] = c]
      /\ procs' = [procs EXCEPT ![p].pc = "copied", ![p].open = i, ![p].from = names["db"]]
    BY DEF Upgrade!Copy, Upgrade!Aside, Backup
<1>2. IF Upgrade!Exists(Backup) THEN i = names[Backup] ELSE Fresh(i)
    BY <1>1, NewFileIsFresh
<1>3. Backup \in Upgrade!Names /\ "db" \in Upgrade!Names
    BY DEF Backup, Upgrade!Names
<1>4. i \in Slots
    BY <1>2, <1>3 DEF Upgrade!Exists, Upgrade!None, UpgradeTyped, Fresh
<1>5. /\ c \in [kind : {"none", "yaml", "single", "split", "torn"},
                rows : SUBSET (Old \cup Later), cols : SUBSET Identity]
      /\ c.kind = "torn" /\ c.rows = {} /\ c.cols = {}
    BY DEF Upgrade!Unused
<1> HIDE DEF i, c
<1>6. Written(i, c.kind, c.rows, c.cols)
    BY <1>1, <1>4, <1>5, FileChanges
<1>7. Leads(Backup, i)
    BY <1>1, <1>3, <1>4, NameChanges
<1>8. /\ names["db"] \in Slots \cup {0} /\ procs[p].rows \in SUBSET (Old \cup Later)
      /\ procs[p].column \in Identity \cup {""} /\ "copied" \in Places
    BY <1>3 DEF UpgradeTyped, Places
<1>9. Becomes(p, "copied", i, names["db"], procs[p].rows, procs[p].column, procs[p].raised)
    BY <1>1, <1>4, <1>8, GoesWith
<1>10. QED
    BY <1>1, <1>2, <1>4, <1>5, <1>6, <1>7, <1>9

LEMMA IsCopied ==
    ASSUME UpgradeTyped, NEW p \in Processes, Upgrade!Copied(p),
           procs[p].open \in Slots, procs[p].from \in Slots
    PROVE  /\ procs[p].pc = "copied" /\ UNCHANGED <<names, models, unseen, together>>
           /\ Becomes(p, "read", 0, 0, procs[p].rows, procs[p].column, procs[p].raised)
           /\ Written(procs[p].open, files[procs[p].from].kind, files[procs[p].from].rows,
                      files[procs[p].from].cols)
<1>1. /\ procs[p].pc = "copied" /\ UNCHANGED <<names, models, unseen, together>>
      /\ procs' = [procs EXCEPT ![p].pc = "read", ![p].open = 0, ![p].from = 0]
      /\ files' = [files EXCEPT ![procs[p].open] = files[procs[p].from]]
    BY DEF Upgrade!Copied, Upgrade!Aside, Upgrade!None
<1>2. /\ 0 \in Slots \cup {0} /\ procs[p].rows \in SUBSET (Old \cup Later)
      /\ procs[p].column \in Identity \cup {""} /\ "read" \in Places
    BY DEF UpgradeTyped, Places
<1>3. Becomes(p, "read", 0, 0, procs[p].rows, procs[p].column, procs[p].raised)
    BY <1>1, <1>2, GoesWith
<1>4. files[procs[p].from] \in [kind : {"none", "yaml", "single", "split", "torn"},
                rows : SUBSET (Old \cup Later), cols : SUBSET Identity]
    BY DEF UpgradeTyped
<1>5. QED
    BY <1>1, <1>3, <1>4, FileChanges

LEMMA Reads ==
    ASSUME UpgradeTyped, NEW p \in Processes, Upgrade!Read(p), Upgrade!Exists(Backup)
    PROVE  /\ procs[p].pc = "read" /\ Quiet /\ UNCHANGED together
           /\ \/ files[names[Backup]].kind # "single" /\ Fails(p)
              \/ /\ files[names[Backup]].kind = "single"
                 /\ Becomes(p, "split temp", procs[p].open, procs[p].from,
                            files[names[Backup]].rows, procs[p].column, procs[p].raised)
<1> DEFINE rows == files[names[Backup]].rows
<1>1. procs[p].pc = "read" /\ Quiet /\ UNCHANGED together
    BY DEF Upgrade!Read, Quiet, Upgrade!Aside
<1>2. /\ rows \in SUBSET (Old \cup Later) /\ "split temp" \in Places
      /\ procs[p].open \in Slots \cup {0} /\ procs[p].from \in Slots \cup {0}
      /\ procs[p].column \in Identity \cup {""}
    BY DEF UpgradeTyped, Places, Upgrade!Exists, Upgrade!None, Upgrade!Names, Backup
<1>3. CASE files[names[Backup]].kind = "single"
    <2>1. procs' = [procs EXCEPT ![p].pc = "split temp", ![p].rows = rows]
        BY <1>3 DEF Upgrade!Read, Upgrade!At, Backup
    <2> HIDE DEF rows
    <2>2. Becomes(p, "split temp", procs[p].open, procs[p].from, rows, procs[p].column,
                  procs[p].raised)
        BY <1>2, <2>1, GoesWith
    <2>3. QED
        BY <1>1, <1>3, <2>2 DEF rows
<1>4. CASE files[names[Backup]].kind # "single"
    <2>1. Upgrade!Raise(p)
        BY <1>4 DEF Upgrade!Read, Upgrade!At, Backup
    <2>2. QED
        BY <1>1, <1>4, <2>1, RaisesOrDies DEF Fails
<1>5. QED
    BY <1>3, <1>4

LEMMA Opens ==
    ASSUME UpgradeSetting, UpgradeTyped, NEW p \in Processes, Upgrade!Open(p)
    PROVE  /\ procs[p].pc = "open" /\ UNCHANGED <<models, unseen, together>>
           /\ \/ /\ Upgrade!Exists("db") /\ UNCHANGED <<names, files>>
                 /\ Onto(p, "columns", names["db"])
              \/ /\ ~ Upgrade!Exists("db")
                 /\ \E i \in Slots : Makes("db", i) /\ Onto(p, "columns", i)
<1>1. procs[p].pc = "open" /\ UNCHANGED <<models, unseen, together>>
    BY DEF Upgrade!Open, Upgrade!Aside
<1>2. /\ procs[p].from \in Slots \cup {0} /\ procs[p].rows \in SUBSET (Old \cup Later)
      /\ procs[p].column \in Identity \cup {""} /\ "columns" \in Places
    BY DEF UpgradeTyped, Places
<1>3. \A i \in Slots :
         procs' = [procs EXCEPT ![p].pc = "columns", ![p].open = i] => Onto(p, "columns", i)
    BY <1>2, GoesWith DEF Onto
<1>4. CASE Upgrade!Exists("db")
    <2>1. names["db"] \in Slots
        BY <1>4 DEF UpgradeTyped, Upgrade!Exists, Upgrade!None, Upgrade!Names
    <2>2. QED
        BY <1>1, <1>3, <1>4, <2>1 DEF Upgrade!Open
<1>5. CASE ~ Upgrade!Exists("db")
    <2> DEFINE i == Upgrade!NewFile
    <2>1. /\ Upgrade!Free # {} /\ i = Upgrade!NewFile
          /\ names' = [names EXCEPT !["db"] = i]
          /\ files' = [files EXCEPT ![i] = Upgrade!Split({})]
          /\ procs' = [procs EXCEPT ![p].pc = "columns", ![p].open = i]
        BY <1>5 DEF Upgrade!Open
    <2> HIDE DEF i
    <2>2. Makes("db", i)
        BY <2>1, IsMade DEF Upgrade!Names
    <2>3. i \in Slots
        BY <2>2 DEF Makes, Fresh
    <2>4. QED
        BY <1>1, <1>3, <1>5, <2>1, <2>2, <2>3
<1>6. QED
    BY <1>4, <1>5

LEMMA LooksForColumn ==
    ASSUME UpgradeTyped, NEW p \in Processes, Upgrade!LookForColumn(p)
    PROVE  /\ procs[p].pc = "columns" /\ Quiet /\ UNCHANGED together
           /\ \E c \in Identity \ files[procs[p].open].cols :
                 Becomes(p, "alter", procs[p].open, procs[p].from, procs[p].rows, c,
                         procs[p].raised)
<1>1. PICK c \in Identity \ files[procs[p].open].cols :
         procs' = [procs EXCEPT ![p].pc = "alter", ![p].column = c]
    BY DEF Upgrade!LookForColumn
<1>2. /\ procs[p].open \in Slots \cup {0} /\ procs[p].from \in Slots \cup {0}
      /\ procs[p].rows \in SUBSET (Old \cup Later) /\ "alter" \in Places
    BY DEF UpgradeTyped, Places
<1>3. Becomes(p, "alter", procs[p].open, procs[p].from, procs[p].rows, c, procs[p].raised)
    BY <1>1, <1>2, GoesWith
<1>4. QED
    BY <1>1, <1>3 DEF Upgrade!LookForColumn, Quiet, Upgrade!Aside

LEMMA ContentsChange ==
    ASSUME NEW f, f = [kind |-> f.kind, rows |-> f.rows, cols |-> f.cols], NEW v
    PROVE  /\ [f EXCEPT !.cols = v] = [kind |-> f.kind, rows |-> f.rows, cols |-> v]
           /\ [f EXCEPT !.rows = v] = [kind |-> f.kind, rows |-> v, cols |-> f.cols]
<1>1. ASSUME NEW k, NEW r, NEW c
      PROVE  /\ [[kind |-> k, rows |-> r, cols |-> c] EXCEPT !.cols = v]
                   = [kind |-> k, rows |-> r, cols |-> v]
             /\ [[kind |-> k, rows |-> r, cols |-> c] EXCEPT !.rows = v]
                   = [kind |-> k, rows |-> v, cols |-> c]
    OBVIOUS
<1>2. QED
    BY <1>1

LEMMA AddsColumn ==
    ASSUME UpgradeTyped, NEW p \in Processes, Upgrade!AddColumn(p),
           procs[p].open \in Slots, procs[p].column \in Identity
    PROVE  /\ procs[p].pc = "alter" /\ UNCHANGED <<names, models, unseen, together>>
           /\ \/ procs[p].column \in files[procs[p].open].cols /\ Fails(p) /\ UNCHANGED files
              \/ /\ Becomes(p, "columns", procs[p].open, procs[p].from, procs[p].rows, "",
                            procs[p].raised)
                 /\ \E cols : Written(procs[p].open, files[procs[p].open].kind,
                                      files[procs[p].open].rows, cols)
<1> DEFINE i == procs[p].open
           cols == files[i].cols \cup {procs[p].column}
           c == [kind |-> files[i].kind, rows |-> files[i].rows, cols |-> cols]
<1>1. procs[p].pc = "alter" /\ UNCHANGED <<names, models, unseen, together>>
    BY DEF Upgrade!AddColumn, Upgrade!Aside
<1>2. CASE procs[p].column \in files[i].cols
    <2>1. Upgrade!Raise(p) /\ UNCHANGED files
        BY <1>2 DEF Upgrade!AddColumn
    <2>2. QED
        BY <1>1, <1>2, <2>1, RaisesOrDies DEF Fails
<1>3. CASE procs[p].column \notin files[i].cols
    <2>1. /\ files' = [files EXCEPT ![i].cols = @ \cup {procs[p].column}]
          /\ procs' = [procs EXCEPT ![p].pc = "columns", ![p].column = ""]
        BY <1>3 DEF Upgrade!AddColumn
    <2>2. files[i] = [kind |-> files[i].kind, rows |-> files[i].rows, cols |-> files[i].cols]
        BY DEF UpgradeTyped
    <2>3. files' = [files EXCEPT ![i] = c]
        <3>1. files' = [files EXCEPT ![i] = [files[i] EXCEPT !.cols = cols]]
            BY <2>1
        <3>2. [files[i] EXCEPT !.cols = cols] = c
            BY <2>2, ContentsChange
        <3>3. QED
            BY <3>1, <3>2
    <2>4. c \in [kind : {"none", "yaml", "single", "split", "torn"},
                 rows : SUBSET (Old \cup Later), cols : SUBSET Identity]
        BY DEF UpgradeTyped
    <2>5. c.kind = files[i].kind /\ c.rows = files[i].rows /\ c.cols = cols
        OBVIOUS
    <2>6. /\ procs[p].from \in Slots \cup {0} /\ procs[p].rows \in SUBSET (Old \cup Later)
          /\ "columns" \in Places
        BY DEF UpgradeTyped, Places
    <2> HIDE DEF i, cols, c
    <2>7. Written(i, c.kind, c.rows, c.cols)
        BY <2>3, <2>4, FileChanges DEF i
    <2>8. Becomes(p, "columns", procs[p].open, procs[p].from, procs[p].rows, "",
                  procs[p].raised)
        BY <2>1, <2>6, GoesWith
    <2>9. QED
        BY <1>1, <2>5, <2>7, <2>8 DEF i
<1>4. QED
    BY <1>2, <1>3

LEMMA Loads ==
    ASSUME UpgradeTyped, NEW p \in Processes, Upgrade!Load(p), procs[p].open \in Slots
    PROVE  /\ procs[p].pc = "columns" /\ Quiet /\ UNCHANGED together
           /\ Becomes(p, "up", procs[p].open, procs[p].from, files[procs[p].open].rows,
                      procs[p].column, procs[p].raised)
<1>1. procs' = [procs EXCEPT ![p].pc = "up", ![p].rows = files[procs[p].open].rows]
    BY DEF Upgrade!Load
<1>2. /\ procs[p].from \in Slots \cup {0} /\ procs[p].column \in Identity \cup {""}
      /\ files[procs[p].open].rows \in SUBSET (Old \cup Later) /\ "up" \in Places
    BY DEF UpgradeTyped, Places
<1>3. QED
    BY <1>1, <1>2, GoesWith DEF Upgrade!Load, Quiet, Upgrade!Aside

LEMMA Dies ==
    ASSUME UpgradeTyped, NEW p \in Processes, Upgrade!Crash(p)
    PROVE  /\ Quiet /\ UNCHANGED together
           /\ Becomes(p, "down", 0, 0, {}, "", FALSE)
BY RaisesOrDies DEF Upgrade!Crash, Quiet

LEMMA OlderRegisters ==
    ASSUME UpgradeTyped, NEW m \in Later, Upgrade!OlderRelease(m)
    PROVE  /\ UNCHANGED <<names, procs, together>> /\ Single
           /\ \A p \in Processes : procs[p].pc \in {"down", "failed"}
           /\ models' = models \cup {m} /\ m \notin models
           /\ unseen' = (unseen \/ Upgrade!Exists(Backup))
           /\ Written(names["db"], "single", files[names["db"]].rows \cup {m},
                      files[names["db"]].cols)
<1> DEFINE i == names["db"]
           rows == files[i].rows \cup {m}
           c == [kind |-> files[i].kind, rows |-> rows, cols |-> files[i].cols]
<1>1. Single /\ i \in Slots
    BY DEF Upgrade!OlderRelease, Single, Upgrade!At, UpgradeTyped, Upgrade!Exists,
           Upgrade!None, Upgrade!Names
<1>2. /\ UNCHANGED <<names, procs, together>>
      /\ \A p \in Processes : procs[p].pc \in {"down", "failed"}
      /\ models' = models \cup {m} /\ m \notin models
      /\ unseen' = (unseen \/ Upgrade!Exists(Backup))
    BY DEF Upgrade!OlderRelease, Backup
<1>3. files[i] = [kind |-> files[i].kind, rows |-> files[i].rows, cols |-> files[i].cols]
    BY <1>1 DEF UpgradeTyped
<1>4. files' = [files EXCEPT ![i] = c]
    <2>1. files' = [files EXCEPT ![i] = [files[i] EXCEPT !.rows = rows]]
        BY DEF Upgrade!OlderRelease
    <2>2. [files[i] EXCEPT !.rows = rows] = c
        BY <1>3, ContentsChange
    <2>3. QED
        BY <2>1, <2>2
<1>5. c \in [kind : {"none", "yaml", "single", "split", "torn"},
             rows : SUBSET (Old \cup Later), cols : SUBSET Identity]
    BY <1>1 DEF UpgradeTyped
<1>6. c.kind = "single" /\ c.rows = rows /\ c.cols = files[i].cols
    BY <1>1 DEF Single
<1> HIDE DEF i, rows, c
<1>7. Written(i, c.kind, c.rows, c.cols)
    BY <1>1, <1>4, <1>5, FileChanges
<1>8. QED
    BY <1>1, <1>2, <1>6, <1>7 DEF i, rows

-----------------------------------------------------------------------------
OthersStay(p) == \A r \in Processes \ {p} : procs'[r] = procs[r]

\* What a step does to the files that are in use.
UseStays == \A i \in Slots : files[i].kind # "none" => files'[i].kind # "none"

\* No single-table database comes from nowhere.
SinglesStay ==
    \A i \in Slots : files'[i].kind = "single" =>
        \E j \in Slots : files[j].kind = "single" /\ (j = i \/ Upgrade!Exists(Backup)')

LEMMA NamesStayApart ==
    ASSUME NamesApart, UseStays, \A n \in Upgrade!Names : names[n] \in Slots \cup {0},
           \/ UNCHANGED names
           \/ \E n \in Upgrade!Names, i \in Slots :
                 /\ \A m \in Upgrade!Names \ {n} : names'[m] = names[m] /\ names[m] # i
                 /\ names'[n] = i /\ files'[i].kind # "none"
           \/ \E m, n \in Upgrade!Names :
                 /\ m # n /\ names'[n] = names[m] /\ names'[m] = 0
                 /\ \A k \in Upgrade!Names \ {m, n} : names'[k] = names[k]
    PROVE  NamesApart'
<1>1. CASE UNCHANGED names
    BY <1>1 DEF NamesApart, UseStays
<1>2. ASSUME NEW n \in Upgrade!Names, NEW i \in Slots,
             \A m \in Upgrade!Names \ {n} : names'[m] = names[m] /\ names[m] # i,
             names'[n] = i, files'[i].kind # "none"
      PROVE  NamesApart'
    BY <1>2 DEF NamesApart, UseStays
<1>3. ASSUME NEW m \in Upgrade!Names, NEW n \in Upgrade!Names,
             m # n, names'[n] = names[m], names'[m] = 0,
             \A k \in Upgrade!Names \ {m, n} : names'[k] = names[k]
      PROVE  NamesApart'
    <2>1. \A k \in Upgrade!Names : names'[k] # 0 => files'[names'[k]].kind # "none"
        BY <1>3 DEF NamesApart, UseStays
    <2>2. ASSUME NEW k \in Upgrade!Names, NEW l \in Upgrade!Names,
                 names'[k] = names'[l], names'[k] # 0
          PROVE  k = l
        BY <1>3, <2>2 DEF NamesApart
    <2>3. QED
        BY <2>1, <2>2 DEF NamesApart
<1>4. QED
    BY <1>1, <1>2, <1>3

LEMMA SinglesStayWhere ==
    ASSUME SinglesAre, SinglesStay, NEW p \in Processes, OthersStay(p),
           Upgrade!Exists(Backup) => Upgrade!Exists(Backup)',
           Upgrade!Exists("yaml")' => Upgrade!Exists("yaml"),
           Importing(p)' => Importing(p) \/ Upgrade!Exists("yaml"),
           procs'[p].pc \in {"copied", "read"} \/ Splitting(p)' => Upgrade!Exists(Backup)',
           \/ names'["db"] = names["db"] \/ Upgrade!Exists(Backup)'
           \/ \A i \in Slots : files[i].kind # "single"
    PROVE  SinglesAre'
<1>1. ASSUME NEW i \in Slots, files'[i].kind = "single"
      PROVE  /\ i = names'["db"] \/ Upgrade!Exists(Backup)'
             /\ ~ Upgrade!Exists("yaml")' /\ \A q \in Processes : ~ Importing(q)'
    <2>1. PICK j \in Slots : files[j].kind = "single" /\ (j = i \/ Upgrade!Exists(Backup)')
        BY <1>1 DEF SinglesStay
    <2>2. QED
        BY <2>1 DEF SinglesAre, OthersStay, Importing
<1>2. \A q \in Processes : 
         procs'[q].pc \in {"copied", "read"} \/ Splitting(q)' => Upgrade!Exists(Backup)'
    BY DEF SinglesAre, OthersStay, Splitting
<1>3. QED
    BY <1>1, <1>2 DEF SinglesAre

\* One process has a file open.
Holds(p) ==
    /\ procs[p].pc \in {"yaml fill", "split fill", "yaml swap", "split swap",
                            "copied", "columns", "alter"} =>
          procs[p].open \in Slots
    /\ procs[p].pc = "copied" =>
          procs[p].from \in Slots /\ files[procs[p].from].kind # "none"
    /\ procs[p].pc = "copy" => Upgrade!Exists("db")
    /\ procs[p].pc = "alter" => procs[p].column \in Identity

LEMMA HoldingStays ==
    ASSUME Holding, UseStays, NEW p \in Processes, OthersStay(p), Holds(p)',
           Upgrade!Exists("db") => Upgrade!Exists("db")'
    PROVE  Holding'
BY DEF Holding, Holds, OthersStay, UseStays

-----------------------------------------------------------------------------
LEMMA NamesAre ==
    ASSUME UpgradeTyped
    PROVE  \A n \in Upgrade!Names : names[n] \in Slots \cup {0}
BY DEF UpgradeTyped

LEMMA TypesStay ==
    ASSUME UpgradeTyped, UNCHANGED <<models, unseen, together>>,
           procs' \in [Processes -> Records],
           UNCHANGED names \/ names' \in [Upgrade!Names -> Slots \cup {0}],
           \/ UNCHANGED files
           \/ files' \in [Slots -> [kind : {"none", "yaml", "single", "split", "torn"},
                                    rows : SUBSET (Old \cup Later), cols : SUBSET Identity]]
    PROVE  UpgradeTyped'
BY DEF UpgradeTyped, Records

\* A process goes on, and the files and their names stay.
LEMMA GoesOnAlone ==
    ASSUME FilesKept, NEW p \in Processes, OthersStay(p), UNCHANGED <<names, files>>,
           Importing(p)' => Importing(p) \/ Upgrade!Exists("yaml"),
           procs'[p].pc \in {"copied", "read"} \/ Splitting(p)' => Upgrade!Exists(Backup),
           Holds(p)'
    PROVE  NamesApart' /\ SinglesAre' /\ Holding'
<1>1. UseStays /\ SinglesStay
    BY DEF UseStays, SinglesStay
<1>2. \A n : Upgrade!Exists(n)' <=> Upgrade!Exists(n)
    BY DEF Upgrade!Exists
<1>3. NamesApart'
    BY DEF FilesKept, NamesApart
<1>4. SinglesAre'
    BY <1>1, <1>2, SinglesStayWhere DEF FilesKept
<1>5. Holding'
    BY <1>1, <1>2, HoldingStays DEF FilesKept
<1>6. QED
    BY <1>3, <1>4, <1>5

LEMMA FilesStay ==
    ASSUME UpgradeSetting, FilesKept, Upgrade!Next
    PROVE  FilesKept'
<1> USE DEF Places
<1>0. UpgradeTyped /\ NamesApart /\ SinglesAre /\ Holding
    BY DEF FilesKept
<1>1. ASSUME NEW p \in Processes, Upgrade!Boot(p) PROVE FilesKept'
    <2>1. PICK at \in {"yaml temp", "probe"} :
             Quiet /\ Keeps(p, at) /\ (at = "yaml temp" => Upgrade!Exists("yaml"))
        BY <1>0, <1>1, Boots
    <2>2. /\ OthersStay(p) /\ procs' \in [Processes -> Records] /\ procs'[p].pc = at
          /\ Importing(p)' => at = "yaml temp"
          /\ ~ Splitting(p)'
        BY <2>1 DEF Becomes, OthersStay, Importing, Splitting, Keeps
    <2>3. together' \in BOOLEAN
        BY <1>0, <1>1, Boots DEF UpgradeTyped
    <2>4. UpgradeTyped'
        BY <1>0, <2>1, <2>2, <2>3 DEF UpgradeTyped, Records, Quiet
    <2>5. NamesApart' /\ SinglesAre' /\ Holding'
        BY <2>1, <2>2, GoesOnAlone DEF Quiet, Holds
    <2>6. QED
        BY <2>4, <2>5 DEF FilesKept
<1>2. ASSUME NEW p \in Processes, Upgrade!Probe(p) PROVE FilesKept'
    <2>1. PICK at \in {"open", "read", "copy"} :
             /\ Quiet /\ UNCHANGED together /\ Keeps(p, at)
             /\ at = "read" => Upgrade!Exists(Backup)
             /\ at = "copy" => Upgrade!Exists("db")
        BY <1>0, <1>2, Probes DEF Single
    <2>2. /\ OthersStay(p) /\ procs' \in [Processes -> Records] /\ procs'[p].pc = at
          /\ ~ Importing(p)' /\ ~ Splitting(p)'
        BY <2>1 DEF Becomes, OthersStay, Importing, Splitting, Keeps
    <2>3. UpgradeTyped'
        BY <1>0, <2>1, <2>2, TypesStay DEF Quiet
    <2>4. Holds(p)'
        BY <2>1, <2>2 DEF Holds, Quiet, Upgrade!Exists
    <2>5. NamesApart' /\ SinglesAre' /\ Holding'
        BY <2>1, <2>2, <2>4, GoesOnAlone DEF Quiet
    <2>6. QED
        BY <2>3, <2>5 DEF FilesKept
<1>3. ASSUME NEW p \in Processes, Upgrade!Read(p) PROVE FilesKept'
    <2>1. Upgrade!Exists(Backup)
        BY <1>0, <1>3 DEF Upgrade!Read, SinglesAre
    <2>2. Quiet /\ UNCHANGED together
        BY <1>0, <1>3, <2>1, Reads
    <2>3. /\ OthersStay(p) /\ procs' \in [Processes -> Records]
          /\ procs'[p].pc \in {"failed", "split temp"} /\ ~ Importing(p)'
        BY <1>0, <1>3, <2>1, Reads DEF Becomes, OthersStay, Importing, Splitting, Fails
    <2>4. UpgradeTyped'
        BY <1>0, <2>2, <2>3, TypesStay DEF Quiet
    <2>5. Holds(p)'
        BY <2>3 DEF Holds
    <2>6. NamesApart' /\ SinglesAre' /\ Holding'
        BY <2>1, <2>2, <2>3, <2>5, GoesOnAlone DEF Quiet
    <2>7. QED
        BY <2>4, <2>6 DEF FilesKept
<1>4. ASSUME NEW p \in Processes, Upgrade!LookForColumn(p) PROVE FilesKept'
    <2>1. Quiet /\ UNCHANGED together /\ procs[p].open \in Slots
        BY <1>0, <1>4, LooksForColumn DEF Holding
    <2>2. PICK c \in Identity \ files[procs[p].open].cols :
                 Becomes(p, "alter", procs[p].open, procs[p].from, procs[p].rows, c,
                         procs[p].raised)
        BY <1>0, <1>4, LooksForColumn
    <2>3. /\ OthersStay(p) /\ procs' \in [Processes -> Records] /\ procs'[p].pc = "alter"
          /\ procs'[p].open = procs[p].open /\ procs'[p].column = c
          /\ ~ Importing(p)' /\ ~ Splitting(p)'
        BY <2>2 DEF Becomes, OthersStay, Importing, Splitting
    <2>4. UpgradeTyped'
        BY <1>0, <2>1, <2>3, TypesStay DEF Quiet
    <2>5. Holds(p)'
        BY <2>1, <2>2, <2>3 DEF Holds
    <2>6. NamesApart' /\ SinglesAre' /\ Holding'
        BY <2>1, <2>3, <2>5, GoesOnAlone DEF Quiet
    <2>7. QED
        BY <2>4, <2>6 DEF FilesKept
<1>5. ASSUME NEW p \in Processes, Upgrade!Load(p) \/ Upgrade!Crash(p) PROVE FilesKept'
    <2>1. Upgrade!Load(p) => procs[p].open \in Slots
        BY <1>0 DEF Holding, Upgrade!Load
    <2>2. Quiet /\ UNCHANGED together
        BY <1>0, <1>5, <2>1, Loads, Dies
    <2>3. /\ OthersStay(p) /\ procs' \in [Processes -> Records]
          /\ procs'[p].pc \in {"up", "down"} /\ ~ Importing(p)' /\ ~ Splitting(p)'
        BY <1>0, <1>5, <2>1, Loads, Dies DEF Becomes, OthersStay, Importing, Splitting
    <2>4. UpgradeTyped'
        BY <1>0, <2>2, <2>3, TypesStay DEF Quiet
    <2>5. Holds(p)'
        BY <2>3 DEF Holds
    <2>6. NamesApart' /\ SinglesAre' /\ Holding'
        BY <2>2, <2>3, <2>5, GoesOnAlone DEF Quiet
    <2>7. QED
        BY <2>4, <2>6 DEF FilesKept
<1>6. ASSUME NEW p \in Processes, NEW n \in {"db", "db.tmp"}, NEW i \in Slots, Makes(n, i),
             NEW at \in {"yaml fill", "split fill", "columns"}, Onto(p, at, i),
             at = "yaml fill" => Importing(p), at = "split fill" => Splitting(p),
             n = "db" => ~ Upgrade!Exists("db"),
             UNCHANGED <<models, unseen, together>>
      PROVE  FilesKept'
    <2>1. Fresh(i) /\ files[i].kind = "none" /\ \A m \in Upgrade!Names : names[m] # i
        BY <1>6, FreshIsApart DEF Makes
    <2>2. Leads(n, i) /\ Written(i, "split", {}, Identity)
        BY <1>6 DEF Makes
    <2>3. /\ OthersStay(p) /\ procs' \in [Processes -> Records] /\ procs'[p].pc = at
          /\ procs'[p].open = i
          /\ Importing(p)' => Importing(p)
          /\ Splitting(p)' => Splitting(p)
        BY <1>6 DEF Becomes, OthersStay, Importing, Splitting, Onto
    <2>4. UpgradeTyped'
        BY <1>0, <1>6, <2>2, <2>3, TypesStay DEF Leads, Written
    <2>5. UseStays /\ SinglesStay
        BY <2>2 DEF Written, UseStays, SinglesStay
    <2>6. NamesApart'
        <3>1. /\ n \in Upgrade!Names /\ names'[n] = i /\ files'[i].kind # "none"
              /\ \A m \in Upgrade!Names \ {n} : names'[m] = names[m] /\ names[m] # i
            BY <2>1, <2>2 DEF Leads, Written, Upgrade!Names
        <3>2. QED
            BY <1>0, <2>5, <3>1, NamesAre, NamesStayApart
    <2>7. /\ names'["yaml"] = names["yaml"] /\ names'[Backup] = names[Backup]
          /\ Upgrade!Exists("db") => Upgrade!Exists("db")'
          /\ n = "db.tmp" => names'["db"] = names["db"]
        BY <1>6, <2>2 DEF Leads, Upgrade!Names, Backup, Upgrade!Exists
    <2>8. \/ names'["db"] = names["db"] \/ Upgrade!Exists(Backup)'
          \/ \A j \in Slots : files[j].kind # "single"
        BY <1>0, <1>6, <2>7 DEF SinglesAre, Upgrade!Exists, UpgradeSetting, Upgrade!None
    <2>9. SinglesAre'
        BY <1>0, <2>3, <2>5, <2>7, <2>8, SinglesStayWhere DEF Upgrade!Exists, SinglesAre
    <2>10. Holds(p)'
        BY <2>3 DEF Holds
    <2>11. QED
        BY <1>0, <2>3, <2>4, <2>5, <2>6, <2>7, <2>9, <2>10, HoldingStays DEF FilesKept
<1>7. ASSUME NEW p \in Processes, Upgrade!YamlTemp(p) \/ Upgrade!SplitTemp(p)
      PROVE  FilesKept'
    <2>1. PICK i \in Slots :
             /\ Makes("db.tmp", i)
             /\ \/ procs[p].pc = "yaml temp" /\ Onto(p, "yaml fill", i)
                \/ procs[p].pc = "split temp" /\ Onto(p, "split fill", i)
        BY <1>0, <1>7, MakesTemp
    <2>2. UNCHANGED <<models, unseen, together>>
        BY <1>0, <1>7, MakesTemp
    <2>3. QED
        BY <1>6, <2>1, <2>2 DEF Importing, Splitting
<1>8. ASSUME NEW p \in Processes, Upgrade!Open(p) PROVE FilesKept'
    <2>1. CASE Upgrade!Exists("db")
        <3>1. /\ UNCHANGED <<names, files, models, unseen, together>>
              /\ Onto(p, "columns", names["db"])
            BY <1>0, <1>8, <2>1, Opens
        <3>2. /\ OthersStay(p) /\ procs' \in [Processes -> Records]
              /\ procs'[p].pc = "columns" /\ procs'[p].open = names["db"]
              /\ ~ Importing(p)' /\ ~ Splitting(p)'
            BY <3>1 DEF Becomes, OthersStay, Importing, Splitting, Onto
        <3>3. names["db"] \in Slots
            BY <1>0, <2>1, NamesAre DEF Upgrade!Exists, Upgrade!None, Upgrade!Names
        <3>4. Holds(p)'
            BY <3>2, <3>3 DEF Holds
        <3>5. QED
            BY <1>0, <3>1, <3>2, <3>4, TypesStay, GoesOnAlone DEF FilesKept
    <2>2. CASE ~ Upgrade!Exists("db")
        BY <1>0, <1>6, <1>8, <2>2, Opens
    <2>3. QED
        BY <2>1, <2>2
<1>9. ASSUME NEW p \in Processes,
             NEW i \in Slots, NEW rows, NEW cols, NEW kind, Written(i, kind, rows, cols),
             kind # "none", kind = "single" => files[i].kind = "single",
             OthersStay(p), procs' \in [Processes -> Records], Holds(p)',
             Importing(p)' => Importing(p), Splitting(p)' => Splitting(p),
             procs'[p].pc \notin {"copied", "read"},
             UNCHANGED <<names, models, unseen, together>>
      PROVE  FilesKept'
    <2>1. UpgradeTyped'
        BY <1>0, <1>9, TypesStay DEF Written
    <2>2. UseStays /\ SinglesStay
        BY <1>9 DEF Written, UseStays, SinglesStay
    <2>3. \A n : Upgrade!Exists(n)' <=> Upgrade!Exists(n)
        BY <1>9 DEF Upgrade!Exists
    <2>4. NamesApart'
        BY <1>0, <1>9, <2>2, NamesAre, NamesStayApart
    <2>5. SinglesAre'
        BY <1>0, <1>9, <2>2, <2>3, SinglesStayWhere DEF SinglesAre
    <2>6. Holding'
        BY <1>0, <1>9, <2>2, <2>3, HoldingStays
    <2>7. QED
        BY <2>1, <2>4, <2>5, <2>6 DEF FilesKept
<1>10. ASSUME NEW p \in Processes, Upgrade!YamlFill(p) \/ Upgrade!SplitFill(p)
      PROVE  FilesKept'
    <2>1. procs[p].open \in Slots
        BY <1>0, <1>10 DEF Holding, Upgrade!YamlFill, Upgrade!SplitFill
    <2>2. UNCHANGED <<names, models, unseen, together>>
        BY <1>0, <1>10, <2>1, FillsYaml, FillsSplit
    <2>3. CASE Fails(p) /\ UNCHANGED files
        <3>1. /\ OthersStay(p) /\ procs' \in [Processes -> Records] /\ procs'[p].pc = "failed"
              /\ ~ Importing(p)' /\ ~ Splitting(p)'
            BY <2>3 DEF Fails, Becomes, OthersStay, Importing, Splitting
        <3>2. QED
            BY <1>0, <2>2, <2>3, <3>1, TypesStay, GoesOnAlone DEF FilesKept, Holds
    <2>4. CASE Keeps(p, "yaml swap") \/ Keeps(p, "split swap")
        <3>1. PICK rows : Written(procs[p].open, "split", rows, Identity)
            BY <1>0, <1>10, <2>1, <2>4, FillsYaml, FillsSplit DEF Keeps, Fails, Becomes
        <3>2. /\ OthersStay(p) /\ procs' \in [Processes -> Records]
              /\ procs'[p].pc \in {"yaml swap", "split swap"} /\ procs'[p].open = procs[p].open
            BY <2>4 DEF Keeps, Becomes, OthersStay
        <3>3. /\ Importing(p)' => Importing(p)
              /\ Splitting(p)' => Splitting(p)
            BY <1>0, <1>10, <2>1, <2>4, FillsYaml, FillsSplit
               DEF Keeps, Fails, Becomes, Importing, Splitting
        <3>4. Holds(p)'
            BY <2>1, <3>2 DEF Holds
        <3>5. QED
            BY <1>9, <2>1, <2>2, <3>1, <3>2, <3>3, <3>4
    <2>5. QED
        BY <1>0, <1>10, <2>1, <2>3, <2>4, FillsYaml, FillsSplit
<1>11. ASSUME NEW p \in Processes, Upgrade!AddColumn(p) PROVE FilesKept'
    <2>1. procs[p].open \in Slots /\ procs[p].column \in Identity
        BY <1>0, <1>11 DEF Holding, Upgrade!AddColumn
    <2>2. UNCHANGED <<names, models, unseen, together>>
        BY <1>0, <1>11, <2>1, AddsColumn
    <2>3. /\ OthersStay(p) /\ procs' \in [Processes -> Records]
          /\ procs'[p].pc \in {"failed", "columns"}
          /\ procs'[p].pc = "columns" => procs'[p].open = procs[p].open
          /\ ~ Importing(p)' /\ ~ Splitting(p)'
        BY <1>0, <1>11, <2>1, AddsColumn
           DEF Fails, Becomes, OthersStay, Importing, Splitting
    <2>4. Holds(p)'
        BY <2>1, <2>3 DEF Holds
    <2>5. CASE UNCHANGED files
        BY <1>0, <2>2, <2>3, <2>4, <2>5, TypesStay, GoesOnAlone DEF FilesKept
    <2>6. ASSUME NEW cols, Written(procs[p].open, files[procs[p].open].kind,
                                   files[procs[p].open].rows, cols)
          PROVE  FilesKept'
        <3>1. CASE files[procs[p].open].kind # "none"
            BY <1>9, <2>1, <2>2, <2>3, <2>4, <2>6, <3>1
        <3>2. CASE files[procs[p].open].kind = "none"
            <4>1. UpgradeTyped'
                BY <1>0, <2>2, <2>3, <2>6, TypesStay DEF Written
            <4>2. UseStays /\ SinglesStay
                BY <2>6, <3>2 DEF Written, UseStays, SinglesStay
            <4>3. \A n : Upgrade!Exists(n)' <=> Upgrade!Exists(n)
                BY <2>2 DEF Upgrade!Exists
            <4>4. NamesApart'
                BY <1>0, <2>2, <4>2, NamesAre, NamesStayApart
            <4>5. SinglesAre'
                BY <1>0, <2>2, <2>3, <4>2, <4>3, SinglesStayWhere DEF SinglesAre
            <4>6. QED
                BY <1>0, <2>3, <2>4, <4>1, <4>2, <4>3, <4>4, <4>5, HoldingStays DEF FilesKept
        <3>3. QED
            BY <3>1, <3>2
    <2>7. QED
        BY <1>0, <1>11, <2>1, <2>5, <2>6, AddsColumn
<1>12. ASSUME NEW p \in Processes, Upgrade!YamlSwap(p) \/ Upgrade!SplitSwap(p)
      PROVE  FilesKept'
    <2>1. UNCHANGED <<files, models, unseen, together>>
        BY <1>0, <1>12, Swaps
    <2>2. /\ OthersStay(p) /\ procs' \in [Processes -> Records]
          /\ procs'[p].pc \in {"failed", "yaml rename", "open"}
          /\ Importing(p)' => Importing(p)
          /\ ~ Splitting(p)'
        BY <1>0, <1>12, Swaps DEF Onto, Fails, Becomes, OthersStay, Importing, Splitting
    <2>3. Holds(p)'
        BY <2>2 DEF Holds
    <2>4. CASE UNCHANGED names
        BY <1>0, <2>1, <2>2, <2>3, <2>4, TypesStay, GoesOnAlone DEF FilesKept
    <2>5. CASE /\ Upgrade!Exists("db.tmp")
               /\ names' \in [Upgrade!Names -> Slots \cup {0}]
               /\ names'["db"] = names["db.tmp"] /\ names'["db.tmp"] = 0
               /\ \A n \in Upgrade!Names \ {"db", "db.tmp"} : names'[n] = names[n]
        <3>1. UpgradeTyped'
            BY <1>0, <2>1, <2>2, <2>5, TypesStay
        <3>2. UseStays /\ SinglesStay
            BY <2>1 DEF UseStays, SinglesStay
        <3>3. /\ names'["yaml"] = names["yaml"] /\ names'[Backup] = names[Backup]
              /\ names'["db"] # 0
            BY <2>5 DEF Upgrade!Exists, Upgrade!Names, Backup, Upgrade!None
        <3>4. NamesApart'
            <4>1. "db" \in Upgrade!Names /\ "db.tmp" \in Upgrade!Names
                BY DEF Upgrade!Names
            <4>2. QED
                BY <1>0, <2>5, <3>2, <4>1, NamesAre, NamesStayApart
        <3>5. /\ Upgrade!Exists(Backup) => Upgrade!Exists(Backup)'
              /\ Upgrade!Exists("yaml")' => Upgrade!Exists("yaml")
              /\ Upgrade!Exists("db")'
            BY <3>3 DEF Upgrade!Exists, Upgrade!None
        <3>6. Upgrade!Exists(Backup)' \/ \A i \in Slots : files[i].kind # "single"
            BY <1>0, <1>12, <3>5 DEF SinglesAre, Upgrade!YamlSwap, Upgrade!SplitSwap,
                                     Importing, Splitting
        <3>7. SinglesAre'
            BY <1>0, <2>2, <3>2, <3>5, <3>6, SinglesStayWhere
        <3>8. QED
            BY <1>0, <2>2, <2>3, <3>1, <3>2, <3>4, <3>5, <3>7, HoldingStays DEF FilesKept
    <2>6. QED
        BY <1>0, <1>12, <2>4, <2>5, Swaps
<1>13. ASSUME NEW p \in Processes, Upgrade!YamlRename(p) PROVE FilesKept'
    <2>1. UNCHANGED <<files, models, unseen, together>>
        BY <1>0, <1>13, Renames
    <2>2. /\ OthersStay(p) /\ procs' \in [Processes -> Records]
          /\ procs'[p].pc = "probe" /\ ~ Importing(p)' /\ ~ Splitting(p)'
        BY <1>0, <1>13, Renames DEF Keeps, Becomes, OthersStay, Importing, Splitting
    <2>3. Holds(p)'
        BY <2>2 DEF Holds
    <2>4. CASE UNCHANGED names
        BY <1>0, <2>1, <2>2, <2>3, <2>4, TypesStay, GoesOnAlone DEF FilesKept
    <2>5. CASE /\ Upgrade!Exists("yaml")
               /\ names' \in [Upgrade!Names -> Slots \cup {0}]
               /\ names'["yaml.bak"] = names["yaml"] /\ names'["yaml"] = 0
               /\ \A n \in Upgrade!Names \ {"yaml", "yaml.bak"} : names'[n] = names[n]
        <3>1. UpgradeTyped'
            BY <1>0, <2>1, <2>2, <2>5, TypesStay
        <3>2. UseStays /\ SinglesStay
            BY <2>1 DEF UseStays, SinglesStay
        <3>3. names'["db"] = names["db"] /\ names'[Backup] = names[Backup]
            BY <2>5 DEF Upgrade!Names, Backup
        <3>4. NamesApart'
            <4>1. "yaml" \in Upgrade!Names /\ "yaml.bak" \in Upgrade!Names
                BY DEF Upgrade!Names
            <4>2. QED
                BY <1>0, <2>5, <3>2, <4>1, NamesAre, NamesStayApart
        <3>5. /\ Upgrade!Exists(Backup) => Upgrade!Exists(Backup)'
              /\ ~ Upgrade!Exists("yaml")'
              /\ Upgrade!Exists("db") => Upgrade!Exists("db")'
            BY <2>5, <3>3 DEF Upgrade!Exists, Upgrade!None
        <3>6. SinglesAre'
            BY <1>0, <2>2, <3>2, <3>3, <3>5, SinglesStayWhere
        <3>7. QED
            BY <1>0, <2>2, <2>3, <3>1, <3>2, <3>4, <3>5, <3>6, HoldingStays DEF FilesKept
    <2>6. QED
        BY <1>0, <1>13, <2>4, <2>5, Renames
<1>14. ASSUME NEW p \in Processes, Upgrade!Copy(p) PROVE FilesKept'
    <2>1. PICK i \in Slots :
             /\ IF Upgrade!Exists(Backup) THEN i = names[Backup] ELSE Fresh(i)
             /\ Leads(Backup, i) /\ Written(i, "torn", {}, {})
             /\ Becomes(p, "copied", i, names["db"], procs[p].rows, procs[p].column,
                        procs[p].raised)
        BY <1>0, <1>14, CopiesIt
    <2>2. UNCHANGED <<models, unseen, together>>
        BY <1>0, <1>14, CopiesIt
    <2>3. /\ OthersStay(p) /\ procs' \in [Processes -> Records]
          /\ procs'[p].pc = "copied" /\ procs'[p].open = i /\ procs'[p].from = names["db"]
          /\ ~ Importing(p)' /\ ~ Splitting(p)'
        BY <2>1 DEF Becomes, OthersStay, Importing, Splitting
    <2>4. UpgradeTyped'
        BY <1>0, <2>1, <2>2, <2>3, TypesStay DEF Leads, Written
    <2>5. UseStays /\ SinglesStay
        BY <2>1 DEF Written, UseStays, SinglesStay
    <2>6. /\ names'["yaml"] = names["yaml"] /\ names'["db"] = names["db"]
          /\ names'[Backup] = i /\ Backup \in Upgrade!Names /\ i # 0
          /\ \A n \in Upgrade!Names \ {Backup} : names'[n] = names[n]
        BY <2>1 DEF Leads, Upgrade!Names, Backup, UpgradeSetting
    <2>7. NamesApart'
        <3>1. \A n \in Upgrade!Names \ {Backup} : names[n] # i
            <4>1. CASE Upgrade!Exists(Backup)
                BY <1>0, <2>1, <2>6, <4>1 DEF NamesApart
            <4>2. CASE ~ Upgrade!Exists(Backup)
                BY <2>1, <4>2, FreshIsApart
            <4>3. QED
                BY <4>1, <4>2
        <3>2. files'[i].kind # "none"
            BY <2>1 DEF Written
        <3>3. QED
            BY <1>0, <2>5, <2>6, <3>1, <3>2, NamesAre, NamesStayApart
    <2>8. /\ Upgrade!Exists(Backup)'
          /\ Upgrade!Exists("yaml")' => Upgrade!Exists("yaml")
          /\ Upgrade!Exists("db") => Upgrade!Exists("db")'
        BY <2>6 DEF Upgrade!Exists, Upgrade!None
    <2>9. SinglesAre'
        BY <1>0, <2>3, <2>5, <2>8, SinglesStayWhere
    <2>10. names["db"] \in Slots
        BY <1>0, <1>14, NamesAre DEF Holding, Upgrade!Copy, Upgrade!Exists, Upgrade!Names,
                                     Upgrade!None
    <2>11. Holds(p)'
        BY <1>0, <2>3, <2>5, <2>10
           DEF Holds, UseStays, NamesApart, Upgrade!Names, UpgradeSetting
    <2>12. QED
        BY <1>0, <2>3, <2>4, <2>5, <2>7, <2>8, <2>9, <2>11, HoldingStays DEF FilesKept
<1>15. ASSUME NEW p \in Processes, Upgrade!Copied(p) PROVE FilesKept'
    <2>1. procs[p].open \in Slots /\ procs[p].from \in Slots
        BY <1>0, <1>15 DEF Holding, Upgrade!Copied
    <2>2. /\ UNCHANGED <<names, models, unseen, together>>
          /\ Written(procs[p].open, files[procs[p].from].kind, files[procs[p].from].rows,
                      files[procs[p].from].cols)
        BY <1>0, <1>15, <2>1, IsCopied
    <2>3. /\ OthersStay(p) /\ procs' \in [Processes -> Records]
          /\ procs'[p].pc = "read" /\ ~ Importing(p)' /\ ~ Splitting(p)'
        BY <1>0, <1>15, <2>1, IsCopied DEF Becomes, OthersStay, Importing, Splitting
    <2>4. Upgrade!Exists(Backup)' /\ files[procs[p].from].kind # "none"
        BY <1>0, <1>15, <2>2 DEF SinglesAre, Holding, Upgrade!Copied, Upgrade!Exists
    <2>5. UpgradeTyped'
        BY <1>0, <2>2, <2>3, TypesStay DEF Written
    <2>6. UseStays /\ SinglesStay
        BY <2>1, <2>2, <2>4 DEF Written, UseStays, SinglesStay
    <2>7. \A n : Upgrade!Exists(n)' <=> Upgrade!Exists(n)
        BY <2>2 DEF Upgrade!Exists
    <2>8. NamesApart'
        BY <1>0, <2>2, <2>6, NamesAre, NamesStayApart
    <2>9. SinglesAre'
        BY <1>0, <2>2, <2>3, <2>4, <2>6, <2>7, SinglesStayWhere
    <2>10. Holds(p)'
        BY <2>3 DEF Holds
    <2>11. QED
        BY <1>0, <2>3, <2>5, <2>6, <2>7, <2>8, <2>9, <2>10, HoldingStays DEF FilesKept
<1>16. ASSUME NEW m \in Later, Upgrade!OlderRelease(m) PROVE FilesKept'
    <2>1. /\ UNCHANGED <<names, procs, together>> /\ Single
          /\ models' = models \cup {m} /\ unseen' = (unseen \/ Upgrade!Exists(Backup))
          /\ Written(names["db"], "single", files[names["db"]].rows \cup {m},
                      files[names["db"]].cols)
        BY <1>0, <1>16, OlderRegisters
    <2>2. UpgradeTyped'
        BY <1>0, <2>1 DEF UpgradeTyped, Written
    <2>3. UseStays /\ SinglesStay
        BY <2>1 DEF Written, UseStays, SinglesStay, Single
    <2>4. \A n : Upgrade!Exists(n)' <=> Upgrade!Exists(n)
        BY <2>1 DEF Upgrade!Exists
    <2>5. NamesApart'
        BY <1>0, <2>1, <2>3, NamesAre, NamesStayApart
    <2>6. Holding'
        BY <1>0, <2>1, <2>3 DEF Holding, Upgrade!Exists, UseStays
    <2>7. SinglesAre'
        BY <1>0, <2>1, <2>3, <2>4 DEF SinglesAre, SinglesStay, Importing, Splitting
    <2>8. QED
        BY <2>2, <2>5, <2>6, <2>7 DEF FilesKept
<1>17. QED
    BY <1>1, <1>2, <1>3, <1>4, <1>5, <1>7, <1>8, <1>10, <1>11, <1>12, <1>13, <1>14, <1>15,
       <1>16 DEF Upgrade!Next

-----------------------------------------------------------------------------
\* What every step of a process does, but for those that write the backup.
YamlMoves ==
    \/ names'["yaml"] = names["yaml"] /\ names'["yaml.bak"] = names["yaml.bak"]
    \/ Upgrade!Exists("yaml") /\ names'["yaml.bak"] = names["yaml"] /\ names'["yaml"] = 0

RowsGrow == \A i \in Slots : files[i].kind # "none" => files[i].rows \subseteq files'[i].rows

Forward(p) ==
    /\ OthersStay(p) /\ UNCHANGED <<models, unseen>> /\ RowsGrow /\ YamlMoves
    /\ \A i \in Slots : files'[i].kind = "single" => files[i].kind = "single"
    /\ names'[Backup] = names[Backup]
    /\ \/ names'["db"] = names["db"]
       \/ /\ names'["db"] # 0
          /\ ~ Upgrade!Exists("db") \/ Importing(p) \/ procs[p].pc = "split swap"
    /\ names'["db.tmp"] = names["db.tmp"] \/ Importing(p) \/ Splitting(p)
    /\ Importing(p)' => Importing(p) \/ Upgrade!Exists("yaml")
    /\ Splitting(p)' => Splitting(p) \/ procs[p].pc = "read"
    /\ procs'[p].pc \in {"read", "copy"} => Single
    /\ procs'[p].pc = "copy" => ~ Upgrade!Exists(Backup)
    /\ procs'[p].pc # "copied"

LEMMA QuietIsForward ==
    ASSUME NEW p, OthersStay(p), Quiet,
           Importing(p)' => Importing(p) \/ Upgrade!Exists("yaml"),
           Splitting(p)' => Splitting(p) \/ procs[p].pc = "read",
           procs'[p].pc \in {"read", "copy"} => Single,
           procs'[p].pc = "copy" => ~ Upgrade!Exists(Backup),
           procs'[p].pc # "copied"
    PROVE  Forward(p)
BY DEF Forward, Quiet, RowsGrow, YamlMoves

LEMMA MadeIsForward ==
    ASSUME FilesKept, NEW p \in Processes, NEW n \in {"db", "db.tmp"}, NEW i \in Slots,
           i # 0, Makes(n, i), UNCHANGED <<models, unseen>>, OthersStay(p),
           n = "db" => ~ Upgrade!Exists("db"),
           n = "db.tmp" => Importing(p) \/ Splitting(p),
           Importing(p)' => Importing(p),
           Splitting(p)' => Splitting(p),
           procs'[p].pc \notin {"read", "copy", "copied"}
    PROVE  Forward(p)
<1>1. Fresh(i) /\ files[i].kind = "none" /\ Leads(n, i) /\ Written(i, "split", {}, Identity)
    BY FreshIsApart DEF Makes
<1>2. RowsGrow /\ \A j \in Slots : files'[j].kind = "single" => files[j].kind = "single"
    BY <1>1 DEF RowsGrow, Written
<1>3. /\ \A m \in {"yaml", "yaml.bak", Backup} : names'[m] = names[m]
      /\ n = "db" => names'["db"] = i /\ names'["db.tmp"] = names["db.tmp"]
      /\ n = "db.tmp" => names'["db"] = names["db"]
    BY <1>1 DEF Leads, Upgrade!Names, Backup
<1>4. QED
    BY <1>2, <1>3 DEF Forward, YamlMoves

LEMMA WrittenIsForward ==
    ASSUME FilesKept, NEW p \in Processes, NEW i \in Slots, NEW rows, NEW cols, NEW kind,
           Written(i, kind, rows, cols), files[i].rows \subseteq rows,
           kind = "single" => files[i].kind = "single",
           UNCHANGED <<names, models, unseen>>, OthersStay(p),
           Importing(p)' => Importing(p), Splitting(p)' => Splitting(p),
           procs'[p].pc \notin {"read", "copy", "copied"}
    PROVE  Forward(p)
<1>1. RowsGrow /\ \A j \in Slots : files'[j].kind = "single" => files[j].kind = "single"
    BY DEF RowsGrow, Written
<1>2. QED
    BY <1>1 DEF Forward, YamlMoves

LEMMA GoesForward ==
    ASSUME UpgradeSetting, FilesKept, NEW p \in Processes,
           \/ Upgrade!Boot(p) \/ Upgrade!YamlTemp(p) \/ Upgrade!YamlFill(p)
           \/ Upgrade!YamlSwap(p) \/ Upgrade!YamlRename(p) \/ Upgrade!Probe(p)
           \/ Upgrade!Read(p) \/ Upgrade!SplitTemp(p) \/ Upgrade!SplitFill(p)
           \/ Upgrade!SplitSwap(p) \/ Upgrade!Open(p) \/ Upgrade!LookForColumn(p)
           \/ Upgrade!AddColumn(p) \/ Upgrade!Load(p) \/ Upgrade!Crash(p)
    PROVE  Forward(p)
<1>0. UpgradeTyped /\ NamesApart /\ SinglesAre /\ Holding
    BY DEF FilesKept
<1> USE DEF Becomes, OthersStay, Importing, Splitting
<1>1. ASSUME Upgrade!Boot(p) PROVE Forward(p)
    BY <1>0, <1>1, Boots, QuietIsForward DEF Keeps
<1>2. ASSUME Upgrade!YamlTemp(p) \/ Upgrade!SplitTemp(p) PROVE Forward(p)
    <2>1. PICK i \in Slots :
             /\ Makes("db.tmp", i)
             /\ \/ procs[p].pc = "yaml temp" /\ Onto(p, "yaml fill", i)
                \/ procs[p].pc = "split temp" /\ Onto(p, "split fill", i)
        BY <1>0, <1>2, MakesTemp
    <2>2. UNCHANGED <<models, unseen>> /\ i # 0
        BY <1>0, <1>2, MakesTemp DEF UpgradeSetting
    <2>3. QED
        BY <2>1, <2>2, MadeIsForward DEF Onto
<1>3. ASSUME Upgrade!YamlFill(p) PROVE Forward(p)
    <2>1. procs[p].open \in Slots
        BY <1>0, <1>3 DEF Holding, Upgrade!YamlFill
    <2>2. CASE Fails(p) /\ UNCHANGED files
        <3>1. Quiet
            BY <1>0, <1>3, <2>1, <2>2, FillsYaml DEF Quiet
        <3>2. QED
            BY <2>2, <3>1, QuietIsForward DEF Fails
    <2>3. CASE /\ Keeps(p, "yaml swap")
               /\ Written(procs[p].open, "split",
                      files[procs[p].open].rows \cup files[names["yaml"]].rows, Identity)
        <3>1. UNCHANGED <<names, models, unseen>> /\ procs[p].pc = "yaml fill"
            BY <1>0, <1>3, <2>1, FillsYaml
        <3>2. /\ OthersStay(p) /\ ~ Splitting(p)' /\ procs'[p].pc = "yaml swap"
              /\ Importing(p)' => Importing(p)
            BY <2>3, <3>1 DEF Keeps
        <3> DEFINE rows == files[procs[p].open].rows \cup files[names["yaml"]].rows
        <3>3. /\ files[procs[p].open].rows \subseteq rows
              /\ Written(procs[p].open, "split", rows, Identity)
            BY <2>3
        <3> HIDE DEF rows, Becomes, OthersStay, Importing, Splitting
        <3>4. QED
            BY <2>1, <3>1, <3>2, <3>3, WrittenIsForward
    <2>4. QED
        BY <1>0, <1>3, <2>1, <2>2, <2>3, FillsYaml
<1>4. ASSUME Upgrade!SplitFill(p) PROVE Forward(p)
    <2>1. procs[p].open \in Slots
        BY <1>0, <1>4 DEF Holding, Upgrade!SplitFill
    <2> DEFINE rows == files[procs[p].open].rows \cup procs[p].rows
    <2>2. /\ UNCHANGED <<names, models, unseen>> /\ procs[p].pc = "split fill"
          /\ Keeps(p, "split swap") /\ Written(procs[p].open, "split", rows, Identity)
          /\ files[procs[p].open].rows \subseteq rows
        BY <1>0, <1>4, <2>1, FillsSplit
    <2>3. /\ OthersStay(p) /\ ~ Importing(p)' /\ procs'[p].pc = "split swap"
          /\ Splitting(p)' => Splitting(p)
        BY <2>2 DEF Keeps
    <2> HIDE DEF rows, Becomes, OthersStay, Importing, Splitting
    <2>4. QED
        BY <2>1, <2>2, <2>3, WrittenIsForward
<1>5. ASSUME Upgrade!YamlSwap(p) \/ Upgrade!SplitSwap(p) PROVE Forward(p)
    <2>1. /\ UNCHANGED <<files, models, unseen>>
          /\ procs[p].pc \in {"yaml swap", "split swap"}
        BY <1>0, <1>5, Swaps
    <2>2. CASE UNCHANGED names /\ Fails(p)
        BY <2>1, <2>2, QuietIsForward DEF Fails, Quiet
    <2>3. CASE /\ Upgrade!Exists("db.tmp")
               /\ Onto(p, IF procs[p].pc = "yaml swap" THEN "yaml rename" ELSE "open", 0)
               /\ names'["db"] = names["db.tmp"] /\ names'["db.tmp"] = 0
               /\ \A n \in Upgrade!Names \ {"db", "db.tmp"} : names'[n] = names[n]
        <3>1. /\ \A n \in {"yaml", "yaml.bak", Backup} : names'[n] = names[n]
              /\ names'["db"] # 0
            BY <2>3 DEF Upgrade!Names, Backup, Upgrade!Exists, Upgrade!None
        <3>2. RowsGrow
            BY <2>1 DEF RowsGrow
        <3>3. /\ OthersStay(p)
              /\ Importing(p)' => Importing(p)
              /\ ~ Splitting(p)' /\ procs'[p].pc \notin {"read", "copy", "copied"}
            BY <2>1, <2>3 DEF Onto
        <3>4. Importing(p) \/ procs[p].pc = "split swap"
            BY <2>1
        <3>5. Importing(p) \/ Splitting(p)
            BY <2>1
        <3> HIDE DEF Becomes, OthersStay, Importing, Splitting
        <3>6. QED
            BY <2>1, <3>1, <3>2, <3>3, <3>4, <3>5 DEF Forward, YamlMoves
    <2>4. QED
        BY <1>0, <1>5, <2>2, <2>3, Swaps
<1>6. ASSUME Upgrade!YamlRename(p) PROVE Forward(p)
    <2>1. /\ UNCHANGED <<files, models, unseen>> /\ Keeps(p, "probe")
        BY <1>0, <1>6, Renames
    <2>2. CASE UNCHANGED names
        BY <2>1, <2>2, QuietIsForward DEF Keeps, Quiet
    <2>3. CASE /\ Upgrade!Exists("yaml")
               /\ names'["yaml.bak"] = names["yaml"] /\ names'["yaml"] = 0
               /\ \A n \in Upgrade!Names \ {"yaml", "yaml.bak"} : names'[n] = names[n]
        <3>1. \A n \in {"db", "db.tmp", Backup} : names'[n] = names[n]
            BY <2>3 DEF Upgrade!Names, Backup
        <3>2. RowsGrow
            BY <2>1 DEF RowsGrow
        <3>3. /\ OthersStay(p)
              /\ ~ Importing(p)' /\ ~ Splitting(p)' /\ procs'[p].pc = "probe"
            BY <2>1 DEF Keeps
        <3> HIDE DEF Becomes, OthersStay, Importing, Splitting
        <3>4. QED
            BY <2>1, <2>3, <3>1, <3>2, <3>3 DEF Forward, YamlMoves
    <2>4. QED
        BY <1>0, <1>6, <2>2, <2>3, Renames
<1>7. ASSUME Upgrade!Probe(p) PROVE Forward(p)
    BY <1>0, <1>7, Probes, QuietIsForward DEF Keeps
<1>8. ASSUME Upgrade!Read(p) PROVE Forward(p)
    <2>1. Upgrade!Exists(Backup)
        BY <1>0, <1>8 DEF Upgrade!Read, SinglesAre
    <2>2. QED
        BY <1>0, <1>8, <2>1, Reads, QuietIsForward DEF Fails
<1>9. ASSUME Upgrade!Open(p) PROVE Forward(p)
    <2>1. CASE Upgrade!Exists("db")
        <3>1. Quiet /\ Onto(p, "columns", names["db"])
            BY <1>0, <1>9, <2>1, Opens DEF Quiet
        <3>2. QED
            BY <3>1, QuietIsForward DEF Onto
    <2>2. CASE ~ Upgrade!Exists("db")
        <3>1. PICK i \in Slots : Makes("db", i) /\ Onto(p, "columns", i)
            BY <1>0, <1>9, <2>2, Opens
        <3>2. UNCHANGED <<models, unseen>> /\ i # 0
            BY <1>0, <1>9, Opens DEF UpgradeSetting
        <3>3. QED
            BY <2>2, <3>1, <3>2, MadeIsForward DEF Onto
    <2>3. QED
        BY <2>1, <2>2
<1>10. ASSUME Upgrade!LookForColumn(p) PROVE Forward(p)
    BY <1>0, <1>10, LooksForColumn, QuietIsForward
<1>11. ASSUME Upgrade!AddColumn(p) PROVE Forward(p)
    <2>1. procs[p].open \in Slots /\ procs[p].column \in Identity
        BY <1>0, <1>11 DEF Holding, Upgrade!AddColumn
    <2>2. UNCHANGED <<names, models, unseen>>
        BY <1>0, <1>11, <2>1, AddsColumn
    <2>3. CASE Fails(p) /\ UNCHANGED files
        BY <2>2, <2>3, QuietIsForward DEF Fails, Quiet
    <2>4. ASSUME Becomes(p, "columns", procs[p].open, procs[p].from, procs[p].rows, "",
                         procs[p].raised),
                 NEW cols, Written(procs[p].open, files[procs[p].open].kind,
                                   files[procs[p].open].rows, cols)
          PROVE  Forward(p)
        BY <2>1, <2>2, <2>4, WrittenIsForward
    <2>5. QED
        BY <1>0, <1>11, <2>1, <2>3, <2>4, AddsColumn
<1>12. ASSUME Upgrade!Load(p) \/ Upgrade!Crash(p) PROVE Forward(p)
    <2>1. Upgrade!Load(p) => procs[p].open \in Slots
        BY <1>0 DEF Holding, Upgrade!Load
    <2>2. QED
        BY <1>0, <1>12, <2>1, Loads, Dies, QuietIsForward
<1>13. QED
    BY <1>1, <1>2, <1>3, <1>4, <1>5, <1>6, <1>7, <1>8, <1>9, <1>10, <1>11, <1>12

LEMMA WholeStays ==
    ASSUME FilesKept, NEW p, Forward(p)
    PROVE  /\ \A i \in Slots : files[i].kind # "none" /\ models \subseteq files[i].rows
                 => models' \subseteq files'[i].rows
           /\ \A n \in Upgrade!Names : Upgrade!Exists(n) =>
                 names[n] \in Slots /\ files[names[n]].kind # "none"
BY NamesAre DEF Forward, RowsGrow, FilesKept, NamesApart, Upgrade!Exists, Upgrade!None

LEMMA PlainStays ==
    ASSUME FilesKept, Plain, NEW p \in Processes, Forward(p)
    PROVE  Plain'
<1>1. \A i \in Slots : files'[i].kind # "single"
    BY DEF Plain, Forward
<1>2. ~ Single
    <2>1. Upgrade!Exists("db") => names["db"] \in Slots
        BY WholeStays DEF Upgrade!Names
    <2>2. QED
        BY <2>1 DEF Single, Plain
<1>3. \A q \in Processes : ~ Copying(q)' /\ ~ Splitting(q)' /\ procs'[q].pc # "read"
    BY <1>2 DEF Plain, Forward, OthersStay, Copying, Splitting
<1>4. UNCHANGED models
    BY DEF Forward
<1>5. CASE models = {}
    BY <1>1, <1>3, <1>4, <1>5 DEF Plain
<1>6. CASE /\ \E n \in Yamls : Upgrade!Exists(n)
           /\ \A n \in Yamls : Upgrade!Exists(n) => Whole(names[n])
    <2>1. \A n \in Yamls : names[n] # 0 => models' \subseteq files'[names[n]].rows
        BY <1>6, WholeStays DEF Yamls, Upgrade!Names, Whole, Upgrade!Exists, Upgrade!None
    <2>2. \A n \in Yamls : names'[n] # 0 => models' \subseteq files'[names'[n]].rows
        BY <2>1 DEF Forward, YamlMoves, Yamls
    <2>3. \E n \in Yamls : names'[n] # 0
        BY <1>6 DEF Forward, YamlMoves, Yamls, Upgrade!Exists, Upgrade!None
    <2>4. QED
        BY <1>1, <1>3, <2>2, <2>3 DEF Plain, Whole, Upgrade!Exists, Upgrade!None
<1>7. CASE /\ Upgrade!Exists("db") /\ Whole(names["db"])
           /\ ~ Upgrade!Exists("yaml") /\ \A q \in Processes : ~ Importing(q)
    <2>1. names'["db"] = names["db"]
        BY <1>7 DEF Forward, Plain, Splitting
    <2>2. names["db"] # 0 /\ models' \subseteq files'[names["db"]].rows
        BY <1>7, WholeStays DEF Upgrade!Names, Whole, Upgrade!Exists, Upgrade!None
    <2>3. names'["yaml"] = 0
        BY <1>7 DEF Forward, YamlMoves, Upgrade!Exists, Upgrade!None
    <2>4. \A q \in Processes : ~ Importing(q)'
        BY <1>7 DEF Forward, OthersStay, Importing
    <2>5. QED
        BY <1>1, <1>3, <2>1, <2>2, <2>3, <2>4 DEF Plain, Whole, Upgrade!Exists, Upgrade!None
<1>8. QED
    BY <1>5, <1>6, <1>7 DEF Plain

\* What a process does of its own, while the models may only be in the database.
Careful(p) ==
    /\ procs'[p].pc \in {"split fill", "split swap"} => procs'[p].open = names'["db.tmp"]
    /\ procs'[p].pc = "split swap" => models' \subseteq files'[names'["db.tmp"]].rows
    /\ names'["db"] = names["db"] \/ models' \subseteq files'[names'["db"]].rows

LEMMA SplitStays ==
    ASSUME UpgradeSetting, FilesKept, SplitKept, NEW p \in Processes, Forward(p),
           procs'[p].pc \in {"split temp", "split fill"} => models \subseteq procs'[p].rows,
           NotYet => Careful(p),
           Splitting(p)' =>
              Splitting(p) \/ BackedUp \/ \A q \in Processes \ {p} : ~ Splitting(q)
    PROVE  SplitKept'
<1>1. /\ Upgrade!Exists("db") /\ names["db"] \in Slots /\ names["db"] # 0
      /\ files[names["db"]].kind # "none"
    BY WholeStays DEF SplitKept, Upgrade!Names, Upgrade!Exists, Upgrade!None
<1>2. names'["db"] # 0 /\ names'["yaml"] = 0 /\ UNCHANGED models
    <2>1. names["yaml"] = 0
        BY DEF SplitKept, Upgrade!Exists, Upgrade!None
    <2>2. names'["yaml"] = 0
        BY <2>1 DEF Forward, YamlMoves, Upgrade!Exists, Upgrade!None
    <2>3. names'["db"] # 0
        BY <1>1 DEF Forward
    <2>4. UNCHANGED models
        BY DEF Forward
    <2>5. QED
        BY <2>2, <2>3, <2>4
<1>3. \A q \in Processes : ~ Importing(q)'
    BY DEF SplitKept, Forward, OthersStay, Importing
<1>4. \A i \in Slots : files'[i].kind = "single" => models' \subseteq files'[i].rows
    BY WholeStays DEF SplitKept, Forward, Whole
<1>5. ASSUME NEW q \in Processes, procs'[q].pc \in {"split temp", "split fill"}
      PROVE  models' \subseteq procs'[q].rows
    BY <1>2, <1>5 DEF SplitKept, Forward, OthersStay
<1>6. ASSUME NEW q \in Processes, procs'[q].pc = "copied"
      PROVE  /\ procs'[q].open = names'[Backup] /\ names'[Backup] # 0
             /\ procs'[q].from \in Slots \ {procs'[q].open}
             /\ models' \subseteq files'[procs'[q].from].rows
    <2>1. procs'[q] = procs[q] /\ procs[q].pc = "copied"
        BY <1>6 DEF Forward, OthersStay
    <2>2. /\ procs[q].open = names[Backup] /\ names[Backup] # 0
          /\ procs[q].from \in Slots \ {procs[q].open}
          /\ models \subseteq files[procs[q].from].rows
        BY <2>1 DEF SplitKept, Whole, Upgrade!Exists, Upgrade!None
    <2>3. files[procs[q].from].kind # "none"
        BY <2>1 DEF FilesKept, Holding
    <2>4. QED
        BY <2>1, <2>2, <2>3, WholeStays DEF Forward
<1>7. ASSUME BackedUp PROVE BackedUp'
    <2>1. names[Backup] # 0 /\ models' \subseteq files'[names[Backup]].rows
        BY <1>7, WholeStays DEF BackedUp, Upgrade!Exists, Upgrade!None, Whole, Upgrade!Names,
                                Backup
    <2>2. \A q \in Processes : ~ Copying(q)'
        BY <1>7 DEF BackedUp, Forward, OthersStay, Copying
    <2>3. QED
        BY <2>1, <2>2 DEF BackedUp, Forward, Upgrade!Exists, Upgrade!None, Whole
<1>8. ASSUME ~ BackedUp PROVE NotYet'
    <2>1. NotYet /\ Careful(p)
        BY <1>8 DEF SplitKept
    <2>2. models' \subseteq files'[names["db"]].rows
        BY <1>1, <2>1, WholeStays DEF NotYet, Whole
    <2>3. ASSUME NEW q \in Processes, NEW r \in Processes, Splitting(q)', Splitting(r)'
          PROVE  q = r
        BY <1>8, <2>1, <2>3 DEF NotYet, Forward, OthersStay, Splitting
    <2>4. ASSUME NEW q \in Processes
          PROVE  /\ procs'[q].pc \in {"split fill", "split swap"}
                       => procs'[q].open = names'["db.tmp"]
                 /\ procs'[q].pc = "split swap" =>
                       models' \subseteq files'[names'["db.tmp"]].rows
        <3>1. CASE q = p
            BY <2>1, <3>1 DEF Careful
        <3>2. CASE q # p /\ Splitting(q)
            <4>1. ~ Splitting(p) /\ ~ Importing(p) /\ procs'[q] = procs[q]
                BY <2>1, <3>2 DEF NotYet, SplitKept, Forward, OthersStay
            <4>2. names'["db.tmp"] = names["db.tmp"]
                BY <4>1 DEF Forward
            <4>3. procs[q].pc = "split swap" =>
                     /\ procs[q].open = names["db.tmp"]
                     /\ models \subseteq files[names["db.tmp"]].rows
                BY <2>1 DEF NotYet, Whole
            <4>4. procs[q].pc = "split swap" => names["db.tmp"] \in Slots \ {0}
                BY <4>3 DEF FilesKept, Holding, UpgradeSetting
            <4>5. procs[q].pc = "split swap" => models' \subseteq files'[names["db.tmp"]].rows
                BY <4>3, <4>4, WholeStays DEF FilesKept, NamesApart, Upgrade!Names
            <4>6. QED
                BY <2>1, <4>1, <4>2, <4>5 DEF NotYet
        <3>3. CASE q # p /\ ~ Splitting(q)
            BY <3>3 DEF Forward, OthersStay, Splitting
        <3>4. QED
            BY <3>1, <3>2, <3>3
    <2>5. QED
        BY <2>1, <2>2, <2>3, <2>4 DEF NotYet, Whole, Careful
<1>9. QED
    BY <1>2, <1>3, <1>4, <1>5, <1>6, <1>7, <1>8
       DEF SplitKept, Upgrade!Exists, Upgrade!None, Whole

\* A process goes on, and leaves the backup alone.
LEMMA SplitGoesOn ==
    ASSUME UpgradeSetting, FilesKept, SplitKept, ~ unseen, NEW p \in Processes,
           \/ Upgrade!Boot(p) \/ Upgrade!YamlTemp(p) \/ Upgrade!YamlFill(p)
           \/ Upgrade!YamlSwap(p) \/ Upgrade!YamlRename(p) \/ Upgrade!Probe(p)
           \/ Upgrade!Read(p) \/ Upgrade!SplitTemp(p) \/ Upgrade!SplitFill(p)
           \/ Upgrade!SplitSwap(p) \/ Upgrade!Open(p) \/ Upgrade!LookForColumn(p)
           \/ Upgrade!AddColumn(p) \/ Upgrade!Load(p) \/ Upgrade!Crash(p)
    PROVE  SplitKept'
<1>0. UpgradeTyped /\ SinglesAre /\ Holding /\ Forward(p) /\ ~ Importing(p)
    BY GoesForward DEF FilesKept, SplitKept
<1>1. ASSUME ~ Splitting(p)', procs[p].pc # "split swap" PROVE SplitKept'
    <2>1. names'["db"] = names["db"]
        BY <1>0, <1>1 DEF Forward, SplitKept
    <2>2. procs'[p].pc \notin {"split temp", "split fill", "split swap"}
        BY <1>1 DEF Splitting
    <2>3. QED
        BY <1>0, <1>1, <2>1, <2>2, SplitStays DEF Careful
<1>2. ASSUME Upgrade!SplitTemp(p) PROVE SplitKept'
    <2>1. PICK i \in Slots : Makes("db.tmp", i) /\ Onto(p, "split fill", i)
        BY <1>0, <1>2, MakesTemp DEF Upgrade!SplitTemp
    <2>2. /\ procs'[p].pc = "split fill" /\ procs'[p].open = i
          /\ procs'[p].rows = procs[p].rows /\ procs[p].pc = "split temp"
        BY <1>2, <2>1 DEF Onto, Becomes, Upgrade!SplitTemp
    <2>3. names'["db.tmp"] = i /\ names'["db"] = names["db"]
        BY <2>1 DEF Makes, Leads, Upgrade!Names
    <2>4. models \subseteq procs'[p].rows /\ Splitting(p)
        BY <2>2 DEF SplitKept, Splitting
    <2>5. Careful(p)
        BY <2>2, <2>3 DEF Careful
    <2>6. QED
        BY <1>0, <2>4, <2>5, SplitStays
<1>3. ASSUME Upgrade!SplitFill(p) PROVE SplitKept'
    <2>1. procs[p].open \in Slots /\ procs[p].pc = "split fill"
        BY <1>0, <1>3 DEF Holding, Upgrade!SplitFill
    <2>2. /\ UNCHANGED <<names, models>> /\ Keeps(p, "split swap")
          /\ Written(procs[p].open, "split",
                 files[procs[p].open].rows \cup procs[p].rows, Identity)
        BY <1>0, <1>3, <2>1, FillsSplit
    <2>3. procs'[p].pc = "split swap" /\ procs'[p].open = procs[p].open /\ Splitting(p)
        BY <2>1, <2>2 DEF Keeps, Becomes, Splitting
    <2>4. models' \subseteq files'[procs[p].open].rows
        BY <2>1, <2>2 DEF SplitKept, Written
    <2>5. NotYet => Careful(p)
        BY <2>1, <2>2, <2>3, <2>4 DEF Careful, NotYet
    <2>6. QED
        BY <1>0, <2>3, <2>5, SplitStays
<1>4. ASSUME Upgrade!SplitSwap(p) PROVE SplitKept'
    <2>1. procs[p].pc = "split swap" /\ UNCHANGED <<files, models>> /\ ~ Splitting(p)'
        BY <1>0, <1>4, Swaps DEF Upgrade!SplitSwap, Onto, Fails, Becomes, Splitting
    <2>2. names'["db"] = names["db"] \/ names'["db"] = names["db.tmp"]
        BY <1>0, <1>4, Swaps
    <2>3. NotYet => Careful(p)
        BY <2>1, <2>2 DEF Careful, NotYet, Whole, Splitting
    <2>4. QED
        BY <1>0, <2>1, <2>3, SplitStays DEF Splitting
<1>5. ASSUME Upgrade!Read(p) PROVE SplitKept'
    <2>1. Upgrade!Exists(Backup) /\ procs[p].pc = "read"
        BY <1>0, <1>5 DEF Upgrade!Read, SinglesAre
    <2>2. CASE files[names[Backup]].kind # "single"
        <3>1. ~ Splitting(p)'
            BY <1>0, <1>5, <2>1, <2>2, Reads DEF Fails, Becomes, Splitting
        <3>2. QED
            BY <1>1, <2>1, <3>1
    <2>3. CASE files[names[Backup]].kind = "single"
        <3>1. procs'[p].pc = "split temp" /\ procs'[p].rows = files[names[Backup]].rows
            BY <1>0, <1>5, <2>1, <2>3, Reads DEF Becomes
        <3>2. names[Backup] \in Slots
            BY <1>0, <2>1, NamesAre DEF Upgrade!Exists, Upgrade!None, Upgrade!Names, Backup
        <3>3. models \subseteq procs'[p].rows /\ Whole(names[Backup])
            BY <2>3, <3>1, <3>2 DEF SplitKept, Whole
        <3>4. names'["db"] = names["db"]
            BY <1>0, <2>1 DEF Forward, SplitKept
        <3>5. BackedUp \/ \A q \in Processes \ {p} : ~ Splitting(q)
            <4>1. ASSUME ~ BackedUp PROVE \A q \in Processes \ {p} : ~ Splitting(q)
                <5>1. PICK r \in Processes : Copying(r)
                    BY <2>1, <3>3, <4>1 DEF BackedUp
                <5>2. r # p /\ ~ Splitting(r)
                    BY <2>1, <5>1 DEF Copying, Splitting
                <5>3. \A q \in Processes \ {p} : q = r
                    BY <5>2 DEF UpgradeSetting
                <5>4. QED
                    BY <5>2, <5>3
            <4>2. QED
                BY <4>1
        <3>6. Careful(p)
            BY <3>1, <3>4 DEF Careful
        <3>7. QED
            BY <1>0, <3>3, <3>5, <3>6, SplitStays
    <2>4. QED
        BY <2>2, <2>3
<1>6. CASE Splitting(p)' \/ procs[p].pc = "split swap"
    <2>1. Splitting(p) \/ procs[p].pc = "read"
        BY <1>0, <1>6 DEF Forward, Splitting
    <2>2. \/ Upgrade!SplitTemp(p) \/ Upgrade!SplitFill(p) \/ Upgrade!SplitSwap(p)
          \/ Upgrade!Read(p) \/ Upgrade!Crash(p)
        BY <2>1 DEF Splitting, Upgrade!Boot, Upgrade!YamlTemp, Upgrade!YamlFill,
                    Upgrade!YamlSwap, Upgrade!YamlRename, Upgrade!Probe, Upgrade!Open,
                    Upgrade!LookForColumn, Upgrade!AddColumn, Upgrade!Load
    <2>3. ASSUME Upgrade!Crash(p) PROVE SplitKept'
        <3>1. ~ Splitting(p)' /\ UNCHANGED names
              /\ procs'[p].pc \notin {"split temp", "split fill", "split swap"}
            BY <1>0, <2>3, Dies DEF Becomes, Splitting, Quiet
        <3>2. Careful(p)
            BY <3>1 DEF Careful
        <3>3. QED
            BY <1>0, <3>1, <3>2, SplitStays
    <2>4. QED
        BY <1>2, <1>3, <1>4, <1>5, <2>2, <2>3
<1>7. QED
    BY <1>1, <1>6

LEMMA SplitIsCopied ==
    ASSUME UpgradeSetting, FilesKept, SplitKept, NEW p \in Processes,
           Upgrade!Copy(p) \/ Upgrade!Copied(p)
    PROVE  SplitKept'
<1>0. /\ UpgradeTyped /\ SinglesAre /\ Holding /\ NamesApart
      /\ Upgrade!Exists("db") /\ names["db"] \in Slots /\ names["db"] # 0
    BY NamesAre DEF FilesKept, SplitKept, Upgrade!Names, Upgrade!Exists, Upgrade!None
<1>1. NotYet
    BY DEF SplitKept, BackedUp, Copying, Upgrade!Copy, Upgrade!Copied
<1>2. \A q \in Processes : procs[q].pc = "split swap" =>
         procs[q].open = names["db.tmp"] /\ names["db.tmp"] \in Slots \ {0}
    BY <1>0, <1>1 DEF NotYet, Holding, UpgradeSetting
<1>3. ASSUME Upgrade!Copy(p) PROVE SplitKept'
    <2>1. PICK i \in Slots :
             /\ IF Upgrade!Exists(Backup) THEN i = names[Backup] ELSE Fresh(i)
             /\ Leads(Backup, i) /\ Written(i, "torn", {}, {})
             /\ Becomes(p, "copied", i, names["db"], procs[p].rows, procs[p].column,
                        procs[p].raised)
        BY <1>0, <1>3, CopiesIt
    <2>2. UNCHANGED <<models, unseen>>
        BY <1>0, <1>3, CopiesIt
    <2>3. /\ OthersStay(p) /\ procs'[p].pc = "copied" /\ procs'[p].open = i
          /\ procs'[p].from = names["db"]
        BY <2>1 DEF Becomes, OthersStay
    <2>4. /\ \A n \in Upgrade!Names \ {Backup} : names'[n] = names[n]
          /\ names'[Backup] = i /\ i # 0 /\ Backup \in Upgrade!Names
          /\ \A j \in Slots \ {i} : files'[j] = files[j]
          /\ files'[i].kind = "torn"
        BY <2>1 DEF Leads, Written, UpgradeSetting, Backup, Upgrade!Names
    <2>5. \A n \in Upgrade!Names \ {Backup} : names[n] # i
        <3>1. CASE Upgrade!Exists(Backup)
            BY <1>0, <2>1, <2>4, <3>1 DEF NamesApart
        <3>2. CASE ~ Upgrade!Exists(Backup)
            BY <2>1, <3>2, FreshIsApart
        <3>3. QED
            BY <3>1, <3>2
    <2>6. /\ names'["db"] = names["db"] /\ names["db"] # i
          /\ names'["db.tmp"] = names["db.tmp"] /\ names["db.tmp"] # i
          /\ names'["yaml"] = names["yaml"]
        BY <2>4, <2>5 DEF Upgrade!Names, Backup
    <2>7. ASSUME NEW q \in Processes, procs'[q].pc = "copied"
          PROVE  /\ procs'[q].open = names'[Backup] /\ names'[Backup] # 0
                 /\ procs'[q].from \in Slots \ {procs'[q].open}
                 /\ models' \subseteq files'[procs'[q].from].rows
        <3>1. CASE q = p
            BY <1>0, <1>1, <2>2, <2>3, <2>4, <2>6, <3>1 DEF NotYet, Whole
        <3>2. CASE q # p
            <4>1. procs'[q] = procs[q] /\ procs[q].pc = "copied"
                BY <2>3, <2>7, <3>2 DEF OthersStay
            <4>2. /\ procs[q].open = names[Backup] /\ Upgrade!Exists(Backup)
                  /\ procs[q].from \in Slots \ {procs[q].open}
                  /\ models \subseteq files[procs[q].from].rows
                BY <4>1 DEF SplitKept, Whole
            <4>3. i = names[Backup]
                BY <2>1, <4>2
            <4>4. QED
                BY <2>2, <2>4, <4>1, <4>2, <4>3
        <3>3. QED
            BY <3>1, <3>2
    <2>8. \A j \in Slots : files'[j].kind = "single" => models' \subseteq files'[j].rows
        BY <2>2, <2>4 DEF SplitKept, Whole
    <2>9. NotYet'
        <3>1. models' \subseteq files'[names'["db"]].rows
            BY <1>0, <1>1, <2>2, <2>4, <2>6 DEF NotYet, Whole
        <3>2. \A q, r \in Processes : Splitting(q)' /\ Splitting(r)' => q = r
            BY <1>1, <2>3 DEF NotYet, OthersStay, Splitting
        <3>3. ASSUME NEW q \in Processes, procs'[q].pc \in {"split fill", "split swap"}
              PROVE  /\ procs'[q].open = names'["db.tmp"]
                     /\ procs'[q].pc = "split swap" =>
                           models' \subseteq files'[names'["db.tmp"]].rows
            BY <1>1, <1>2, <2>2, <2>3, <2>4, <2>6, <3>3, ZenonT(60) DEF NotYet, OthersStay, Whole
        <3>4. QED
            BY <3>1, <3>2, <3>3 DEF NotYet, Whole
    <2>10. /\ \A q \in Processes : ~ Importing(q)'
           /\ \A q \in Processes : procs'[q].pc \in {"split temp", "split fill"} =>
                 models' \subseteq procs'[q].rows
        BY <2>2, <2>3 DEF SplitKept, OthersStay, Importing
    <2>11. names'["db"] # 0 /\ names'["yaml"] = 0
        BY <1>0, <2>6 DEF SplitKept, Upgrade!Exists, Upgrade!None
    <2>12. QED
        BY <2>7, <2>8, <2>9, <2>10, <2>11 DEF SplitKept, Upgrade!Exists, Upgrade!None, Whole
<1>4. ASSUME Upgrade!Copied(p) PROVE SplitKept'
    <2> DEFINE i == procs[p].open
    <2>1. /\ procs[p].pc = "copied" /\ i \in Slots /\ procs[p].from \in Slots
          /\ i = names[Backup] /\ Whole(procs[p].from)
        BY <1>0, <1>4 DEF Upgrade!Copied, SplitKept, Holding
    <2>2. /\ UNCHANGED <<names, models, unseen>>
          /\ Written(i, files[procs[p].from].kind, files[procs[p].from].rows,
                     files[procs[p].from].cols)
          /\ Becomes(p, "read", 0, 0, procs[p].rows, procs[p].column, procs[p].raised)
        BY <1>0, <1>4, <2>1, IsCopied
    <2>3. OthersStay(p) /\ procs'[p].pc = "read"
        BY <2>2 DEF Becomes, OthersStay
    <2>4. /\ models' \subseteq files'[i].rows
          /\ \A j \in Slots \ {i} : files'[j] = files[j]
        BY <2>1, <2>2 DEF Written, Whole
    <2> HIDE DEF i
    <2>5. \A j \in Slots : models \subseteq files[j].rows => models' \subseteq files'[j].rows
        BY <2>2, <2>4
    <2>6. \A j \in Slots : files'[j].kind = "single" => models' \subseteq files'[j].rows
        BY <2>2, <2>4 DEF SplitKept, Whole
    <2>7. ASSUME NEW q \in Processes, procs'[q].pc = "copied"
          PROVE  /\ procs'[q].open = names'[Backup] /\ names'[Backup] # 0
                 /\ procs'[q].from \in Slots \ {procs'[q].open}
                 /\ models' \subseteq files'[procs'[q].from].rows
        BY <2>2, <2>3, <2>5, <2>7
           DEF SplitKept, OthersStay, Whole, Upgrade!Exists, Upgrade!None
    <2>8. NotYet'
        <3>1. models' \subseteq files'[names'["db"]].rows
            BY <1>0, <1>1, <2>2, <2>5 DEF NotYet, Whole
        <3>2. \A q, r \in Processes : Splitting(q)' /\ Splitting(r)' => q = r
            BY <1>1, <2>3 DEF NotYet, OthersStay, Splitting
        <3>3. ASSUME NEW q \in Processes, procs'[q].pc \in {"split fill", "split swap"}
              PROVE  /\ procs'[q].open = names'["db.tmp"]
                     /\ procs'[q].pc = "split swap" =>
                           models' \subseteq files'[names'["db.tmp"]].rows
            BY <1>1, <1>2, <2>2, <2>3, <2>5, <3>3 DEF NotYet, OthersStay, Whole
        <3>4. QED
            BY <3>1, <3>2, <3>3 DEF NotYet, Whole
    <2>9. /\ \A q \in Processes : ~ Importing(q)'
          /\ \A q \in Processes : procs'[q].pc \in {"split temp", "split fill"} =>
                models' \subseteq procs'[q].rows
        BY <2>2, <2>3 DEF SplitKept, OthersStay, Importing
    <2>10. QED
        BY <1>0, <2>2, <2>6, <2>7, <2>8, <2>9 DEF SplitKept, Upgrade!Exists, Upgrade!None, Whole
<1>5. QED
    BY <1>3, <1>4

LEMMA ModelsRegister ==
    ASSUME FilesKept, Plain \/ SplitKept, NEW m \in Later, Upgrade!OlderRelease(m)
    PROVE  ModelsKept'
<1>0. UpgradeTyped /\ SinglesAre
    BY DEF FilesKept
<1>1. /\ UNCHANGED <<names, procs>> /\ Single
      /\ \A p \in Processes : procs[p].pc \in {"down", "failed"}
      /\ models' = models \cup {m} /\ unseen' = (unseen \/ Upgrade!Exists(Backup))
      /\ Written(names["db"], "single", files[names["db"]].rows \cup {m},
                 files[names["db"]].cols)
    BY <1>0, OlderRegisters
<1>2. names["db"] \in Slots \ {0} /\ Upgrade!Exists("db")
    BY <1>0, <1>1, NamesAre
       DEF Single, Upgrade!Exists, Upgrade!None, Upgrade!Names, UpgradeTyped
<1>3. SplitKept
    BY <1>1, <1>2 DEF Plain, Single
<1>4. CASE Upgrade!Exists(Backup)
    BY <1>1, <1>4 DEF ModelsKept
<1>5. CASE ~ Upgrade!Exists(Backup)
    <2>1. \A i \in Slots : files[i].kind = "single" => i = names["db"]
        BY <1>0, <1>5 DEF SinglesAre
    <2>2. models \subseteq files[names["db"]].rows
        BY <1>1, <1>2, <1>3 DEF Single, SplitKept, Whole
    <2>3. models' \subseteq files'[names["db"]].rows
        BY <1>1, <2>2 DEF Written
    <2>4. \A i \in Slots : files'[i].kind = "single" => models' \subseteq files'[i].rows
        BY <1>1, <2>1, <2>3 DEF Written
    <2>5. NotYet'
        BY <1>1, <2>3 DEF NotYet, Whole, Splitting
    <2>6. \A p \in Processes : ~ Importing(p)'
        BY <1>1 DEF Importing
    <2>7. names'["yaml"] = 0
        BY <1>1, <1>3 DEF SplitKept, Upgrade!Exists, Upgrade!None
    <2>8. SplitKept'
        BY <1>1, <1>2, <2>4, <2>5, <2>6, <2>7
           DEF SplitKept, Upgrade!Exists, Upgrade!None, Whole
    <2>9. QED
        BY <2>8 DEF ModelsKept
<1>6. QED
    BY <1>4, <1>5

LEMMA ModelsStay ==
    ASSUME UpgradeSetting, FilesKept, ModelsKept, Upgrade!Next
    PROVE  ModelsKept'
<1>1. CASE unseen
    <2>1. unseen'
        BY <1>1, ZenonT(60) DEF Upgrade!Next, Upgrade!Boot, Upgrade!YamlTemp, Upgrade!YamlFill,
              Upgrade!YamlSwap, Upgrade!YamlRename, Upgrade!Probe, Upgrade!Copy,
              Upgrade!Copied, Upgrade!Read, Upgrade!SplitTemp, Upgrade!SplitFill,
              Upgrade!SplitSwap, Upgrade!Open, Upgrade!LookForColumn, Upgrade!AddColumn,
              Upgrade!Load, Upgrade!Crash, Upgrade!OlderRelease, Upgrade!Aside,
              Upgrade!Temp, Upgrade!Swap, Upgrade!Fill
    <2>2. QED
        BY <2>1 DEF ModelsKept
<1>2. CASE ~ unseen
    <2>1. Plain \/ SplitKept
        BY <1>2 DEF ModelsKept
    <2>2. ASSUME NEW p \in Processes, Upgrade!Copy(p) \/ Upgrade!Copied(p)
          PROVE  ModelsKept'
        <3>1. SplitKept
            BY <2>1, <2>2 DEF Plain, Copying, Upgrade!Copy, Upgrade!Copied
        <3>2. QED
            BY <2>2, <3>1, SplitIsCopied DEF ModelsKept
    <2>3. ASSUME NEW p \in Processes,
                 \/ Upgrade!Boot(p) \/ Upgrade!YamlTemp(p) \/ Upgrade!YamlFill(p)
                 \/ Upgrade!YamlSwap(p) \/ Upgrade!YamlRename(p) \/ Upgrade!Probe(p)
                 \/ Upgrade!Read(p) \/ Upgrade!SplitTemp(p) \/ Upgrade!SplitFill(p)
                 \/ Upgrade!SplitSwap(p) \/ Upgrade!Open(p) \/ Upgrade!LookForColumn(p)
                 \/ Upgrade!AddColumn(p) \/ Upgrade!Load(p) \/ Upgrade!Crash(p)
          PROVE  ModelsKept'
        <3>1. CASE SplitKept
            BY <1>2, <2>3, <3>1, SplitGoesOn DEF ModelsKept
        <3>2. CASE Plain
            BY <2>3, <3>2, GoesForward, PlainStays DEF ModelsKept
        <3>3. QED
            BY <2>1, <3>1, <3>2
    <2>4. QED
        BY <2>1, <2>2, <2>3, ModelsRegister DEF Upgrade!Next
<1>3. QED
    BY <1>1, <1>2

-----------------------------------------------------------------------------
\* What holds of a process that is not opening the registry.
Rests(q) ==
    /\ procs[q].pc = "up" =>
          /\ ~ Single /\ Upgrade!Exists("db") /\ procs[q].open = names["db"]
          /\ unseen \/ procs[q].rows = models
    /\ procs[q].raised =>
          /\ procs[q].pc = "failed" /\ Upgrade!Exists(Backup)
          /\ files[names[Backup]].kind = "torn"

LEMMA RestsAreAll ==
    ASSUME NEW q \in Processes
    PROVE  /\ Whence(q) => Rests(q)
           /\ ~ Upgrade!Opening(q) /\ Rests(q) => Whence(q)
BY DEF Rests, Whence, Upgrade!Opening, Copying, Splitting, Single

LEMMA Solo ==
    ASSUME OneAtATime, NEW p \in Processes, Upgrade!Opening(p)
    PROVE  /\ \A q \in Processes \ {p} : ~ Upgrade!Opening(q) /\ Rests(q)
           /\ Whence(p) /\ ~ procs[p].raised
<1>1. \A q \in Processes \ {p} : ~ Upgrade!Opening(q) /\ Rests(q)
    BY RestsAreAll DEF OneAtATime
<1>2. Whence(p)
    BY DEF OneAtATime
<1>3. ~ procs[p].raised
    BY <1>2, RestsAreAll DEF Rests, Upgrade!Opening
<1>4. QED
    BY <1>1, <1>2, <1>3

LEMMA RestsStay ==
    ASSUME NEW q \in Processes, Rests(q), procs'[q] = procs[q], UNCHANGED <<models, unseen>>,
           \/ ~ Upgrade!Exists("db") \/ Single
           \/ /\ names'["db"] = names["db"]
              /\ files'[names["db"]].kind = files[names["db"]].kind,
           \/ ~ procs[q].raised
           \/ /\ names'[Backup] = names[Backup]
              /\ files'[names[Backup]].kind = files[names[Backup]].kind
    PROVE  Rests(q)'
BY DEF Rests, Single, Upgrade!Exists, Upgrade!None

LEMMA OneGoesOn ==
    ASSUME NEW p \in Processes, OthersStay(p), Sources', Whence(p)',
           \A q \in Processes \ {p} : ~ Upgrade!Opening(q) /\ Rests(q)'
    PROVE  OneAtATime'
<1>1. \A q \in Processes \ {p} : ~ Upgrade!Opening(q)'
    BY DEF OthersStay, Upgrade!Opening
<1>2. ASSUME NEW q \in Processes \ {p} PROVE Whence(q)'
    <2>1. ~ Upgrade!Opening(q)' /\ Rests(q)'
        BY <1>1
    <2>2. QED
        BY <2>1 DEF Rests, Whence, Upgrade!Opening, Copying, Splitting, Single
<1>3. QED
    BY <1>1, <1>2 DEF OneAtATime

\* A name, and the contents it leads to, stay.
Stays(n) ==
    /\ names'[n] = names[n]
    /\ names[n] # 0 => /\ files'[names[n]].kind = files[names[n]].kind
                       /\ files'[names[n]].rows = files[names[n]].rows

LEMMA SourcesStay ==
    ASSUME Sources, UNCHANGED <<models, unseen>>,
           \/ Stays("db")
           \/ names'["db"] # 0 /\ (unseen \/ files'[names'["db"]].rows = models),
           Stays("yaml") \/ (names'["yaml"] = 0 /\ names'["db"] # 0),
           Stays(Backup) \/ files'[names'[Backup]].kind = "torn",
           \A i \in Slots : files'[i].kind = "single" =>
                files[i].kind = "single" /\ files'[i].rows = files[i].rows
    PROVE  Sources'
BY DEF Sources, Stays, Has, Upgrade!Exists, Upgrade!None

LEMMA QuietStays ==
    ASSUME Quiet
    PROVE  /\ \A n : Stays(n)
           /\ \A i \in Slots : files'[i].kind = "single" =>
                files[i].kind = "single" /\ files'[i].rows = files[i].rows
BY DEF Quiet, Stays

\* Files other than one that changes stay, and so do the names that lead there.
LEMMA OthersWritten ==
    ASSUME UpgradeTyped, NEW i \in Slots, NEW kind, NEW rows, NEW cols,
           Written(i, kind, rows, cols), kind # "single",
           NEW n \in Upgrade!Names, names'[n] = names[n], names[n] # i
    PROVE  /\ Stays(n)
           /\ \A j \in Slots : files'[j].kind = "single" =>
                files[j].kind = "single" /\ files'[j].rows = files[j].rows
BY NamesAre DEF Written, Stays

\* A process goes on, and the files and their names stay.
LEMMA QuietGoesOn ==
    ASSUME OneAtATime, NEW p \in Processes, Quiet, OthersStay(p), Whence(p)',
           \A q \in Processes \ {p} : ~ Upgrade!Opening(q)
    PROVE  OneAtATime'
<1>1. Sources'
    BY QuietStays, SourcesStay DEF OneAtATime, Quiet
<1>2. ASSUME NEW q \in Processes \ {p} PROVE Rests(q)'
    <2>1. Rests(q) /\ procs'[q] = procs[q] /\ UNCHANGED <<models, unseen, names, files>>
        BY RestsAreAll DEF OneAtATime, OthersStay, Quiet
    <2>2. QED
        BY <2>1, RestsStay
<1>3. QED
    BY <1>1, <1>2, OneGoesOn

LEMMA OneStaysQuiet ==
    ASSUME FilesKept, OneAtATime, NEW p \in Processes, ~ together',
           \/ Upgrade!Boot(p) \/ Upgrade!Probe(p) \/ Upgrade!Read(p)
           \/ Upgrade!LookForColumn(p) \/ Upgrade!Load(p) \/ Upgrade!Crash(p)
    PROVE  OneAtATime'
<1>0. UpgradeTyped /\ SinglesAre /\ Holding /\ Sources
    BY DEF FilesKept, OneAtATime
<1>1. ASSUME Upgrade!Boot(p) PROVE OneAtATime'
    <2>1. /\ procs[p].pc = "down" /\ Quiet
          /\ \A q \in Processes \ {p} : ~ Upgrade!Opening(q)
          /\ \/ ~ Upgrade!Exists("db") /\ Upgrade!Exists("yaml") /\ Keeps(p, "yaml temp")
             \/ (Upgrade!Exists("db") \/ ~ Upgrade!Exists("yaml")) /\ Keeps(p, "probe")
        BY <1>0, <1>1, Boots
    <2>2. ~ procs[p].raised
        BY <2>1 DEF OneAtATime, Whence
    <2>3. OthersStay(p) /\ ~ procs'[p].raised
        BY <2>1, <2>2 DEF Keeps, Becomes, OthersStay
    <2>4. \/ ~ Upgrade!Exists("db") /\ Upgrade!Exists("yaml") /\ procs'[p].pc = "yaml temp"
          \/ (Upgrade!Exists("db") \/ ~ Upgrade!Exists("yaml")) /\ procs'[p].pc = "probe"
        BY <2>1 DEF Keeps, Becomes
    <2>5. Whence(p)'
        BY <2>1, <2>3, <2>4 DEF Whence, Quiet, Upgrade!Exists, Copying, Splitting
    <2>6. QED
        BY <2>1, <2>3, <2>5, QuietGoesOn
<1>2. ASSUME Upgrade!Probe(p) PROVE OneAtATime'
    <2>1. /\ procs[p].pc = "probe" /\ Quiet
          /\ \/ ~ Single /\ Keeps(p, "open")
             \/ Single /\ Upgrade!Exists(Backup) /\ Keeps(p, "read")
             \/ Single /\ ~ Upgrade!Exists(Backup) /\ Keeps(p, "copy")
        BY <1>0, <1>2, Probes
    <2>2. /\ \A q \in Processes \ {p} : ~ Upgrade!Opening(q)
          /\ Whence(p) /\ ~ procs[p].raised
        BY <2>1, Solo DEF Upgrade!Opening
    <2>3. OthersStay(p) /\ ~ procs'[p].raised
        BY <2>1, <2>2 DEF Keeps, Becomes, OthersStay
    <2>4. /\ Upgrade!Exists("db") \/ ~ Upgrade!Exists("yaml")
          /\ \/ ~ Single /\ procs'[p].pc = "open"
             \/ Single /\ procs'[p].pc = "read"
             \/ Single /\ ~ Upgrade!Exists(Backup) /\ procs'[p].pc = "copy"
        BY <2>1, <2>2 DEF Keeps, Becomes, Whence
    <2>5. Whence(p)'
        BY <2>1, <2>3, <2>4 DEF Whence, Quiet, Single, Upgrade!Exists, Copying, Splitting
    <2>6. QED
        BY <2>1, <2>2, <2>3, <2>5, QuietGoesOn
<1>3. ASSUME Upgrade!Read(p) PROVE OneAtATime'
    <2>1. Upgrade!Exists(Backup)
        BY <1>0, <1>3 DEF SinglesAre, Upgrade!Read
    <2>2. /\ procs[p].pc = "read" /\ Quiet
          /\ \/ files[names[Backup]].kind # "single" /\ Fails(p)
             \/ /\ files[names[Backup]].kind = "single"
                /\ Becomes(p, "split temp", procs[p].open, procs[p].from,
                           files[names[Backup]].rows, procs[p].column, procs[p].raised)
        BY <1>0, <1>3, <2>1, Reads
    <2>3. /\ \A q \in Processes \ {p} : ~ Upgrade!Opening(q)
          /\ Whence(p) /\ ~ procs[p].raised
        BY <2>2, Solo DEF Upgrade!Opening
    <2>4. OthersStay(p)
        BY <2>2 DEF Becomes, Fails, OthersStay
    <2>5. Single
        BY <2>2, <2>3 DEF Whence, Single
    <2>6. CASE files[names[Backup]].kind # "single" /\ Fails(p)
        <3>1. files[names[Backup]].kind = "torn" /\ procs'[p].pc = "failed"
            BY <1>0, <2>1, <2>6 DEF Sources, Fails, Becomes
        <3>2. Whence(p)'
            BY <2>1, <2>2, <3>1 DEF Whence, Quiet, Upgrade!Exists, Copying, Splitting
        <3>3. QED
            BY <2>2, <2>3, <2>4, <3>2, QuietGoesOn
    <2>7. CASE /\ files[names[Backup]].kind = "single"
               /\ Becomes(p, "split temp", procs[p].open, procs[p].from,
                          files[names[Backup]].rows, procs[p].column, procs[p].raised)
        <3>1. names[Backup] \in Slots
            BY <1>0, <2>1, NamesAre DEF Upgrade!Exists, Upgrade!Names, Upgrade!None, Backup
        <3>2. /\ unseen \/ files[names[Backup]].rows = models
              /\ procs'[p].rows = files[names[Backup]].rows /\ procs'[p].pc = "split temp"
              /\ ~ procs'[p].raised
            BY <1>0, <2>3, <2>7, <3>1 DEF Sources, Has, Becomes
        <3>3. Whence(p)'
            BY <2>2, <2>5, <3>2 DEF Whence, Quiet, Single, Upgrade!Exists, Copying, Splitting
        <3>4. QED
            BY <2>2, <2>3, <2>4, <3>3, QuietGoesOn
    <2>8. QED
        BY <2>2, <2>6, <2>7
<1>4. ASSUME Upgrade!LookForColumn(p) PROVE OneAtATime'
    <2>1. procs[p].pc = "columns" /\ Quiet
        BY <1>0, <1>4, LooksForColumn
    <2>2. PICK c \in Identity \ files[procs[p].open].cols :
                 Becomes(p, "alter", procs[p].open, procs[p].from, procs[p].rows, c,
                         procs[p].raised)
        BY <1>0, <1>4, LooksForColumn
    <2>3. /\ \A q \in Processes \ {p} : ~ Upgrade!Opening(q)
          /\ Whence(p) /\ ~ procs[p].raised
        BY <2>1, Solo DEF Upgrade!Opening
    <2>4. ~ Single /\ Upgrade!Exists("db") /\ procs[p].open = names["db"]
        BY <2>1, <2>3 DEF Whence, Single
    <2>5. /\ OthersStay(p) /\ procs'[p].pc = "alter" /\ procs'[p].open = procs[p].open
          /\ procs'[p].column \notin files[procs[p].open].cols /\ ~ procs'[p].raised
        BY <2>2, <2>3 DEF Becomes, OthersStay
    <2>6. Whence(p)'
        BY <2>1, <2>4, <2>5 DEF Whence, Quiet, Single, Upgrade!Exists, Copying, Splitting
    <2>7. QED
        BY <2>1, <2>3, <2>5, <2>6, QuietGoesOn
<1>5. ASSUME Upgrade!Load(p) PROVE OneAtATime'
    <2>1. procs[p].open \in Slots
        BY <1>0, <1>5 DEF Holding, Upgrade!Load
    <2>2. /\ procs[p].pc = "columns" /\ Quiet
          /\ Becomes(p, "up", procs[p].open, procs[p].from, files[procs[p].open].rows,
                     procs[p].column, procs[p].raised)
        BY <1>0, <1>5, <2>1, Loads
    <2>3. /\ \A q \in Processes \ {p} : ~ Upgrade!Opening(q)
          /\ Whence(p) /\ ~ procs[p].raised
        BY <2>2, Solo DEF Upgrade!Opening
    <2>4. ~ Single /\ Upgrade!Exists("db") /\ procs[p].open = names["db"]
        BY <2>2, <2>3 DEF Whence, Single
    <2>5. /\ OthersStay(p) /\ procs'[p].pc = "up" /\ procs'[p].open = procs[p].open
          /\ procs'[p].rows = files[names["db"]].rows /\ ~ procs'[p].raised
        BY <2>2, <2>3, <2>4 DEF Becomes, OthersStay
    <2>6. unseen \/ procs'[p].rows = models
        BY <1>0, <2>4, <2>5 DEF Sources, Has
    <2>7. Whence(p)'
        BY <2>2, <2>4, <2>5, <2>6 DEF Whence, Quiet, Single, Upgrade!Exists, Copying, Splitting
    <2>8. QED
        BY <2>2, <2>3, <2>5, <2>7, QuietGoesOn
<1>6. ASSUME Upgrade!Crash(p) PROVE OneAtATime'
    <2>1. Quiet /\ Becomes(p, "down", 0, 0, {}, "", FALSE)
        BY <1>0, <1>6, Dies
    <2>2. /\ OthersStay(p) /\ procs'[p].pc = "down" /\ ~ procs'[p].raised
        BY <2>1 DEF Becomes, OthersStay
    <2>3. Sources'
        BY <1>0, <2>1, QuietStays, SourcesStay DEF Quiet
    <2>4. \A q, r \in Processes : Upgrade!Opening(q)' /\ Upgrade!Opening(r)' => q = r
        BY <2>2 DEF OneAtATime, OthersStay, Upgrade!Opening
    <2>5. Whence(p)'
        BY <2>2 DEF Whence, Copying, Splitting
    <2>6. ASSUME NEW q \in Processes \ {p} PROVE Whence(q)'
        <3>1. Whence(q) /\ procs'[q] = procs[q]
            BY <2>2 DEF OneAtATime, OthersStay
        <3>2. procs[q].pc = "copied" => \A r \in Processes : ~ procs'[r].raised
            BY <2>2, <3>1 DEF OthersStay, Whence
        <3>3. QED
            BY <2>1, <3>1, <3>2 DEF Whence, Quiet, Has, Upgrade!Exists, Copying, Splitting
    <2>7. QED
        BY <2>3, <2>4, <2>5, <2>6 DEF OneAtATime
<1>7. QED
    BY <1>1, <1>2, <1>3, <1>4, <1>5, <1>6

LEMMA OneStaysImporting ==
    ASSUME UpgradeSetting, FilesKept, OneAtATime, NEW p \in Processes,
           Upgrade!YamlTemp(p) \/ Upgrade!YamlFill(p) \/ Upgrade!YamlRename(p)
    PROVE  OneAtATime'
<1>0. /\ UpgradeTyped /\ NamesApart /\ SinglesAre /\ Holding /\ Sources
      /\ {"db", "yaml", "db.tmp", "yaml.bak", Backup} \subseteq Upgrade!Names
    BY DEF FilesKept, OneAtATime, Upgrade!Names, Backup
<1>s. /\ \A q \in Processes \ {p} : ~ Upgrade!Opening(q) /\ Rests(q)
      /\ Whence(p) /\ ~ procs[p].raised
    BY Solo DEF Upgrade!Opening, Upgrade!YamlTemp, Upgrade!YamlFill, Upgrade!YamlRename
<1>1. ASSUME Upgrade!YamlTemp(p) PROVE OneAtATime'
    <2>1. PICK i \in Slots : Makes("db.tmp", i) /\ Onto(p, "yaml fill", i)
        BY <1>0, <1>1, MakesTemp DEF Upgrade!YamlTemp
    <2>2. /\ UNCHANGED <<models, unseen>> /\ i # 0 /\ Written(i, "split", {}, Identity)
          /\ \A n \in Upgrade!Names \ {"db.tmp"} : names'[n] = names[n] /\ names[n] # i
          /\ names'["db.tmp"] = i
        BY <1>0, <1>1, <2>1, MakesTemp, FreshIsApart DEF UpgradeSetting, Makes, Leads
    <2>3. /\ Stays("db") /\ Stays("yaml") /\ Stays(Backup)
          /\ \A j \in Slots : files'[j].kind = "single" =>
                files[j].kind = "single" /\ files'[j].rows = files[j].rows
        BY <1>0, <2>2, OthersWritten DEF Backup
    <2>4. Sources'
        BY <1>0, <2>2, <2>3, SourcesStay
    <2>5. /\ OthersStay(p) /\ procs'[p].pc = "yaml fill" /\ procs'[p].open = i
          /\ ~ procs'[p].raised
        BY <1>s, <2>1 DEF Onto, Becomes, OthersStay
    <2>6. Upgrade!Exists("yaml") /\ ~ Upgrade!Exists("db")
        BY <1>s, <1>1 DEF Whence, Upgrade!YamlTemp
    <2>7. files'[i].rows = {}
        BY <2>2 DEF Written
    <2>8. Whence(p)'
        BY <2>2, <2>3, <2>5, <2>6, <2>7
           DEF Whence, Stays, Upgrade!Exists, Upgrade!None, Copying, Splitting
    <2>9. ASSUME NEW q \in Processes \ {p} PROVE Rests(q)'
        <3>1. Rests(q) /\ procs'[q] = procs[q]
            BY <1>s, <2>5 DEF OthersStay
        <3>2. \/ ~ procs[q].raised
              \/ /\ names'[Backup] = names[Backup]
                 /\ files'[names[Backup]].kind = files[names[Backup]].kind
            BY <2>3, <3>1 DEF Rests, Stays, Upgrade!Exists, Upgrade!None
        <3>3. QED
            BY <2>2, <2>6, <3>1, <3>2, RestsStay
    <2>10. QED
        BY <1>s, <2>4, <2>5, <2>8, <2>9, OneGoesOn
<1>2. ASSUME Upgrade!YamlFill(p) PROVE OneAtATime'
    <2> DEFINE i == procs[p].open
               rows == files[i].rows \cup files[names["yaml"]].rows
    <2>1. /\ i \in Slots /\ i # 0 /\ i = names["db.tmp"] /\ files[i].rows = {}
          /\ Upgrade!Exists("yaml") /\ ~ Upgrade!Exists("db")
        BY <1>0, <1>s, <1>2 DEF Holding, Whence, Upgrade!YamlFill
    <2>2. /\ UNCHANGED <<names, models, unseen>> /\ Keeps(p, "yaml swap")
          /\ Written(i, "split", rows, Identity)
        BY <1>0, <1>2, <2>1, FillsYaml
    <2>3. rows = models
        BY <1>0, <2>1 DEF Sources
    <2>4. /\ OthersStay(p) /\ procs'[p].pc = "yaml swap" /\ procs'[p].open = i
          /\ ~ procs'[p].raised
        BY <1>s, <2>2 DEF Keeps, Becomes, OthersStay
    <2> HIDE DEF i, rows
    <2>5. \A n \in Upgrade!Names \ {"db.tmp"} : names[n] # i
        BY <1>0, <2>1 DEF NamesApart
    <2>6. /\ Stays("db") /\ Stays("yaml") /\ Stays(Backup)
          /\ \A j \in Slots : files'[j].kind = "single" =>
                files[j].kind = "single" /\ files'[j].rows = files[j].rows
        BY <1>0, <2>1, <2>2, <2>5, OthersWritten DEF Backup
    <2>7. Sources'
        BY <1>0, <2>2, <2>6, SourcesStay
    <2>8. files'[i].rows = models
        BY <2>2, <2>3 DEF Written
    <2>9. Whence(p)'
        BY <2>1, <2>2, <2>4, <2>8
           DEF Whence, Has, Upgrade!Exists, Upgrade!None, Copying, Splitting
    <2>10. ASSUME NEW q \in Processes \ {p} PROVE Rests(q)'
        <3>1. Rests(q) /\ procs'[q] = procs[q]
            BY <1>s, <2>4 DEF OthersStay
        <3>2. \/ ~ procs[q].raised
              \/ /\ names'[Backup] = names[Backup]
                 /\ files'[names[Backup]].kind = files[names[Backup]].kind
            BY <2>6, <3>1 DEF Rests, Stays, Upgrade!Exists, Upgrade!None
        <3>3. QED
            BY <2>1, <2>2, <3>1, <3>2, RestsStay
    <2>11. QED
        BY <1>s, <2>4, <2>7, <2>9, <2>10, OneGoesOn
<1>3. ASSUME Upgrade!YamlRename(p) PROVE OneAtATime'
    <2>1. /\ UNCHANGED <<files, models, unseen>> /\ Keeps(p, "probe")
          /\ procs[p].pc = "yaml rename"
          /\ names'["db"] = names["db"] /\ names'[Backup] = names[Backup]
          /\ names'["yaml"] = names["yaml"] \/ names'["yaml"] = 0
        BY <1>0, <1>3, Renames DEF Upgrade!Names, Backup
    <2>2. names["db"] # 0
        BY <1>s, <2>1 DEF Whence, Upgrade!Exists, Upgrade!None
    <2>3. /\ OthersStay(p) /\ procs'[p].pc = "probe" /\ ~ procs'[p].raised
        BY <1>s, <2>1 DEF Keeps, Becomes, OthersStay
    <2>4. Sources'
        BY <1>0, <2>1, <2>2, SourcesStay DEF Stays
    <2>5. Whence(p)'
        BY <2>1, <2>2, <2>3 DEF Whence, Upgrade!Exists, Upgrade!None, Copying, Splitting
    <2>6. ASSUME NEW q \in Processes \ {p} PROVE Rests(q)'
        BY <1>s, <2>1, <2>3, RestsStay DEF OthersStay
    <2>7. QED
        BY <1>s, <2>3, <2>4, <2>5, <2>6, OneGoesOn
<1>4. QED
    BY <1>1, <1>2, <1>3

LEMMA OneStaysSplitting ==
    ASSUME UpgradeSetting, FilesKept, OneAtATime, NEW p \in Processes,
           Upgrade!SplitTemp(p) \/ Upgrade!SplitFill(p)
    PROVE  OneAtATime'
<1>0. /\ UpgradeTyped /\ NamesApart /\ SinglesAre /\ Holding /\ Sources
      /\ {"db", "yaml", "db.tmp", "yaml.bak", Backup} \subseteq Upgrade!Names
    BY DEF FilesKept, OneAtATime, Upgrade!Names, Backup
<1>s. /\ \A q \in Processes \ {p} : ~ Upgrade!Opening(q) /\ Rests(q)
      /\ Whence(p) /\ ~ procs[p].raised
    BY Solo DEF Upgrade!Opening, Upgrade!SplitTemp, Upgrade!SplitFill
<1>1. /\ Single /\ procs[p].pc \in {"split temp", "split fill"}
      /\ unseen \/ procs[p].rows = models
    BY <1>s DEF Whence, Single, Splitting, Upgrade!SplitTemp, Upgrade!SplitFill
<1>2. ASSUME NEW i \in Slots, NEW kind, NEW rows, NEW cols, Written(i, kind, rows, cols),
             kind # "single", UNCHANGED <<models, unseen>>, OthersStay(p), Whence(p)',
             \A n \in Upgrade!Names \ {"db.tmp"} : names'[n] = names[n] /\ names[n] # i
      PROVE  OneAtATime'
    <2>1. /\ Stays("db") /\ Stays("yaml") /\ Stays(Backup)
          /\ \A j \in Slots : files'[j].kind = "single" =>
                files[j].kind = "single" /\ files'[j].rows = files[j].rows
        BY <1>0, <1>2, OthersWritten DEF Backup
    <2>2. Sources'
        BY <1>0, <1>2, <2>1, SourcesStay
    <2>3. ASSUME NEW q \in Processes \ {p} PROVE Rests(q)'
        <3>1. Rests(q) /\ procs'[q] = procs[q]
            BY <1>s, <1>2 DEF OthersStay
        <3>2. \/ ~ procs[q].raised
              \/ /\ names'[Backup] = names[Backup]
                 /\ files'[names[Backup]].kind = files[names[Backup]].kind
            BY <2>1, <3>1 DEF Rests, Stays, Upgrade!Exists, Upgrade!None
        <3>3. QED
            BY <1>1, <1>2, <3>1, <3>2, RestsStay
    <2>4. QED
        BY <1>s, <1>2, <2>2, <2>3, OneGoesOn
<1>3. ASSUME Upgrade!SplitTemp(p) PROVE OneAtATime'
    <2>1. PICK i \in Slots : Makes("db.tmp", i) /\ Onto(p, "split fill", i)
        BY <1>0, <1>3, MakesTemp DEF Upgrade!SplitTemp
    <2>2. /\ UNCHANGED <<models, unseen>> /\ i # 0 /\ Written(i, "split", {}, Identity)
          /\ \A n \in Upgrade!Names \ {"db.tmp"} : names'[n] = names[n] /\ names[n] # i
          /\ names'["db.tmp"] = i
        BY <1>0, <1>3, <2>1, MakesTemp, FreshIsApart DEF UpgradeSetting, Makes, Leads
    <2>3. /\ OthersStay(p) /\ procs'[p].pc = "split fill" /\ procs'[p].open = i
          /\ procs'[p].rows = procs[p].rows /\ ~ procs'[p].raised
        BY <1>s, <2>1 DEF Onto, Becomes, OthersStay
    <2>4. Stays("db") /\ files'[i].rows = {}
        BY <1>0, <2>2, OthersWritten DEF Written
    <2>5. Whence(p)'
        BY <1>1, <2>2, <2>3, <2>4
           DEF Whence, Single, Stays, Upgrade!Exists, Upgrade!None, Copying, Splitting
    <2>6. QED
        BY <1>2, <2>2, <2>3, <2>5
<1>4. ASSUME Upgrade!SplitFill(p) PROVE OneAtATime'
    <2> DEFINE i == procs[p].open
               rows == files[i].rows \cup procs[p].rows
    <2>1. i \in Slots /\ i # 0 /\ i = names["db.tmp"] /\ files[i].rows = {}
        BY <1>0, <1>s, <1>4 DEF Holding, Whence, Upgrade!SplitFill
    <2>2. /\ UNCHANGED <<names, models, unseen>> /\ Keeps(p, "split swap")
          /\ Written(i, "split", rows, Identity)
        BY <1>0, <1>4, <2>1, FillsSplit
    <2>3. unseen \/ rows = models
        BY <1>1, <2>1
    <2>4. /\ OthersStay(p) /\ procs'[p].pc = "split swap" /\ procs'[p].open = i
          /\ procs'[p].rows = procs[p].rows /\ ~ procs'[p].raised
        BY <1>s, <2>2 DEF Keeps, Becomes, OthersStay
    <2> HIDE DEF i, rows
    <2>5. \A n \in Upgrade!Names \ {"db.tmp"} : names'[n] = names[n] /\ names[n] # i
        BY <1>0, <2>1, <2>2 DEF NamesApart
    <2>6. /\ Stays("db") /\ files'[i].kind = "split"
          /\ unseen \/ files'[i].rows = models
        <3>1. Stays("db")
            BY <1>0, <2>1, <2>2, <2>5, OthersWritten
        <3>2. files'[i].kind = "split" /\ files'[i].rows = rows
            BY <2>2 DEF Written
        <3>3. QED
            BY <2>3, <3>1, <3>2
    <2>7. Whence(p)'
        BY <1>1, <2>1, <2>2, <2>4, <2>6
           DEF Whence, Has, Single, Stays, Upgrade!Exists, Upgrade!None, Copying, Splitting
    <2>8. QED
        BY <1>2, <2>1, <2>2, <2>4, <2>5, <2>7
<1>5. QED
    BY <1>3, <1>4

LEMMA OneStaysSwapping ==
    ASSUME UpgradeSetting, FilesKept, OneAtATime, NEW p \in Processes,
           Upgrade!YamlSwap(p) \/ Upgrade!SplitSwap(p)
    PROVE  OneAtATime'
<1>0. UpgradeTyped /\ SinglesAre /\ Holding /\ Sources
    BY DEF FilesKept, OneAtATime
<1>1. /\ \A q \in Processes \ {p} : ~ Upgrade!Opening(q) /\ Rests(q)
      /\ Whence(p) /\ ~ procs[p].raised
    BY Solo DEF Upgrade!Opening, Upgrade!YamlSwap, Upgrade!SplitSwap
<1>2. /\ procs[p].pc \in {"yaml swap", "split swap"}
      /\ names["db.tmp"] = procs[p].open /\ procs[p].open # 0
      /\ unseen \/ files[names["db.tmp"]].rows = models
      /\ procs[p].pc = "split swap" => Single /\ files[names["db.tmp"]].kind = "split"
      /\ procs[p].pc = "yaml swap" => ~ Upgrade!Exists("db")
    BY <1>1 DEF Whence, Has, Single, Splitting, Upgrade!YamlSwap, Upgrade!SplitSwap
<1>3. /\ UNCHANGED <<files, models, unseen>>
      /\ Onto(p, IF procs[p].pc = "yaml swap" THEN "yaml rename" ELSE "open", 0)
      /\ names'["db"] = names["db.tmp"] /\ names'["db.tmp"] = 0
      /\ names'["yaml"] = names["yaml"] /\ names'[Backup] = names[Backup]
    BY <1>0, <1>2, Swaps DEF Upgrade!Exists, Upgrade!None, Upgrade!Names, Backup
<1>4. /\ OthersStay(p) /\ ~ procs'[p].raised
      /\ \/ procs'[p].pc = "yaml rename"
         \/ procs'[p].pc = "open" /\ procs[p].pc = "split swap"
    BY <1>1, <1>2, <1>3 DEF Onto, Becomes, OthersStay
<1>5. Sources'
    BY <1>0, <1>2, <1>3, SourcesStay DEF Stays
<1>6. Whence(p)'
    BY <1>2, <1>3, <1>4 DEF Whence, Upgrade!Exists, Upgrade!None, Copying, Splitting
<1>7. ASSUME NEW q \in Processes \ {p} PROVE Rests(q)'
    BY <1>1, <1>2, <1>3, <1>4, RestsStay DEF OthersStay
<1>8. QED
    BY <1>1, <1>4, <1>5, <1>6, <1>7, OneGoesOn

LEMMA OneStaysCopying ==
    ASSUME UpgradeSetting, FilesKept, OneAtATime, NEW p \in Processes,
           Upgrade!Copy(p) \/ Upgrade!Copied(p)
    PROVE  OneAtATime'
<1>0. /\ UpgradeTyped /\ NamesApart /\ SinglesAre /\ Holding /\ Sources
      /\ {"db", "yaml", "db.tmp", "yaml.bak", Backup} \subseteq Upgrade!Names
    BY DEF FilesKept, OneAtATime, Upgrade!Names, Backup
<1>1. /\ \A q \in Processes \ {p} : ~ Upgrade!Opening(q) /\ Rests(q)
      /\ Whence(p) /\ ~ procs[p].raised
    BY Solo DEF Upgrade!Opening, Upgrade!Copy, Upgrade!Copied
<1>2. /\ Single /\ names["db"] \in Slots /\ names["db"] # 0 /\ Has(names["db"])
      /\ files[names["db"]].kind = "single"
      /\ \A q \in Processes : ~ procs[q].raised
    <2>1. Single
        BY <1>1 DEF Whence, Single, Copying, Upgrade!Copy, Upgrade!Copied
    <2>2. \A q \in Processes : ~ procs[q].raised
        BY <1>1 DEF Whence, Rests, Upgrade!Copy, Upgrade!Copied
    <2>3. QED
        BY <1>0, <2>1, <2>2, NamesAre DEF Single, Sources, Upgrade!Exists, Upgrade!None
<1>3. ASSUME Upgrade!Copy(p) PROVE OneAtATime'
    <2>1. ~ Upgrade!Exists(Backup)
        BY <1>1, <1>3 DEF Whence, Upgrade!Copy
    <2>2. PICK i \in Slots :
             /\ Fresh(i) /\ Leads(Backup, i) /\ Written(i, "torn", {}, {})
             /\ Becomes(p, "copied", i, names["db"], procs[p].rows, procs[p].column,
                        procs[p].raised)
        BY <1>0, <1>3, <2>1, CopiesIt
    <2>3. /\ UNCHANGED <<models, unseen>> /\ i # 0 /\ names'[Backup] = i
          /\ \A n \in Upgrade!Names \ {Backup} : names'[n] = names[n] /\ names[n] # i
          /\ files'[i].kind = "torn"
        BY <1>0, <1>3, <2>2, CopiesIt, FreshIsApart DEF UpgradeSetting, Leads, Written
    <2>4. /\ Stays("db") /\ Stays("yaml")
          /\ \A j \in Slots : files'[j].kind = "single" =>
                files[j].kind = "single" /\ files'[j].rows = files[j].rows
        BY <1>0, <2>2, <2>3, OthersWritten DEF Backup
    <2>5. Sources'
        BY <1>0, <2>3, <2>4, SourcesStay
    <2>6. /\ OthersStay(p) /\ procs'[p].pc = "copied" /\ procs'[p].open = i
          /\ procs'[p].from = names["db"] /\ ~ procs'[p].raised
        BY <1>1, <2>2 DEF Becomes, OthersStay
    <2>7. \A q \in Processes : ~ procs'[q].raised
        BY <1>2, <2>6 DEF OthersStay
    <2>8. Whence(p)'
        BY <1>2, <2>3, <2>4, <2>6, <2>7
           DEF Whence, Stays, Upgrade!Exists, Upgrade!None, Copying, Splitting
    <2>9. ASSUME NEW q \in Processes \ {p} PROVE Rests(q)'
        BY <1>1, <1>2, <2>3, <2>6, RestsStay DEF OthersStay
    <2>10. QED
        BY <1>1, <2>5, <2>6, <2>8, <2>9, OneGoesOn
<1>4. ASSUME Upgrade!Copied(p) PROVE OneAtATime'
    <2> DEFINE i == procs[p].open
    <2>1. /\ i \in Slots /\ i # 0 /\ i = names[Backup] /\ procs[p].from = names["db"]
          /\ names["db"] # i
        <3>1. /\ i \in Slots /\ i = names[Backup] /\ Upgrade!Exists(Backup)
              /\ procs[p].from = names["db"]
            BY <1>0, <1>1, <1>4 DEF Holding, Whence, Upgrade!Copied
        <3>2. QED
            BY <1>0, <3>1 DEF NamesApart, Upgrade!Exists, Upgrade!None, Backup
    <2>2. /\ UNCHANGED <<names, models, unseen>>
          /\ Becomes(p, "read", 0, 0, procs[p].rows, procs[p].column, procs[p].raised)
          /\ Written(i, files[names["db"]].kind, files[names["db"]].rows,
                     files[names["db"]].cols)
        BY <1>0, <1>2, <1>4, <2>1, IsCopied
    <2>3. /\ OthersStay(p) /\ procs'[p].pc = "read" /\ ~ procs'[p].raised
        BY <1>1, <2>2 DEF Becomes, OthersStay
    <2> HIDE DEF i
    <2>4. /\ files'[i].kind = "single" /\ files'[i].rows = files[names["db"]].rows
          /\ \A j \in Slots \ {i} : files'[j] = files[j]
        BY <1>2, <2>2 DEF Written
    <2>5. unseen \/ files[names["db"]].rows = models
        BY <1>2 DEF Has
    <2>6. names["yaml"] # i /\ names["yaml"] \in Slots \cup {0}
        BY <1>0, <2>1, NamesAre DEF NamesApart, Backup
    <2>7. Sources'
        <3>1. unseen' \/ files'[names'["db"]].rows = models'
            BY <1>2, <2>1, <2>2, <2>4, <2>5
        <3>2. names'["yaml"] # 0 => files'[names'["yaml"]].rows = models'
            BY <1>0, <2>2, <2>4, <2>6 DEF Sources, Upgrade!Exists, Upgrade!None
        <3>3. \A j \in Slots : files'[j].kind = "single" => unseen' \/ files'[j].rows = models'
            BY <1>0, <2>2, <2>4, <2>5 DEF Sources, Has
        <3>4. names'["db"] # 0 /\ files'[names'[Backup]].kind = "single"
            BY <1>2, <2>1, <2>2, <2>4
        <3>5. QED
            BY <3>1, <3>2, <3>3, <3>4 DEF Sources, Has, Upgrade!Exists, Upgrade!None
    <2>8. Whence(p)'
        BY <1>2, <2>1, <2>2, <2>3, <2>4
           DEF Whence, Upgrade!Exists, Upgrade!None, Copying, Splitting
    <2>9. ASSUME NEW q \in Processes \ {p} PROVE Rests(q)'
        BY <1>1, <1>2, <2>2, <2>3, RestsStay DEF OthersStay
    <2>10. QED
        BY <1>1, <2>3, <2>7, <2>8, <2>9, OneGoesOn
<1>5. QED
    BY <1>3, <1>4

LEMMA OneStaysOpening ==
    ASSUME UpgradeSetting, FilesKept, OneAtATime, NEW p \in Processes,
           Upgrade!Open(p) \/ Upgrade!AddColumn(p)
    PROVE  OneAtATime'
<1>0. /\ UpgradeTyped /\ NamesApart /\ SinglesAre /\ Holding /\ Sources
      /\ {"db", "yaml", "db.tmp", "yaml.bak", Backup} \subseteq Upgrade!Names
    BY DEF FilesKept, OneAtATime, Upgrade!Names, Backup
<1>1. /\ \A q \in Processes \ {p} : ~ Upgrade!Opening(q) /\ Rests(q)
      /\ Whence(p) /\ ~ procs[p].raised
    BY Solo DEF Upgrade!Opening, Upgrade!Open, Upgrade!AddColumn
<1>2. ~ Single
    BY <1>1 DEF Whence, Single, Upgrade!Open, Upgrade!AddColumn
<1>3. ASSUME Upgrade!Open(p) PROVE OneAtATime'
    <2>1. CASE Upgrade!Exists("db")
        <3>1. Quiet /\ Onto(p, "columns", names["db"])
            BY <1>0, <1>3, <2>1, Opens DEF Quiet
        <3>2. /\ OthersStay(p) /\ procs'[p].pc = "columns" /\ procs'[p].open = names["db"]
              /\ ~ procs'[p].raised
            BY <1>1, <3>1 DEF Onto, Becomes, OthersStay
        <3>3. Whence(p)'
            BY <1>2, <2>1, <3>1, <3>2
               DEF Whence, Quiet, Single, Upgrade!Exists, Copying, Splitting
        <3>4. QED
            BY <1>1, <3>1, <3>2, <3>3, QuietGoesOn
    <2>2. CASE ~ Upgrade!Exists("db")
        <3>1. PICK i \in Slots : Makes("db", i) /\ Onto(p, "columns", i)
            BY <1>0, <1>3, <2>2, Opens
        <3>2. /\ UNCHANGED <<models, unseen>> /\ i # 0 /\ Written(i, "split", {}, Identity)
              /\ \A n \in Upgrade!Names \ {"db"} : names'[n] = names[n] /\ names[n] # i
              /\ names'["db"] = i /\ files'[i].kind = "split" /\ files'[i].rows = {}
            BY <1>0, <1>3, <3>1, Opens, FreshIsApart
               DEF UpgradeSetting, Makes, Leads, Written
        <3>3. models = {}
            BY <1>0, <1>1, <1>3, <2>2 DEF Sources, Whence, Upgrade!Open
        <3>4. /\ Stays("yaml") /\ Stays(Backup)
              /\ \A j \in Slots : files'[j].kind = "single" =>
                    files[j].kind = "single" /\ files'[j].rows = files[j].rows
            BY <1>0, <3>2, OthersWritten DEF Backup
        <3>5. Sources'
            BY <1>0, <3>2, <3>3, <3>4, SourcesStay
        <3>6. /\ OthersStay(p) /\ procs'[p].pc = "columns" /\ procs'[p].open = i
              /\ ~ procs'[p].raised
            BY <1>1, <3>1 DEF Onto, Becomes, OthersStay
        <3>7. Whence(p)'
            BY <3>2, <3>6 DEF Whence, Upgrade!Exists, Upgrade!None, Copying, Splitting
        <3>8. ASSUME NEW q \in Processes \ {p} PROVE Rests(q)'
            <4>1. Rests(q) /\ procs'[q] = procs[q]
                BY <1>1, <3>6 DEF OthersStay
            <4>2. \/ ~ procs[q].raised
                  \/ /\ names'[Backup] = names[Backup]
                     /\ files'[names[Backup]].kind = files[names[Backup]].kind
                BY <3>4, <4>1 DEF Rests, Stays, Upgrade!Exists, Upgrade!None
            <4>3. QED
                BY <2>2, <3>2, <4>1, <4>2, RestsStay
        <3>9. QED
            BY <1>1, <3>5, <3>6, <3>7, <3>8, OneGoesOn
    <2>3. QED
        BY <2>1, <2>2
<1>4. ASSUME Upgrade!AddColumn(p) PROVE OneAtATime'
    <2> DEFINE i == procs[p].open
    <2>1. /\ i \in Slots /\ procs[p].column \in Identity /\ i = names["db"]
          /\ procs[p].column \notin files[i].cols /\ Upgrade!Exists("db")
        BY <1>0, <1>1, <1>4 DEF Holding, Whence, Upgrade!AddColumn
    <2>2. /\ UNCHANGED <<names, models, unseen>>
          /\ Becomes(p, "columns", procs[p].open, procs[p].from, procs[p].rows, "",
                     procs[p].raised)
        BY <1>0, <1>4, <2>1, AddsColumn
    <2>3. PICK cols : Written(i, files[i].kind, files[i].rows, cols)
        BY <1>0, <1>4, <2>1, AddsColumn
    <2>4. /\ OthersStay(p) /\ procs'[p].pc = "columns" /\ procs'[p].open = i
          /\ ~ procs'[p].raised
        BY <1>1, <2>2 DEF Becomes, OthersStay
    <2> HIDE DEF i
    <2>5. \A j \in Slots : files'[j].kind = files[j].kind /\ files'[j].rows = files[j].rows
        BY <2>3 DEF Written
    <2>6. Stays("db") /\ Stays("yaml") /\ Stays(Backup)
        BY <1>0, <2>2, <2>5, NamesAre DEF Stays
    <2>7. Sources'
        BY <1>0, <2>2, <2>5, <2>6, SourcesStay
    <2>8. Whence(p)'
        BY <1>2, <2>1, <2>2, <2>4, <2>5
           DEF Whence, Single, Upgrade!Exists, Copying, Splitting
    <2>9. ASSUME NEW q \in Processes \ {p} PROVE Rests(q)'
        <3>1. Rests(q) /\ procs'[q] = procs[q]
            BY <1>1, <2>4 DEF OthersStay
        <3>2. \/ ~ procs[q].raised
              \/ /\ names'[Backup] = names[Backup]
                 /\ files'[names[Backup]].kind = files[names[Backup]].kind
            BY <2>6, <3>1 DEF Rests, Stays, Upgrade!Exists, Upgrade!None
        <3>3. files'[names["db"]].kind = files[names["db"]].kind
            BY <2>1, <2>5
        <3>4. QED
            BY <2>2, <3>1, <3>2, <3>3, RestsStay
    <2>10. QED
        BY <1>1, <2>4, <2>7, <2>8, <2>9, OneGoesOn
<1>5. QED
    BY <1>3, <1>4

LEMMA OneRegisters ==
    ASSUME UpgradeSetting, FilesKept, OneAtATime, NEW m \in Later, Upgrade!OlderRelease(m)
    PROVE  OneAtATime'
<1>0. /\ UpgradeTyped /\ NamesApart /\ SinglesAre /\ Sources
      /\ {"db", "yaml", Backup} \subseteq Upgrade!Names
    BY DEF FilesKept, OneAtATime, Upgrade!Names, Backup
<1> DEFINE i == names["db"]
<1>1. /\ UNCHANGED <<names, procs>> /\ Single
      /\ \A p \in Processes : procs[p].pc \in {"down", "failed"}
      /\ models' = models \cup {m} /\ unseen' = (unseen \/ Upgrade!Exists(Backup))
      /\ Written(i, "single", files[i].rows \cup {m}, files[i].cols)
    BY <1>0, OlderRegisters
<1>2. i \in Slots /\ i # 0 /\ Upgrade!Exists("db") /\ files[i].kind = "single"
    BY <1>0, <1>1, NamesAre DEF Single, Upgrade!Exists, Upgrade!None
<1>3. names["yaml"] = 0
    BY <1>0, <1>2 DEF SinglesAre, Upgrade!Exists, Upgrade!None
<1>4. /\ files'[i].kind = "single" /\ files'[i].rows = files[i].rows \cup {m}
      /\ \A j \in Slots \ {i} : files'[j] = files[j]
    BY <1>1 DEF Written
<1>5. unseen \/ files[i].rows = models
    BY <1>0, <1>2 DEF Sources, Has
<1> HIDE DEF i
<1>6. unseen' \/ files'[i].rows = models'
    BY <1>1, <1>4, <1>5
<1>7. ASSUME NEW j \in Slots, files'[j].kind = "single", ~ unseen'
      PROVE  files'[j].rows = models'
    <2>1. files[j].kind = "single" /\ ~ Upgrade!Exists(Backup)
        BY <1>1, <1>2, <1>4, <1>7
    <2>2. j = i
        BY <1>0, <2>1 DEF SinglesAre, i
    <2>3. QED
        BY <1>6, <1>7, <2>2
<1>8. Upgrade!Exists(Backup) => /\ names[Backup] \in Slots \ {i}
                                /\ files'[names[Backup]].kind = files[names[Backup]].kind
    <2>1. Upgrade!Exists(Backup) => names[Backup] \in Slots \ {i}
        BY <1>0, NamesAre DEF NamesApart, Upgrade!Exists, Upgrade!None, Backup, i
    <2>2. QED
        BY <1>4, <2>1
<1>9. Sources'
    <2>1. names'["db"] = i /\ names'["db"] # 0 /\ names'["yaml"] = 0
        BY <1>1, <1>2, <1>3 DEF i
    <2>2. names'[Backup] # 0 => files'[names'[Backup]].kind \in {"single", "torn"}
        BY <1>0, <1>1, <1>8 DEF Sources, Upgrade!Exists, Upgrade!None
    <2>3. \A j \in Slots : files'[j].kind = "single" => unseen' \/ files'[j].rows = models'
        BY <1>7
    <2>4. QED
        BY <1>6, <2>1, <2>2, <2>3 DEF Sources, Has, Upgrade!Exists, Upgrade!None
<1>10. \A p \in Processes : ~ Upgrade!Opening(p) /\ ~ Upgrade!Opening(p)'
    BY <1>1 DEF Upgrade!Opening
<1>11. ASSUME NEW p \in Processes PROVE Whence(p)'
    <2>1. Rests(p) /\ procs'[p] = procs[p] /\ procs[p].pc \in {"down", "failed"}
        BY <1>1, RestsAreAll DEF OneAtATime
    <2>2. procs[p].raised => 
            /\ procs[p].pc = "failed" /\ names'[Backup] # 0
            /\ files'[names'[Backup]].kind = "torn"
        BY <1>1, <1>8, <2>1 DEF Rests, Upgrade!Exists, Upgrade!None
    <2>3. QED
        BY <2>1, <2>2 DEF Whence, Upgrade!Exists, Upgrade!None, Copying, Splitting
<1>12. QED
    BY <1>9, <1>10, <1>11 DEF OneAtATime

LEMMA OneStays ==
    ASSUME UpgradeSetting, FilesKept, OneAtATime, Upgrade!Next, ~ together'
    PROVE  OneAtATime'
BY OneStaysQuiet, OneStaysImporting, OneStaysSplitting, OneStaysSwapping, OneStaysCopying,
   OneStaysOpening, OneRegisters DEF Upgrade!Next

-----------------------------------------------------------------------------
LEMMA UpgradeInit ==
    ASSUME UpgradeSetting, Upgrade!Init
    PROVE  UpgradeInv
<1>1. PICK kind \in {"nothing", "yaml", "single", "split"} :
         /\ names = [n \in Upgrade!Names |->
                       IF n = (IF kind = "yaml" THEN "yaml" ELSE "db") /\ kind # "nothing"
                       THEN 1 ELSE 0]
         /\ files = [i \in Slots |->
                       IF i = 1 /\ kind # "nothing"
                       THEN Upgrade!Legacy(kind) ELSE Upgrade!Unused]
         /\ models = IF kind = "nothing" THEN {} ELSE Old
    BY DEF Upgrade!Init, Upgrade!None
<1>2. /\ procs = [p \in Processes |-> Upgrade!Down]
      /\ together = FALSE /\ unseen = FALSE
    BY DEF Upgrade!Init
<1>3. /\ Upgrade!Legacy(kind).kind = kind /\ Upgrade!Legacy(kind).rows = Old
      /\ Upgrade!Unused.kind = "none"
    BY DEF Upgrade!Legacy, Upgrade!Unused
<1>4. \A p \in Processes :
         /\ procs[p].pc = "down" /\ procs[p].open = 0 /\ procs[p].from = 0
         /\ procs[p].rows = {} /\ procs[p].column = "" /\ ~ procs[p].raised
    BY <1>2 DEF Upgrade!Down, Upgrade!None
<1>5. 1 \in Slots /\ 1 # 0
    BY DEF UpgradeSetting
<1>6. /\ \A i \in Slots : (i # 1 \/ kind = "nothing") => files[i].kind = "none"
      /\ kind # "nothing" => files[1].kind = kind /\ files[1].rows = Old
    BY <1>1, <1>3, <1>5
<1>7. UpgradeTyped
    <2>1. names \in [Upgrade!Names -> Slots \cup {0}]
        BY <1>1, <1>5
    <2>2. files \in [Slots -> [kind : {"none", "yaml", "single", "split", "torn"},
                               rows : SUBSET (Old \cup Later), cols : SUBSET Identity]]
        <3> DEFINE Contents == [kind : {"none", "yaml", "single", "split", "torn"},
                                rows : SUBSET (Old \cup Later), cols : SUBSET Identity]
        <3>1. Upgrade!Unused \in Contents
            BY DEF Upgrade!Unused
        <3>2. kind # "nothing" => Upgrade!Legacy(kind) \in Contents
            <4>1. \A c \in Contents, k \in {"yaml", "single", "split"} :
                     [c EXCEPT !.kind = k, !.rows = Old] \in Contents
                OBVIOUS
            <4>2. QED
                BY <3>1, <4>1 DEF Upgrade!Legacy
        <3> HIDE DEF Contents
        <3>3. files \in [Slots -> Contents]
            BY <1>1, <3>1, <3>2
        <3>4. QED
            BY <3>3 DEF Contents
    <2>3. procs \in [Processes -> Records]
        <3>1. Upgrade!Down \in Records
            BY DEF Upgrade!Down, Upgrade!None, Records, Places
        <3>2. QED
            BY <1>2, <3>1
    <2>4. models \in SUBSET (Old \cup Later)
        BY <1>1
    <2>5. QED
        BY <1>2, <2>1, <2>2, <2>3, <2>4 DEF UpgradeTyped, Records
<1>8. /\ \A n \in Upgrade!Names : names[n] \in {0, 1}
      /\ \A n \in Upgrade!Names : names[n] = 1 =>
            kind # "nothing" /\ n = (IF kind = "yaml" THEN "yaml" ELSE "db")
      /\ Upgrade!Exists("yaml") <=> kind = "yaml"
      /\ Upgrade!Exists("db") <=> kind \in {"single", "split"}
      /\ ~ Upgrade!Exists("yaml.bak") /\ ~ Upgrade!Exists(Backup)
      /\ kind = "yaml" => names["yaml"] = 1
      /\ kind \in {"single", "split"} => names["db"] = 1
    BY <1>1, <1>5 DEF Upgrade!Names, Upgrade!Exists, Upgrade!None, Backup
<1>9. NamesApart
    BY <1>6, <1>8 DEF NamesApart
<1>10. SinglesAre
    BY <1>4, <1>6, <1>8 DEF SinglesAre, Importing, Splitting
<1>11. Holding
    BY <1>4 DEF Holding
<1>12. ModelsKept
    <2>1. CASE kind = "nothing"
        <3>1. Plain
            BY <1>1, <1>4, <1>6, <2>1 DEF Plain, Copying, Splitting
        <3>2. QED
            BY <3>1 DEF ModelsKept
    <2>2. CASE kind = "yaml"
        <3>1. Plain
            BY <1>1, <1>4, <1>6, <1>8, <2>2 DEF Plain, Copying, Splitting, Yamls, Whole
        <3>2. QED
            BY <3>1 DEF ModelsKept
    <2>3. CASE kind = "split"
        <3>1. Plain
            BY <1>1, <1>4, <1>6, <1>8, <2>3 DEF Plain, Copying, Splitting, Importing, Whole
        <3>2. QED
            BY <3>1 DEF ModelsKept
    <2>4. CASE kind = "single"
        <3>1. SplitKept
            BY <1>1, <1>4, <1>6, <1>8, <2>4
               DEF SplitKept, NotYet, Importing, Splitting, Whole
        <3>2. QED
            BY <3>1 DEF ModelsKept
    <2>5. QED
        BY <2>1, <2>2, <2>3, <2>4
<1>13. OneAtATime
    <2>1. Sources
        BY <1>1, <1>5, <1>6, <1>8 DEF Sources, Has
    <2>2. \A p \in Processes : ~ Upgrade!Opening(p) /\ Whence(p)
        BY <1>4 DEF Upgrade!Opening, Whence, Copying, Splitting
    <2>3. QED
        BY <2>1, <2>2 DEF OneAtATime
<1>14. QED
    BY <1>7, <1>9, <1>10, <1>11, <1>12, <1>13 DEF UpgradeInv, FilesKept

LEMMA UpgradeStep ==
    ASSUME UpgradeSetting, UpgradeInv, [Upgrade!Next]_(Upgrade!vars)
    PROVE  UpgradeInv'
<1>1. CASE Upgrade!Next
    <2>0. FilesKept /\ ModelsKept
        BY DEF UpgradeInv
    <2>1. FilesKept' /\ ModelsKept'
        BY <1>1, <2>0, FilesStay, ModelsStay
    <2>2. together => together'
        BY <1>1, ZenonT(60) DEF Upgrade!Next, Upgrade!Boot, Upgrade!YamlTemp, Upgrade!YamlFill,
              Upgrade!YamlSwap, Upgrade!YamlRename, Upgrade!Probe, Upgrade!Copy,
              Upgrade!Copied, Upgrade!Read, Upgrade!SplitTemp, Upgrade!SplitFill,
              Upgrade!SplitSwap, Upgrade!Open, Upgrade!LookForColumn, Upgrade!AddColumn,
              Upgrade!Load, Upgrade!Crash, Upgrade!OlderRelease, Upgrade!Aside,
              Upgrade!Temp, Upgrade!Swap, Upgrade!Fill
    <2>3. together' \/ OneAtATime'
        BY <1>1, <2>2, OneStays DEF UpgradeInv
    <2>4. QED
        BY <2>1, <2>3 DEF UpgradeInv
<1>2. CASE UNCHANGED Upgrade!vars
    <2>1. UNCHANGED <<names, files, procs, models, together, unseen>>
        BY <1>2 DEF Upgrade!vars
    <2>2. FilesKept'
        BY <2>1, ZenonT(60) DEF UpgradeInv, FilesKept, UpgradeTyped, NamesApart, SinglesAre, Holding,
                    Upgrade!Exists, Importing, Splitting
    <2>3. ModelsKept'
        BY <2>1, ZenonT(60) DEF UpgradeInv, ModelsKept, Plain, SplitKept, BackedUp, NotYet, Whole,
                    Upgrade!Exists, Importing, Splitting, Copying
    <2>4. together' \/ OneAtATime'
        BY <2>1, ZenonT(60) DEF UpgradeInv, OneAtATime, Sources, Whence, Has, Upgrade!Opening,
                    Upgrade!Exists, Splitting, Copying
    <2>5. QED
        BY <2>2, <2>3, <2>4 DEF UpgradeInv
<1>3. QED
    BY <1>1, <1>2

LEMMA UpgradeHolds ==
    ASSUME UpgradeInv
    PROVE  Upgrade!UpgradeSound
<1>1. Upgrade!Opened
    <2>1. ASSUME NEW p \in Processes, procs[p].pc = "up", ~ together
          PROVE  names["db"] = procs[p].open /\ (unseen \/ procs[p].rows = models)
        BY <2>1 DEF UpgradeInv, OneAtATime, Whence
    <2>2. QED
        BY <2>1 DEF Upgrade!Opened
<1>2. Upgrade!FailsOnTornBackup
    <2>1. ASSUME NEW p \in Processes, procs[p].raised, ~ together
          PROVE  Upgrade!Exists(Backup) /\ files[names[Backup]].kind = "torn"
        BY <2>1 DEF UpgradeInv, OneAtATime, Whence
    <2>2. QED
        BY <2>1 DEF Upgrade!FailsOnTornBackup, Upgrade!At, Backup
<1>3. Upgrade!Recoverable
    <2>1. {"yaml", "yaml.bak", "db", Backup} \subseteq Upgrade!Names \ {"db.tmp"}
        BY DEF Upgrade!Names, Backup
    <2>2. CASE Plain
        BY <2>1, <2>2 DEF Plain, Whole, Yamls, Upgrade!Recoverable, Upgrade!At
    <2>3. CASE SplitKept
        BY <2>1, <2>3 DEF SplitKept, BackedUp, NotYet, Whole, Upgrade!Recoverable, Upgrade!At
    <2>4. QED
        BY <2>2, <2>3 DEF UpgradeInv, ModelsKept, Upgrade!Recoverable
<1>4. QED
    BY <1>1, <1>2, <1>3 DEF Upgrade!UpgradeSound

LEMMA UpgradesMove ==
    /\ Init /\ focus = "upgrade" => Upgrade!Init
    /\ [Next]_vars /\ focus = "upgrade" => [Upgrade!Next]_(Upgrade!vars)
BY DEF Init, Next, vars, Upgrade!vars

\* Whatever release left a node's registry, wherever opening it was cut short and
\* however the manager's API and its terminal UI interleave, every model is still
\* in a file that is kept; and while one of them opens it at a time, what it comes
\* up with is every model that was registered, and only a backup that a crash tore
\* makes it raise (core/registry.py). Three at once can lose them: the backup is
\* truncated by one while another puts the third's empty file in the database's place.
THEOREM UpgradesAreSound ==
    ASSUME NEW api, NEW tui, Processes \subseteq {api, tui}
    PROVE  /\ Upgrade!Spec => []Upgrade!UpgradeSound
           /\ Spec => []UpgradeSound
<1> DEFINE InFocus == focus = "upgrade" => UpgradeInv
<1>0. UpgradeSetting
    BY ServicesAssumption DEF UpgradeSetting
<1>1. Upgrade!Init => UpgradeInv
    BY <1>0, UpgradeInit
<1>2. UpgradeInv /\ [Upgrade!Next]_(Upgrade!vars) => UpgradeInv'
    BY <1>0, UpgradeStep
<1>3. UpgradeInv => Upgrade!UpgradeSound
    BY UpgradeHolds
<1>4. Init => InFocus
    BY <1>1, UpgradesMove
<1>5. InFocus /\ [Next]_vars => InFocus'
    BY <1>2, UpgradesMove, FocusStays
<1>6. InFocus => UpgradeSound
    BY <1>3 DEF UpgradeSound
<1> HIDE DEF InFocus
<1>7. Upgrade!Spec => []Upgrade!UpgradeSound
    BY <1>1, <1>2, <1>3, PTL DEF Upgrade!Spec
<1>8. Spec => []UpgradeSound
    BY <1>4, <1>5, <1>6, PTL DEF Spec
<1>9. QED
    BY <1>7, <1>8

HIDE DEF names, files, procs, crashes, models, together, unseen

-----------------------------------------------------------------------------
(* Downloads. The row of the model is s1, its files are s2, the list of    *)
(* states the manager keeps is s3 and its states s4, the tasks are s5, s6  *)
(* tells whether a deletion waits and s8 what ran at once. While nothing   *)
(* did, there is one task at most, and what the proof turns on is where it *)
(* is: what it knows of the file it writes, and what the list says of the  *)
(* shards before and behind it.                                            *)

catalogue == s1
content == s2
listed == s3
told == s4
fetch == s5
removing == s6
excused == s8

USE DEF catalogue, content, listed, told, fetch, removing, excused

Statuses == Files!Active \cup {"paused", "cancelled", "failed", "done"}

States == [status : Statuses, cancel : BOOLEAN, pause : BOOLEAN]

Fetches == [pc : {"idle", "next", "begin", "request", "stream", "returned"},
            gen : 0 .. Generations, shard : 0 .. Shards, first : BOOLEAN, resume : BOOLEAN,
            cancel : BOOLEAN, pause : BOOLEAN, from : Nat, at : Nat, append : BOOLEAN,
            open : BOOLEAN, linked : BOOLEAN, failed : BOOLEAN]

FilesTyped ==
    /\ catalogue \in {"absent", "known", "downloaded", "archived"}
    /\ content \in [Files!Files -> Seq(Int)]
    /\ listed \in 0 .. Generations
    /\ told \in [1 .. Generations -> [Files!Files -> States]]
    /\ fetch \in [Tasks -> Fetches]

FilesSetting == Shards \in Nat /\ Chunks \in Nat /\ Generations \in Nat \ {0}

\* A file whose first n chunks are there, in their places.
First(n) == [i \in 1 .. n |-> i]

Part(s) == \E n \in 0 .. Chunks - 1 : content[s] = First(n)

\* What the list says of a shard.
Says(s) == told[listed][s].status

Working(t) == fetch[t].pc # "idle"

\* There is one task, on a row that is known and with the list that is the
\* model's; a row that is not known has none, and none will look at its files.
OneTask ==
    /\ \A t, u \in Tasks : Working(t) /\ Working(u) => t = u
    /\ \A t \in Tasks : Working(t) =>
          catalogue = "known" /\ listed # 0 /\ fetch[t].gen = listed
    /\ removing => catalogue = "downloaded"

\* Nothing was asked for yet, or nothing is any more.
Untouched ==
    /\ catalogue = "absent" =>
          /\ listed = 0
          /\ content = [s \in Files!Files |-> Files!Gone]
          /\ told[1] = [s \in Files!Files |-> Files!Queued]
    /\ catalogue = "archived" => listed = 0

AllDone ==
    catalogue = "downloaded" => \A s \in Files!Files :
        /\ content[s] = Files!Whole
        /\ listed # 0 => Says(s) = "done"

\* What the list says of the files is so, whether a task runs or not.
ToldTrue ==
    listed # 0 => \A s \in Files!Files :
        /\ Says(s) = "done" => content[s] = Files!Whole
        /\ Says(s) = "paused" => Part(s)

Settled ==
    listed # 0 /\ (\A t \in Tasks : ~ Working(t)) => \A s \in Files!Files :
        /\ Says(s) \notin {"downloading", "verifying"}
        /\ Says(s) = "queued" => \E r \in 1 .. s : Says(r) = "paused"

\* The task is through with the shards before its own, and has not begun with
\* those after it.
Walked ==
    \A t \in Tasks : Working(t) => \A s \in Files!Files :
        /\ s < fetch[t].shard \/ (s = fetch[t].shard /\ fetch[t].pc = "next") =>
              Says(s) \notin Files!Active
        /\ s > fetch[t].shard => Says(s) \notin {"downloading", "verifying"}

\* What a task knows of its shard's file.
Fetched(t) ==
    /\ fetch[t].pc \notin {"idle", "next"} => fetch[t].shard \in Files!Files
    /\ fetch[t].pc \in {"begin", "request"} => fetch[t].at = 0
    /\ fetch[t].pc = "begin" /\ fetch[t].resume => Part(fetch[t].shard)
    /\ fetch[t].pc \in {"request", "stream"} => Says(fetch[t].shard) = "downloading"
    /\ fetch[t].pc = "request" /\ fetch[t].from # 0 =>
          content[fetch[t].shard] = First(fetch[t].from)
    /\ fetch[t].pc = "stream" =>
          /\ content[fetch[t].shard] = First(fetch[t].from + fetch[t].at)
          /\ fetch[t].from + fetch[t].at <= Chunks
          /\ fetch[t].linked
          /\ ~ fetch[t].append => fetch[t].from = 0
    /\ fetch[t].pc = "returned" /\ ~ fetch[t].failed =>
          Says(fetch[t].shard) \in {"paused", "cancelled", "done"}

FilesFit ==
    /\ FilesTyped /\ OneTask /\ Untouched /\ AllDone /\ ToldTrue /\ Settled /\ Walked
    /\ \A t \in Tasks : Fetched(t)

FilesInv == excused = {} => FilesFit

LEMMA Flagged ==
    ASSUME NEW d \in States, NEW f \in {"cancel", "pause"}
    PROVE  /\ [d EXCEPT ![f] = TRUE] \in States
           /\ [d EXCEPT ![f] = TRUE].status = d.status
BY DEF States

LEMMA Restated ==
    ASSUME NEW d \in States, NEW v \in Statuses
    PROVE  /\ [d EXCEPT !.status = v] \in States
           /\ [d EXCEPT !.status = v].status = v
BY DEF States

LEMMA Unpaused ==
    ASSUME NEW d \in States
    PROVE  /\ [d EXCEPT !.pause = FALSE] \in States
           /\ [d EXCEPT !.pause = FALSE].status = d.status
BY DEF States

LEMMA Idles ==
    Shards \in Nat /\ Generations \in Nat =>
        /\ Files!Idle \in Fetches
        /\ Files!Idle.pc = "idle" /\ Files!Idle.shard = 0 /\ Files!Idle.at = 0
BY DEF Fetches, Files!Idle

LEMMA Asked ==
    ASSUME NEW k \in Fetches, NEW n \in Nat
    PROVE  LET j == [k EXCEPT !.pc = "request", !.from = n]
           IN  /\ j \in Fetches /\ j.pc = "request" /\ j.gen = k.gen /\ j.shard = k.shard
               /\ j.from = n /\ j.at = k.at
BY DEF Fetches

LEMMA Counted ==
    ASSUME NEW k \in Fetches
    PROVE  LET j == [k EXCEPT !.at = @ + 1]
           IN  /\ j \in Fetches /\ j.pc = k.pc /\ j.gen = k.gen /\ j.shard = k.shard
               /\ j.from = k.from /\ j.at = k.at + 1 /\ j.append = k.append /\ j.linked = k.linked
BY DEF Fetches

LEMMA Unlinked ==
    ASSUME NEW k \in Fetches
    PROVE  /\ [k EXCEPT !.linked = FALSE] \in Fetches
           /\ [k EXCEPT !.linked = FALSE].pc = k.pc
BY DEF Fetches

LEMMA Onward ==
    ASSUME NEW k \in Fetches
    PROVE  /\ [k EXCEPT !.pc = "next"] \in Fetches
           /\ [k EXCEPT !.pc = "next"].pc = "next"
           /\ [k EXCEPT !.pc = "next"].gen = k.gen
           /\ [k EXCEPT !.pc = "next"].shard = k.shard
BY DEF Fetches

-----------------------------------------------------------------------------
LEMMA FirstIs ==
    ASSUME NEW n \in Nat
    PROVE  /\ First(n) \in Seq(Int) /\ Len(First(n)) = n /\ DOMAIN First(n) = 1 .. n
           /\ \A i \in 1 .. n : First(n)[i] = i
           /\ First(n) # Files!Gone
<1>1. First(n) \in Seq(Int) /\ Len(First(n)) = n /\ DOMAIN First(n) = 1 .. n
    BY DEF First
<1>2. \A i \in 1 .. n : First(n)[i] = i
    BY DEF First
<1>3. First(n) # Files!Gone
    <2>1. Len(Files!Gone) = 1 /\ Files!Gone[1] = -1
        BY DEF Files!Gone
    <2>2. QED
        BY <1>1, <1>2, <2>1
<1>4. QED
    BY <1>1, <1>2, <1>3

LEMMA FirstWhole == Files!Whole = First(Chunks) /\ First(0) = << >>
BY DEF Files!Whole, First

LEMMA FirstAppends ==
    ASSUME NEW n \in Nat
    PROVE  Append(First(n), n + 1) = First(n + 1)
<1> DEFINE a == Append(First(n), n + 1)
           b == First(n + 1)
<1>1. /\ First(n) \in Seq(Int) /\ Len(First(n)) = n
      /\ \A i \in 1 .. n : First(n)[i] = i
    BY FirstIs
<1>2. /\ b \in Seq(Int) /\ Len(b) = n + 1
      /\ \A i \in 1 .. n + 1 : b[i] = i
    BY FirstIs
<1>3. a \in Seq(Int) /\ Len(a) = n + 1 /\ \A i \in 1 .. n + 1 : a[i] = i
    BY <1>1, AppendProperties
<1> HIDE DEF a, b
<1>4. a = b
    BY <1>2, <1>3, SeqEqual
<1>5. QED
    BY <1>4 DEF a, b

LEMMA FirstPuts ==
    ASSUME NEW n \in Nat
    PROVE  Files!Put(First(n), n + 1, n + 1) = First(n + 1)
<1>1. Len(First(n)) = n /\ \A i \in 1 .. n : First(n)[i] = i
    BY FirstIs
<1>2. Files!Put(First(n), n + 1, n + 1) =
        [j \in 1 .. n + 1 |-> IF j = n + 1 THEN n + 1
                              ELSE IF j <= Len(First(n)) THEN First(n)[j] ELSE 0]
    BY <1>1 DEF Files!Put
<1>3. \A j \in 1 .. n + 1 : (IF j = n + 1 THEN n + 1
                              ELSE IF j <= Len(First(n)) THEN First(n)[j] ELSE 0) = j
    BY <1>1
<1>4. QED
    BY <1>2, <1>3 DEF First

-----------------------------------------------------------------------------
LEMMA AtWork ==
    ASSUME FilesSetting, FilesFit, NEW t \in Tasks, Working(t)
    PROVE  /\ catalogue = "known" /\ ~ removing
           /\ listed \in 1 .. Generations /\ fetch[t].gen = listed
           /\ fetch[t] \in Fetches /\ fetch[t].shard \in 0 .. Shards
           /\ told[listed] \in [Files!Files -> States]
           /\ \A s \in Files!Files : told[listed][s] \in States /\ Says(s) \in Statuses
           /\ \A r \in Tasks \ {t} : fetch[r].pc = "idle"
           /\ fetch[t].pc # "next" => fetch[t].shard \in Files!Files
<1>1. fetch[t] \in Fetches /\ fetch[t].shard \in 0 .. Shards
    BY DEF FilesFit, FilesTyped, Fetches
<1>2. catalogue = "known" /\ ~ removing /\ listed \in 1 .. Generations /\ fetch[t].gen = listed
    BY DEF FilesFit, FilesTyped, OneTask, FilesSetting
<1>3. told[listed] \in [Files!Files -> States]
    BY <1>2 DEF FilesFit, FilesTyped
<1>4. \A s \in Files!Files : told[listed][s] \in States /\ Says(s) \in Statuses
    BY <1>3 DEF States, Says
<1>5. \A r \in Tasks \ {t} : fetch[r].pc = "idle"
    BY DEF FilesFit, OneTask, Working
<1>6. fetch[t].pc # "next" => fetch[t].shard \in Files!Files
    BY DEF FilesFit, Fetched, Working
<1>7. QED
    BY <1>1, <1>2, <1>3, <1>4, <1>5, <1>6

\* A step of the task on its shard: what it leaves of the others.
LEMMA OnShard ==
    ASSUME FilesSetting, FilesFit, NEW t \in Tasks,
           fetch[t].pc \in {"begin", "request", "stream"},
           catalogue' = catalogue, listed' = listed, removing' = removing, FilesTyped',
           \A r \in Tasks \ {t} : fetch'[r].pc = "idle",
           fetch'[t].pc \in {"request", "stream", "returned"},
           fetch'[t].gen = fetch[t].gen, fetch'[t].shard = fetch[t].shard,
           \A s \in Files!Files \ {fetch[t].shard} :
               /\ content'[s] = content[s]
               /\ told'[listed][s].status = told[listed][s].status,
           told'[listed][fetch[t].shard].status = "done" =>
               content'[fetch[t].shard] = Files!Whole,
           told'[listed][fetch[t].shard].status = "paused" =>
               \E n \in 0 .. Chunks - 1 : content'[fetch[t].shard] = First(n),
           Fetched(t)'
    PROVE  FilesFit'
<1> DEFINE s0 == fetch[t].shard
<1>1. Working(t)
    BY DEF Working
<1>2. /\ catalogue = "known" /\ ~ removing
      /\ listed \in 1 .. Generations /\ fetch[t].gen = listed
      /\ s0 \in Files!Files
    BY <1>1, AtWork
<1>3. OneTask' /\ Untouched' /\ AllDone'
    BY <1>2 DEF OneTask, Untouched, AllDone, Working
<1>4. ToldTrue'
    <2> SUFFICES ASSUME NEW s \in Files!Files
                 PROVE  /\ Says(s)' = "done" => content'[s] = Files!Whole
                        /\ Says(s)' = "paused" => Part(s)'
        BY <1>2 DEF ToldTrue
    <2>1. CASE s = s0
        BY <2>1 DEF Says, Part
    <2>2. CASE s # s0
        BY <1>2, <2>2 DEF FilesFit, ToldTrue, Says, Part
    <2>3. QED
        BY <2>1, <2>2
<1>5. Settled'
    BY DEF Settled, Working
<1>6. Walked'
    <2> SUFFICES ASSUME NEW r \in Tasks, Working(r)', NEW s \in Files!Files
                 PROVE  /\ s < fetch'[r].shard \/ (s = fetch'[r].shard /\ fetch'[r].pc = "next")
                              => Says(s)' \notin Files!Active
                        /\ s > fetch'[r].shard => Says(s)' \notin {"downloading", "verifying"}
        BY DEF Walked, Files!Active
    <2>1. r = t
        BY DEF Working
    <2>2. s # s0 => Says(s)' = Says(s)
        BY DEF Says
    <2>3. s0 \in Int /\ s \in Int
        BY <1>2 DEF Files!Files
    <2>4. QED
        BY <1>1, <2>1, <2>2, <2>3 DEF FilesFit, Walked
<1>7. \A r \in Tasks : Fetched(r)'
    <2> SUFFICES ASSUME NEW r \in Tasks, r # t PROVE Fetched(r)'
        OBVIOUS
    <2>1. fetch'[r].pc = "idle"
        OBVIOUS
    <2>2. QED
        BY <2>1 DEF Fetched
<1>8. QED
    BY <1>3, <1>4, <1>5, <1>6, <1>7 DEF FilesFit

LEMMA Reported ==
    ASSUME FilesSetting, FilesTyped, listed \in 1 .. Generations, NEW s \in Files!Files,
           NEW v \in Statuses, told' = [told EXCEPT ![listed][s].status = v]
    PROVE  /\ told' \in [1 .. Generations -> [Files!Files -> States]]
           /\ told'[listed][s].status = v
           /\ \A r \in Files!Files \ {s} : told'[listed][r].status = told[listed][r].status
<1>1. told[listed] \in [Files!Files -> States] /\ told[listed][s] \in States
    BY DEF FilesTyped
<1>2. told'[listed] = [told[listed] EXCEPT ![s] = [told[listed][s] EXCEPT !.status = v]]
    BY <1>1 DEF FilesTyped
<1>3. /\ [told[listed][s] EXCEPT !.status = v] \in States
      /\ [told[listed][s] EXCEPT !.status = v].status = v
    BY <1>1, Restated
<1>4. told'[listed] \in [Files!Files -> States]
    BY <1>1, <1>2, <1>3
<1>5. told' = [told EXCEPT ![listed] = told'[listed]]
    BY <1>1, <1>2 DEF FilesTyped
<1>6. told' \in [1 .. Generations -> [Files!Files -> States]]
    BY <1>4, <1>5 DEF FilesTyped
<1>7. QED
    BY <1>1, <1>2, <1>3, <1>6

LEMMA Fetching ==
    ASSUME FilesTyped, NEW t \in Tasks, NEW k \in Fetches, fetch' = [fetch EXCEPT ![t] = k]
    PROVE  /\ fetch' \in [Tasks -> Fetches] /\ fetch'[t] = k
           /\ \A r \in Tasks \ {t} : fetch'[r] = fetch[r]
BY DEF FilesTyped

-----------------------------------------------------------------------------
LEMMA FlagsRead ==
    ASSUME FilesSetting, FilesFit, NEW t \in Tasks, Working(t), fetch[t].shard \in Files!Files
    PROVE  LET j == Files!Flags(t)
           IN  /\ j \in Fetches /\ j.pc = fetch[t].pc /\ j.gen = fetch[t].gen
               /\ j.shard = fetch[t].shard /\ j.from = fetch[t].from /\ j.at = fetch[t].at
               /\ j.append = fetch[t].append /\ j.linked = fetch[t].linked
<1>1. /\ listed \in 1 .. Generations /\ fetch[t].gen = listed /\ fetch[t] \in Fetches
      /\ told[listed][fetch[t].shard] \in States
    BY AtWork
<1> DEFINE k == fetch[t]
           d == told[fetch[t].gen][fetch[t].shard]
<1>2. k \in Fetches /\ d.cancel \in BOOLEAN /\ d.pause \in BOOLEAN
    BY <1>1 DEF States
<1> HIDE DEF k, d
<1>3. LET j == [k EXCEPT !.cancel = @ \/ d.cancel, !.pause = @ \/ d.pause]
      IN  /\ j \in Fetches /\ j.pc = k.pc /\ j.gen = k.gen /\ j.shard = k.shard
          /\ j.from = k.from /\ j.at = k.at /\ j.append = k.append /\ j.linked = k.linked
    BY <1>2 DEF Fetches
<1>4. QED
    BY <1>3 DEF k, d, Files!Flags

LEMMA Begins ==
    ASSUME FilesSetting, FilesFit, NEW t \in Tasks, Files!Begins(t)
    PROVE  FilesFit'
<1>0. PICK s : s = fetch[t].shard
    OBVIOUS
<1> DEFINE n == IF fetch[t].resume /\ content[s] # Files!Gone THEN Len(content[s]) ELSE 0
           j == Files!Flags(t)
           k == [j EXCEPT !.pc = "request", !.from = n]
<1>1. Working(t) /\ fetch[t].pc = "begin"
    BY DEF Files!Begins, Working
<1>2. /\ catalogue = "known" /\ listed \in 1 .. Generations /\ fetch[t].gen = listed
      /\ s \in Files!Files /\ \A r \in Tasks \ {t} : fetch[r].pc = "idle"
    BY <1>0, <1>1, AtWork
<1>3. /\ j \in Fetches /\ j.gen = fetch[t].gen /\ j.shard = s /\ j.at = fetch[t].at
    BY <1>0, <1>1, <1>2, FlagsRead
<1>4. n \in Nat /\ (n # 0 => content[s] = First(n))
    <2>1. ASSUME fetch[t].resume
          PROVE  \E m \in 0 .. Chunks - 1 : content[s] = First(m)
        BY <1>0, <1>1, <2>1 DEF FilesFit, Fetched, Part
    <2>2. \A m \in 0 .. Chunks - 1 : Len(First(m)) = m
        BY FirstIs DEF FilesSetting
    <2>3. QED
        BY <2>1, <2>2
<1> HIDE DEF n, j
<1>5. /\ k \in Fetches /\ k.pc = "request" /\ k.gen = j.gen /\ k.shard = j.shard
      /\ k.from = n /\ k.at = j.at
    BY <1>3, <1>4, Asked
<1>6. fetch' = [fetch EXCEPT ![t] = k]
    BY <1>0 DEF Files!Begins, n, j
<1> HIDE DEF k
<1>7. /\ fetch' \in [Tasks -> Fetches] /\ fetch'[t] = k
      /\ \A r \in Tasks \ {t} : fetch'[r] = fetch[r]
    BY <1>5, <1>6, Fetching DEF FilesFit
<1>8. told' = [told EXCEPT ![listed][s].status = "downloading"]
    BY <1>0, <1>2 DEF Files!Begins, Files!Reports
<1>9. /\ told' \in [1 .. Generations -> [Files!Files -> States]]
      /\ told'[listed][s].status = "downloading"
      /\ \A r \in Files!Files \ {s} : told'[listed][r].status = told[listed][r].status
    BY <1>2, <1>8, Reported DEF FilesFit, Statuses, Files!Active
<1>10. UNCHANGED <<catalogue, content, listed, removing>>
    BY DEF Files!Begins
<1>11. FilesTyped'
    BY <1>7, <1>9, <1>10 DEF FilesFit, FilesTyped
<1>12. Fetched(t)'
    <2>1. k.at = 0
        BY <1>1, <1>3, <1>5 DEF FilesFit, Fetched
    <2>2. Says(s)' = "downloading"
        BY <1>9, <1>10 DEF Says
    <2>3. QED
        BY <1>0, <1>2, <1>3, <1>4, <1>5, <1>7, <1>10, <2>1, <2>2 DEF Fetched
<1>13. QED
    BY <1>0, <1>1, <1>2, <1>3, <1>5, <1>7, <1>9, <1>10, <1>11, <1>12, OnShard

LEMMA OpensFile ==
    ASSUME FilesSetting, FilesFit, NEW t \in Tasks, Files!Opens(t)
    PROVE  FilesFit'
<1>0. PICK s : s = fetch[t].shard
    OBVIOUS
<1>1. Working(t) /\ fetch[t].pc = "request" /\ fetch[t].from < Chunks
    BY DEF Files!Opens, Working
<1>2. /\ catalogue = "known" /\ listed \in 1 .. Generations /\ fetch[t].gen = listed
      /\ s \in Files!Files /\ \A r \in Tasks \ {t} : fetch[r].pc = "idle"
      /\ fetch[t] \in Fetches
    BY <1>0, <1>1, AtWork
<1>3. /\ fetch[t].at = 0 /\ told[listed][s].status = "downloading"
      /\ fetch[t].from # 0 => content[s] = First(fetch[t].from)
    BY <1>0, <1>1 DEF FilesFit, Fetched, Says
<1>4. fetch[t].from \in Nat
    BY <1>2 DEF Fetches
<1> DEFINE k0 == fetch[t]
           P(resumed) ==
              /\ content' = [content EXCEPT ![s] =
                               IF resumed /\ @ # Files!Gone THEN @ ELSE << >>]
              /\ fetch' = [fetch EXCEPT ![t] =
                             [@ EXCEPT !.pc = "stream", !.open = TRUE, !.linked = TRUE,
                                       !.append = resumed,
                                       !.from = IF resumed THEN fetch[t].from ELSE 0]]
<1>5. P(FALSE) \/ (fetch[t].from > 0 /\ P(TRUE))
    <2>1. \E resumed \in {FALSE, fetch[t].from > 0} : P(resumed)
        BY <1>0 DEF Files!Opens
    <2> HIDE DEF P
    <2>2. CASE fetch[t].from > 0
        <3>1. {FALSE, fetch[t].from > 0} = {FALSE, TRUE}
            BY <2>2
        <3>2. QED
            BY <2>1, <2>2, <3>1
    <2>3. CASE ~ (fetch[t].from > 0)
        <3>0. (fetch[t].from > 0) = FALSE
            BY <2>3
        <3>1. {FALSE, fetch[t].from > 0} = {FALSE}
            BY <3>0, Zenon
        <3>2. QED
            BY <2>1, <3>1
    <2>4. QED
        BY <2>2, <2>3
<1>6. content \in [Files!Files -> Seq(Int)]
    BY DEF FilesFit, FilesTyped
<1> DEFINE k(b) == [k0 EXCEPT !.pc = "stream", !.open = TRUE, !.linked = TRUE,
                              !.append = b, !.from = IF b THEN fetch[t].from ELSE 0]
           Reaches(n, j) ==
              /\ j \in Fetches /\ j.pc = "stream" /\ j.gen = fetch[t].gen /\ j.shard = s
              /\ j.from = n /\ j.at = 0 /\ j.linked /\ (~ j.append => n = 0)
           Z(n, j) ==
              /\ n \in Nat /\ n <= Chunks
              /\ content' = [content EXCEPT ![s] = First(n)]
              /\ fetch' = [fetch EXCEPT ![t] = j]
              /\ Reaches(n, j)
<1>7. PICK n, j : Z(n, j)
    <2>1. CASE P(FALSE)
        <3>1. content' = [content EXCEPT ![s] = << >>] /\ First(0) = << >>
            BY <2>1, FirstWhole
        <3>2. fetch' = [fetch EXCEPT ![t] = k(FALSE)]
            BY <2>1
        <3>3. Reaches(0, k(FALSE))
            BY <1>0, <1>2, <1>3 DEF Fetches
        <3> HIDE DEF k, Reaches
        <3>4. Z(0, k(FALSE))
            <4>1. content' = [content EXCEPT ![s] = First(0)]
                BY <3>1
            <4>2. 0 \in Nat /\ 0 <= Chunks
                BY DEF FilesSetting
            <4>3. QED
                BY <3>2, <3>3, <4>1, <4>2
        <3>5. QED
            BY <3>4
    <2>2. CASE fetch[t].from > 0 /\ P(TRUE)
        <3>1. content[s] = First(fetch[t].from) /\ First(fetch[t].from) # Files!Gone
            BY <1>3, <1>4, <2>2, FirstIs
        <3>2. content' = [content EXCEPT ![s] = First(fetch[t].from)]
            BY <2>2, <3>1
        <3>3. fetch' = [fetch EXCEPT ![t] = k(TRUE)]
            BY <2>2
        <3>4. Reaches(fetch[t].from, k(TRUE))
            BY <1>0, <1>2, <1>3 DEF Fetches
        <3> HIDE DEF k, Reaches
        <3>5. fetch[t].from <= Chunks
            BY <1>1, <1>4 DEF FilesSetting
        <3>6. Z(fetch[t].from, k(TRUE))
            BY <1>4, <3>2, <3>3, <3>4, <3>5
        <3>7. QED
            BY <3>6
    <2>3. QED
        BY <1>5, <2>1, <2>2
<1>8. /\ content'[s] = First(n) /\ content' \in [Files!Files -> Seq(Int)]
      /\ \A r \in Files!Files \ {s} : content'[r] = content[r]
    <2>1. First(n) \in Seq(Int)
        BY <1>7, FirstIs
    <2>2. QED
        BY <1>2, <1>6, <1>7, <2>1
<1> DEFINE Effect ==
      /\ fetch' \in [Tasks -> Fetches]
      /\ \A r \in Tasks \ {t} : fetch'[r] = fetch[r]
      /\ fetch'[t].pc = "stream" /\ fetch'[t].gen = fetch[t].gen /\ fetch'[t].shard = s
      /\ fetch'[t].from = n /\ fetch'[t].at = 0 /\ fetch'[t].linked
      /\ ~ fetch'[t].append => n = 0
<1>9. Effect
    <2>1. /\ fetch' \in [Tasks -> Fetches] /\ fetch'[t] = j
          /\ \A r \in Tasks \ {t} : fetch'[r] = fetch[r]
        BY <1>7, Fetching DEF FilesFit
    <2>2. QED
        BY <1>7, <2>1
<1>10. UNCHANGED <<catalogue, listed, told, removing>>
    BY DEF Files!Opens
<1>11. FilesTyped'
    BY <1>8, <1>9, <1>10 DEF FilesFit, FilesTyped
<1>12. Fetched(t)'
    <2>1. Says(s)' = "downloading"
        BY <1>3, <1>10 DEF Says
    <2>2. n + 0 = n
        BY <1>7
    <2>3. QED
        BY <1>2, <1>7, <1>8, <1>9, <1>10, <2>1, <2>2 DEF Fetched
<1>13. QED
    BY <1>0, <1>1, <1>2, <1>3, <1>8, <1>9, <1>10, <1>11, <1>12, OnShard

\* A return that leaves the file as it is.
LEMMA ReturnsWith ==
    ASSUME FilesSetting, FilesFit, NEW t \in Tasks, fetch[t].pc \in {"request", "stream"},
           NEW b, b \in BOOLEAN, NEW v \in Statuses,
           fetch' = Files!Returns(t, b), Files!Reports(t, v),
           UNCHANGED <<catalogue, content, listed, removing>>,
           ~ b => v \in {"paused", "cancelled", "done"},
           v = "done" => content[fetch[t].shard] = Files!Whole,
           v = "paused" => \E n \in 0 .. Chunks - 1 : content[fetch[t].shard] = First(n)
    PROVE  FilesFit'
<1>0. PICK s : s = fetch[t].shard
    OBVIOUS
<1>1. Working(t)
    BY DEF Working
<1>2. /\ catalogue = "known" /\ listed \in 1 .. Generations /\ fetch[t].gen = listed
      /\ s \in Files!Files /\ \A r \in Tasks \ {t} : fetch[r].pc = "idle"
      /\ fetch[t] \in Fetches
    BY <1>0, <1>1, AtWork
<1> DEFINE k0 == fetch[t]
           k == [k0 EXCEPT !.pc = "returned", !.failed = b, !.open = FALSE]
<1>3. fetch' = [fetch EXCEPT ![t] = k]
    BY DEF Files!Returns
<1>4. /\ k \in Fetches /\ k.pc = "returned" /\ k.gen = k0.gen /\ k.shard = k0.shard
      /\ k.failed = b
    <2>1. k0 \in Fetches
        BY <1>2
    <2> HIDE DEF k0
    <2>2. QED
        BY <2>1 DEF Fetches
<1> HIDE DEF k
<1>5. /\ fetch' \in [Tasks -> Fetches] /\ fetch'[t] = k
      /\ \A r \in Tasks \ {t} : fetch'[r] = fetch[r]
    BY <1>3, <1>4, Fetching DEF FilesFit
<1>6. told' = [told EXCEPT ![listed][s].status = v]
    BY <1>0, <1>2 DEF Files!Reports
<1>7. /\ told' \in [1 .. Generations -> [Files!Files -> States]]
      /\ told'[listed][s].status = v
      /\ \A r \in Files!Files \ {s} : told'[listed][r].status = told[listed][r].status
    BY <1>2, <1>6, Reported DEF FilesFit
<1>8. FilesTyped'
    BY <1>5, <1>7 DEF FilesFit, FilesTyped
<1>9. Fetched(t)'
    <2>1. Says(s)' = v
        BY <1>7 DEF Says
    <2>2. fetch'[t].shard = s /\ fetch'[t].pc = "returned" /\ (fetch'[t].failed <=> b)
        BY <1>0, <1>4, <1>5
    <2>3. QED
        BY <1>2, <2>1, <2>2 DEF Fetched
<1>10. QED
    BY <1>0, <1>1, <1>2, <1>4, <1>5, <1>7, <1>8, <1>9, OnShard

LEMMA Unanswered ==
    ASSUME FilesSetting, FilesFit, NEW t \in Tasks, Files!Unanswered(t)
    PROVE  FilesFit'
<1>1. /\ fetch[t].pc \in {"request", "stream"}
      /\ fetch' = Files!Returns(t, TRUE) /\ Files!Reports(t, "failed")
      /\ UNCHANGED <<catalogue, content, listed, removing>>
    BY DEF Files!Unanswered
<1>2. "failed" \in Statuses
    BY DEF Statuses
<1>3. QED
    BY <1>1, <1>2, ReturnsWith

LEMMA Pauses ==
    ASSUME FilesSetting, FilesFit, NEW t \in Tasks, Files!Paused(t)
    PROVE  FilesFit'
<1>1. /\ fetch[t].pc = "stream" /\ fetch[t].from + fetch[t].at < Chunks
      /\ fetch' = Files!Returns(t, FALSE) /\ Files!Reports(t, "paused")
      /\ UNCHANGED <<catalogue, content, listed, removing>>
    BY DEF Files!Paused, Files!Streaming
<1>2. "paused" \in Statuses
    BY DEF Statuses
<1>3. fetch[t].from \in Nat /\ fetch[t].at \in Nat
    BY DEF FilesFit, FilesTyped, Fetches
<1>4. content[fetch[t].shard] = First(fetch[t].from + fetch[t].at)
    BY <1>1 DEF FilesFit, Fetched
<1>5. \E n \in 0 .. Chunks - 1 : content[fetch[t].shard] = First(n)
    BY <1>1, <1>3, <1>4 DEF FilesSetting
<1>6. QED
    BY <1>1, <1>2, <1>5, ReturnsWith

\* A return that unlinks the file.
LEMMA RemovesWith ==
    ASSUME FilesSetting, FilesFit, NEW t \in Tasks, fetch[t].pc = "stream",
           NEW b, b \in BOOLEAN, NEW v \in {"cancelled", "failed"}, Files!Removes(t, v, b),
           b \/ v = "cancelled"
    PROVE  FilesFit'
<1>0. PICK s : s = fetch[t].shard
    OBVIOUS
<1>1. Working(t) /\ v \in Statuses
    BY DEF Working, Statuses
<1>2. /\ catalogue = "known" /\ listed \in 1 .. Generations /\ fetch[t].gen = listed
      /\ s \in Files!Files /\ \A r \in Tasks \ {t} : fetch[r].pc = "idle"
      /\ fetch[t] \in Fetches
    BY <1>0, <1>1, AtWork
<1> DEFINE k0 == fetch[t]
           k == [k0 EXCEPT !.pc = "returned", !.failed = b, !.open = FALSE]
<1>3. /\ k \in Fetches /\ k.pc = "returned" /\ k.gen = k0.gen /\ k.shard = k0.shard
      /\ k.failed = b
    <2>1. k0 \in Fetches
        BY <1>2
    <2> HIDE DEF k0
    <2>2. QED
        BY <2>1 DEF Fetches
<1>4. fetch'[t] = k
    <2>1. Files!Returns(t, b)[t] = k
        BY DEF Files!Returns, FilesFit, FilesTyped
    <2> HIDE DEF k
    <2>2. QED
        BY <2>1 DEF Files!Removes
<1>5. /\ fetch' \in [Tasks -> Fetches]
      /\ \A r \in Tasks \ {t} : fetch'[r].pc = "idle"
    <2> DEFINE u(r) == [fetch[r] EXCEPT !.linked = FALSE]
               o(r) == IF fetch[r].shard \in {s} THEN u(r) ELSE fetch[r]
    <2>1. \A r \in Tasks : fetch[r] \in Fetches /\ u(r) \in Fetches /\ u(r).pc = fetch[r].pc
        BY Unlinked DEF FilesFit, FilesTyped
    <2>2. \A r \in Tasks : Files!Unlink({s})[r] = o(r)
        BY DEF Files!Unlink
    <2> HIDE DEF u
    <2>3. \A r \in Tasks \ {t} : fetch'[r] = o(r)
        <3>1. \A r \in Tasks \ {t} : fetch'[r] = Files!Unlink({s})[r]
            BY <1>0 DEF Files!Removes
        <3>2. QED
            BY <2>2, <3>1
    <2>4. \A r \in Tasks : fetch'[r] \in Fetches
        BY <1>3, <1>4, <2>1, <2>3
    <2>5. DOMAIN fetch' = Tasks /\ fetch' = [r \in Tasks |-> fetch'[r]]
        BY DEF Files!Removes
    <2>6. fetch' \in [Tasks -> Fetches]
        BY <2>4, <2>5
    <2>7. QED
        BY <1>2, <2>1, <2>3, <2>6
<1>6. told' = [told EXCEPT ![listed][s].status = v]
    BY <1>0, <1>2 DEF Files!Removes, Files!Reports
<1>7. /\ told' \in [1 .. Generations -> [Files!Files -> States]]
      /\ told'[listed][s].status = v
      /\ \A r \in Files!Files \ {s} : told'[listed][r].status = told[listed][r].status
    BY <1>1, <1>2, <1>6, Reported DEF FilesFit
<1>8. /\ UNCHANGED <<catalogue, listed, removing>>
      /\ content' \in [Files!Files -> Seq(Int)]
      /\ \A r \in Files!Files \ {s} : content'[r] = content[r]
    <2>1. content' = [content EXCEPT ![s] = Files!Gone]
        BY <1>0 DEF Files!Removes
    <2>2. Files!Gone \in Seq(Int)
        BY DEF Files!Gone
    <2>3. QED
        BY <2>1, <2>2 DEF Files!Removes, FilesFit, FilesTyped
<1> HIDE DEF k
<1>9. FilesTyped'
    BY <1>5, <1>7, <1>8 DEF FilesFit, FilesTyped
<1>10. Fetched(t)'
    <2>1. Says(s)' = v
        BY <1>7, <1>8 DEF Says
    <2>2. fetch'[t].shard = s /\ fetch'[t].pc = "returned" /\ (fetch'[t].failed <=> b)
        BY <1>0, <1>3, <1>4
    <2>3. QED
        BY <1>2, <2>1, <2>2 DEF Fetched
<1>11. QED
    BY <1>0, <1>1, <1>2, <1>3, <1>4, <1>5, <1>7, <1>8, <1>9, <1>10, OnShard

LEMMA Cancels ==
    ASSUME FilesSetting, FilesFit, NEW t \in Tasks, Files!Cancelled(t)
    PROVE  FilesFit'
BY RemovesWith DEF Files!Cancelled, Files!Streaming

LEMMA Breaks ==
    ASSUME FilesSetting, FilesFit, NEW t \in Tasks, Files!Breaks(t)
    PROVE  FilesFit'
BY RemovesWith DEF Files!Breaks, Files!Streaming

LEMMA Writes ==
    ASSUME FilesSetting, FilesFit, NEW t \in Tasks, Files!Writes(t)
    PROVE  FilesFit'
<1>0. PICK s : s = fetch[t].shard
    OBVIOUS
<1>1. Working(t) /\ fetch[t].pc = "stream" /\ fetch[t].from + fetch[t].at < Chunks
    BY DEF Files!Writes, Files!Streaming, Working
<1>2. /\ catalogue = "known" /\ listed \in 1 .. Generations /\ fetch[t].gen = listed
      /\ s \in Files!Files /\ \A r \in Tasks \ {t} : fetch[r].pc = "idle"
      /\ fetch[t] \in Fetches
    BY <1>0, <1>1, AtWork
<1>3. fetch[t].from \in Nat /\ fetch[t].at \in Nat
    BY <1>2 DEF Fetches
<1>4. PICK n \in Nat : n = fetch[t].from + fetch[t].at /\ n + 1 <= Chunks
    BY <1>1, <1>3 DEF FilesSetting
<1>5. /\ content[s] = First(n) /\ fetch[t].linked
      /\ ~ fetch[t].append => fetch[t].from = 0
      /\ told[listed][s].status = "downloading"
    BY <1>0, <1>1, <1>4 DEF FilesFit, Fetched, Says
<1>6. content' = [content EXCEPT ![s] = First(n + 1)]
    <2>1. content' = [content EXCEPT ![s] = IF fetch[t].append THEN Append(@, n + 1)
                                           ELSE Files!Put(@, fetch[t].at + 1, n + 1)]
        BY <1>0, <1>4, <1>5 DEF Files!Writes
    <2>2. CASE fetch[t].append
        BY <1>5, <2>1, <2>2, FirstAppends
    <2>3. CASE ~ fetch[t].append
        <3>1. fetch[t].at + 1 = n + 1
            BY <1>3, <1>4, <1>5, <2>3
        <3>2. Files!Put(First(n), n + 1, n + 1) = First(n + 1)
            BY FirstPuts
        <3>3. QED
            BY <1>5, <2>1, <2>3, <3>1, <3>2
    <2>4. QED
        BY <2>2, <2>3
<1>7. /\ content' \in [Files!Files -> Seq(Int)] /\ content'[s] = First(n + 1)
      /\ \A r \in Files!Files \ {s} : content'[r] = content[r]
    <2>1. First(n + 1) \in Seq(Int)
        BY FirstIs
    <2>2. QED
        BY <1>2, <1>6, <2>1 DEF FilesFit, FilesTyped
<1> DEFINE Reaches(j) ==
              /\ j \in Fetches /\ j.pc = "stream" /\ j.gen = fetch[t].gen /\ j.shard = s
              /\ j.from = fetch[t].from /\ j.at = fetch[t].at + 1 /\ j.linked
              /\ (~ j.append => j.from = 0)
           Spoken ==
              /\ told' \in [1 .. Generations -> [Files!Files -> States]]
              /\ told'[listed][s].status = "downloading"
              /\ \A r \in Files!Files \ {s} : told'[listed][r].status = told[listed][r].status
<1>8. PICK j : fetch' = [fetch EXCEPT ![t] = j] /\ Reaches(j) /\ Spoken
    <2>1. CASE fetch' = [fetch EXCEPT ![t].at = @ + 1] /\ UNCHANGED told
        <3> DEFINE j == [fetch[t] EXCEPT !.at = @ + 1]
        <3>1. /\ j \in Fetches /\ j.pc = fetch[t].pc /\ j.gen = fetch[t].gen
              /\ j.shard = fetch[t].shard /\ j.from = fetch[t].from /\ j.at = fetch[t].at + 1
              /\ j.append = fetch[t].append /\ j.linked = fetch[t].linked
            BY <1>2, Counted
        <3>2. fetch' = [fetch EXCEPT ![t] = j]
            BY <2>1 DEF FilesFit, FilesTyped
        <3> HIDE DEF j
        <3>3. Reaches(j)
            BY <1>0, <1>1, <1>5, <3>1
        <3>4. Spoken
            BY <1>5, <2>1 DEF FilesFit, FilesTyped
        <3> HIDE DEF Reaches, Spoken
        <3>5. QED
            BY <3>2, <3>3, <3>4
    <2>2. CASE /\ fetch' = [fetch EXCEPT ![t] = [Files!Flags(t) EXCEPT !.at = @ + 1]]
               /\ Files!Reports(t, "downloading")
        <3> DEFINE i == Files!Flags(t)
                   j == [i EXCEPT !.at = @ + 1]
        <3>1. /\ i \in Fetches /\ i.pc = fetch[t].pc /\ i.gen = fetch[t].gen
              /\ i.shard = fetch[t].shard /\ i.from = fetch[t].from /\ i.at = fetch[t].at
              /\ i.append = fetch[t].append /\ i.linked = fetch[t].linked
            BY <1>0, <1>1, <1>2, FlagsRead
        <3>2. fetch' = [fetch EXCEPT ![t] = j]
            BY <2>2
        <3> HIDE DEF i
        <3>3. /\ j \in Fetches /\ j.pc = i.pc /\ j.gen = i.gen /\ j.shard = i.shard
              /\ j.from = i.from /\ j.at = i.at + 1 /\ j.append = i.append
              /\ j.linked = i.linked
            BY <3>1, Counted
        <3> HIDE DEF j
        <3>4. Reaches(j)
            BY <1>0, <1>1, <1>5, <3>1, <3>3
        <3>5. told' = [told EXCEPT ![listed][s].status = "downloading"]
            BY <1>0, <1>2, <2>2 DEF Files!Reports
        <3>6. Spoken
            BY <1>2, <3>5, Reported DEF FilesFit, Statuses, Files!Active
        <3> HIDE DEF Reaches, Spoken
        <3>7. QED
            BY <3>2, <3>4, <3>6
    <2>3. QED
        BY <2>1, <2>2 DEF Files!Writes
<1>9. /\ fetch' \in [Tasks -> Fetches] /\ fetch'[t] = j
      /\ \A r \in Tasks \ {t} : fetch'[r] = fetch[r]
    BY <1>8, Fetching DEF FilesFit
<1>10. UNCHANGED <<catalogue, listed, removing>>
    BY DEF Files!Writes
<1>11. FilesTyped'
    BY <1>7, <1>8, <1>9, <1>10 DEF FilesFit, FilesTyped
<1>12. Fetched(t)'
    <2>1. Says(s)' = "downloading"
        BY <1>8, <1>10 DEF Says
    <2>2. j.from + j.at = n + 1
        BY <1>3, <1>4, <1>8
    <2>3. QED
        BY <1>2, <1>4, <1>7, <1>8, <1>9, <2>1, <2>2 DEF Fetched
<1>13. QED
    BY <1>0, <1>1, <1>2, <1>7, <1>8, <1>9, <1>10, <1>11, <1>12, OnShard

LEMMA Completes ==
    ASSUME FilesSetting, FilesFit, NEW t \in Tasks, Files!Completes(t)
    PROVE  FilesFit'
<1>1. fetch[t].pc = "stream" /\ fetch[t].from + fetch[t].at >= Chunks
    BY DEF Files!Completes
<1>2. fetch[t].from \in Nat /\ fetch[t].at \in Nat
    BY DEF FilesFit, FilesTyped, Fetches
<1>3. /\ content[fetch[t].shard] = First(fetch[t].from + fetch[t].at)
      /\ fetch[t].from + fetch[t].at <= Chunks
    BY <1>1 DEF FilesFit, Fetched
<1>4. fetch[t].from + fetch[t].at = Chunks
    BY <1>1, <1>2, <1>3 DEF FilesSetting
<1>5. content[fetch[t].shard] = Files!Whole /\ content[fetch[t].shard] # Files!Gone
    BY <1>3, <1>4, FirstWhole, FirstIs DEF FilesSetting
<1>6. /\ fetch' = Files!Returns(t, FALSE) /\ Files!Reports(t, "done")
      /\ UNCHANGED <<catalogue, content, listed, removing>>
    BY <1>5 DEF Files!Completes, Files!Lost
<1>7. "done" \in Statuses
    BY DEF Statuses
<1>8. QED
    BY <1>1, <1>5, <1>6, <1>7, ReturnsWith

\* A task that is lost is one of the named exceptions.
LEMMA Stumbles ==
    ASSUME NEW t \in Tasks, Files!Stumbles(t)
    PROVE  excused' # {}
BY DEF Files!Stumbles, Files!Lost

LEMMA SkippedIs ==
    ASSUME FilesSetting, FilesTyped, listed \in 1 .. Generations, NEW m \in Int
    PROVE  /\ Files!Skipped(listed, m) \in [Files!Files -> States]
           /\ \A s \in Files!Files :
                 \/ Files!Skipped(listed, m)[s] = told[listed][s]
                 \/ Files!Skipped(listed, m)[s].status = "cancelled"
           /\ \A s \in Files!Files :
                 Files!Skipped(listed, m)[s] # told[listed][s] => s < m
           /\ \A s \in Files!Files : s < m /\ s \notin Files!Pending(listed) =>
                 Files!Skipped(listed, m)[s].status \notin Files!Active
           /\ \A s \in Files!Files : told[listed][s].status = "done" =>
                 Files!Skipped(listed, m)[s].status = "done"
<1> DEFINE c(s) == [told[listed][s] EXCEPT !.status = "cancelled"]
           v(s) == IF s < m /\ told[listed][s].cancel /\ told[listed][s].status # "done"
                   THEN c(s) ELSE told[listed][s]
<1>1. \A s \in Files!Files : told[listed][s] \in States
    BY DEF FilesTyped
<1>2. \A s \in Files!Files : c(s) \in States /\ c(s).status = "cancelled"
    BY <1>1, Restated DEF Statuses
<1>3. Files!Skipped(listed, m) = [s \in Files!Files |-> v(s)]
    BY DEF Files!Skipped
<1> HIDE DEF c
<1>4. \A s \in Files!Files :
        /\ v(s) \in States
        /\ v(s) = told[listed][s] \/ v(s).status = "cancelled"
        /\ v(s) # told[listed][s] => s < m
        /\ told[listed][s].status = "done" => v(s).status = "done"
    BY <1>1, <1>2
<1>5. \A s \in Files!Files : s < m /\ s \notin Files!Pending(listed) =>
        v(s).status \notin Files!Active
    BY <1>1, <1>2 DEF Files!Pending, Files!Active
<1> HIDE DEF v
<1>6. QED
    BY <1>3, <1>4, <1>5

LEMMA NextShards ==
    ASSUME FilesSetting, FilesFit, NEW t \in Tasks, Files!NextShard(t)
    PROVE  FilesFit'
<1>1. Working(t) /\ fetch[t].pc = "next"
    BY DEF Files!NextShard, Working
<1>2. /\ catalogue = "known" /\ ~ removing /\ listed \in 1 .. Generations
      /\ fetch[t].gen = listed /\ \A r \in Tasks \ {t} : fetch[r].pc = "idle"
      /\ fetch[t] \in Fetches /\ fetch[t].shard \in 0 .. Shards
      /\ \A r \in Files!Files : told[listed][r] \in States
    BY <1>1, AtWork
<1> DEFINE Starts(s) == [Files!Idle EXCEPT !.pc = "begin", !.gen = listed, !.shard = s,
                                          !.first = fetch[t].first,
                                          !.resume = told[listed][s].status = "paused"]
<1>3. PICK s \in Files!Pending(listed) :
        /\ s > fetch[t].shard
        /\ \A r \in Files!Pending(listed) : r > fetch[t].shard => s <= r
        /\ told' = [told EXCEPT ![listed] =
                      [Files!Skipped(listed, s) EXCEPT ![s].pause = FALSE]]
        /\ fetch' = [fetch EXCEPT ![t] = Starts(s)]
    BY <1>2 DEF Files!NextShard
<1>4. s \in Files!Files /\ s \in Int
    BY <1>3 DEF Files!Pending, Files!Files
<1>5. fetch' = [fetch EXCEPT ![t] = Starts(s)]
    BY <1>3
<1> DEFINE idle == Files!Idle
           k == Starts(s)
           b == told[listed][s].status = "paused"
<1>6. /\ k \in Fetches /\ k.pc = "begin" /\ k.gen = listed /\ k.shard = s /\ k.at = 0
      /\ k.resume = b
    <2>1. idle \in Fetches /\ idle.at = 0
        BY Idles DEF FilesSetting
    <2>2. fetch[t].first \in BOOLEAN /\ b \in BOOLEAN /\ s \in 0 .. Shards
          /\ listed \in 0 .. Generations
        BY <1>2, <1>4 DEF Fetches, Files!Files
    <2>3. k = [idle EXCEPT !.pc = "begin", !.gen = listed, !.shard = s,
                           !.first = fetch[t].first, !.resume = b]
        OBVIOUS
    <2> HIDE DEF idle, k, b
    <2>4. QED
        BY <2>1, <2>2, <2>3 DEF Fetches
<1> HIDE DEF k, Starts
<1>7. /\ fetch' \in [Tasks -> Fetches] /\ fetch'[t] = k
      /\ \A r \in Tasks \ {t} : fetch'[r] = fetch[r]
    BY <1>5, <1>6, Fetching DEF FilesFit, k
<1>8. UNCHANGED <<catalogue, content, listed, removing>>
    BY DEF Files!NextShard
<1> DEFINE u == Files!Skipped(listed, s)
<1>9. /\ u \in [Files!Files -> States]
      /\ \A r \in Files!Files : u[r] = told[listed][r] \/ u[r].status = "cancelled"
      /\ \A r \in Files!Files : u[r] # told[listed][r] => r < s
      /\ \A r \in Files!Files : r < s /\ r \notin Files!Pending(listed) =>
            u[r].status \notin Files!Active
    BY <1>2, <1>4, SkippedIs DEF FilesFit
<1>10. told' = [told EXCEPT ![listed] = [u EXCEPT ![s].pause = FALSE]]
    BY <1>3
<1> HIDE DEF u
<1>11. /\ told' \in [1 .. Generations -> [Files!Files -> States]]
       /\ \A r \in Files!Files : told'[listed][r].status = u[r].status
    <2>1. [u[s] EXCEPT !.pause = FALSE] \in States
          /\ [u[s] EXCEPT !.pause = FALSE].status = u[s].status
        BY <1>4, <1>9, Unpaused
    <2> DEFINE w == [u EXCEPT ![s].pause = FALSE]
    <2>2. w \in [Files!Files -> States] /\ \A r \in Files!Files : w[r].status = u[r].status
        BY <1>4, <1>9, <2>1
    <2>3. told' = [told EXCEPT ![listed] = w]
        BY <1>10
    <2> HIDE DEF w
    <2>4. QED
        BY <1>2, <2>2, <2>3 DEF FilesFit, FilesTyped
<1>12. \A r \in Files!Files :
         /\ Says(r)' = Says(r) \/ Says(r)' = "cancelled"
         /\ r >= s => Says(r)' = Says(r)
         /\ r < s /\ r \notin Files!Pending(listed) => Says(r)' \notin Files!Active
    BY <1>4, <1>8, <1>9, <1>11 DEF Says, Files!Files
<1>13. FilesTyped'
    BY <1>7, <1>8, <1>11 DEF FilesFit, FilesTyped
<1>14. OneTask' /\ Untouched' /\ AllDone'
    BY <1>2, <1>6, <1>7, <1>8 DEF OneTask, Untouched, AllDone, Working
<1>15. ToldTrue'
    <2> SUFFICES ASSUME NEW r \in Files!Files
                 PROVE  /\ Says(r)' = "done" => content'[r] = Files!Whole
                        /\ Says(r)' = "paused" => Part(r)'
        BY <1>2, <1>8 DEF ToldTrue
    <2>1. Part(r)' <=> Part(r)
        BY <1>8 DEF Part
    <2>2. QED
        BY <1>2, <1>8, <1>12, <2>1 DEF FilesFit, ToldTrue
<1>16. Settled'
    BY <1>6, <1>7 DEF Settled, Working
<1>17. Walked'
    <2> SUFFICES ASSUME NEW q \in Tasks, Working(q)', NEW r \in Files!Files
                 PROVE  /\ r < fetch'[q].shard \/ (r = fetch'[q].shard /\ fetch'[q].pc = "next")
                              => Says(r)' \notin Files!Active
                        /\ r > fetch'[q].shard => Says(r)' \notin {"downloading", "verifying"}
        BY DEF Walked, Files!Active
    <2>1. q = t
        BY <1>2, <1>7 DEF Working
    <2>2. /\ r < fetch[t].shard \/ r = fetch[t].shard => Says(r) \notin Files!Active
          /\ r > fetch[t].shard => Says(r) \notin {"downloading", "verifying"}
        BY <1>1 DEF FilesFit, Walked
    <2>3. r \in Int /\ fetch[t].shard \in Int
        BY <1>2 DEF Files!Files
    <2>4. ASSUME r < s PROVE Says(r)' \notin Files!Active
        <3>1. CASE r > fetch[t].shard
            BY <1>3, <1>4, <1>12, <2>3, <2>4, <3>1
        <3>2. CASE r <= fetch[t].shard
            BY <1>12, <2>2, <2>3, <3>2 DEF Files!Active
        <3>3. QED
            BY <2>3, <3>1, <3>2
    <2>5. ASSUME r > s PROVE Says(r)' \notin {"downloading", "verifying"}
        BY <1>2, <1>3, <1>4, <1>12, <2>2, <2>3, <2>5
    <2>6. QED
        BY <1>6, <1>7, <2>1, <2>4, <2>5
<1>18. Fetched(t)'
    <2>1. b => Part(s)
        BY <1>2, <1>4 DEF FilesFit, ToldTrue, Says, b
    <2>2. Part(s)' <=> Part(s)
        BY <1>8 DEF Part
    <2> HIDE DEF b
    <2>3. fetch'[t].pc = "begin" /\ fetch'[t].shard = s /\ fetch'[t].at = 0
          /\ (fetch'[t].resume => Part(s)')
        BY <1>6, <1>7, <2>1, <2>2
    <2>4. QED
        BY <1>4, <2>3 DEF Fetched, Part
<1>19. \A r \in Tasks : Fetched(r)'
    <2> SUFFICES ASSUME NEW r \in Tasks, r # t PROVE Fetched(r)'
        BY <1>18
    <2>1. fetch'[r].pc = "idle"
        BY <1>2, <1>7
    <2>2. QED
        BY <2>1 DEF Fetched
<1>20. QED
    BY <1>13, <1>14, <1>15, <1>16, <1>17, <1>19 DEF FilesFit

LEMMA LoopsEnd ==
    ASSUME FilesSetting, FilesFit, NEW t \in Tasks, Files!LoopEnds(t)
    PROVE  FilesFit'
<1>1. Working(t) /\ fetch[t].pc = "next"
    BY DEF Files!LoopEnds, Working
<1>2. /\ catalogue = "known" /\ ~ removing /\ listed \in 1 .. Generations
      /\ fetch[t].gen = listed /\ \A r \in Tasks \ {t} : fetch[r].pc = "idle"
      /\ fetch[t].shard \in 0 .. Shards
      /\ \A r \in Files!Files : told[listed][r] \in States
    BY <1>1, AtWork
<1>3. Files!Idle \in Fetches /\ Files!Idle.pc = "idle"
    BY Idles DEF FilesSetting
<1>4. fetch' = [fetch EXCEPT ![t] = Files!Idle]
    BY DEF Files!LoopEnds
<1>5. fetch' \in [Tasks -> Fetches] /\ \A r \in Tasks : fetch'[r].pc = "idle"
    <2>1. /\ fetch' \in [Tasks -> Fetches] /\ fetch'[t] = Files!Idle
          /\ \A r \in Tasks \ {t} : fetch'[r] = fetch[r]
        BY <1>3, <1>4, Fetching DEF FilesFit
    <2>2. QED
        BY <1>2, <1>3, <2>1
<1> DEFINE u == Files!Skipped(listed, Shards + 1)
<1>6. /\ u \in [Files!Files -> States]
      /\ \A r \in Files!Files : u[r] = told[listed][r] \/ u[r].status = "cancelled"
      /\ \A r \in Files!Files : r < Shards + 1 /\ r \notin Files!Pending(listed) =>
            u[r].status \notin Files!Active
      /\ \A r \in Files!Files : told[listed][r].status = "done" => u[r].status = "done"
    BY <1>2, SkippedIs DEF FilesFit, FilesSetting
<1>7. told' = [told EXCEPT ![listed] = u]
    BY <1>2 DEF Files!LoopEnds
<1>8. \A r \in Files!Pending(listed) : ~ (r > fetch[t].shard)
    BY <1>2 DEF Files!LoopEnds
<1>9. UNCHANGED <<content, listed, removing>>
    BY DEF Files!LoopEnds
<1> HIDE DEF u
<1>10. told' \in [1 .. Generations -> [Files!Files -> States]] /\ told'[listed] = u
    BY <1>2, <1>6, <1>7 DEF FilesFit, FilesTyped
<1>11. \A r \in Files!Files : Says(r)' = u[r].status
    BY <1>9, <1>10 DEF Says
<1>12. \/ catalogue' = "known"
       \/ /\ catalogue' = "downloaded"
          /\ \A r \in Files!Files : Says(r) = "done"
    BY <1>2 DEF Files!LoopEnds, Says
<1>13. \A r \in Files!Files : Says(r)' \notin Files!Active
    <2> TAKE r \in Files!Files
    <2>1. r \in Int /\ r < Shards + 1 /\ fetch[t].shard \in Int
        BY <1>2 DEF Files!Files, FilesSetting
    <2>2. CASE r <= fetch[t].shard
        <3>1. Says(r) \notin Files!Active
            BY <1>1, <2>1, <2>2 DEF FilesFit, Walked
        <3>2. QED
            BY <1>6, <1>11, <3>1 DEF Says, Files!Active
    <2>3. CASE r > fetch[t].shard
        BY <1>6, <1>8, <1>11, <2>1, <2>3
    <2>4. QED
        BY <2>1, <2>2, <2>3
<1>14. FilesTyped'
    BY <1>5, <1>9, <1>10, <1>12 DEF FilesFit, FilesTyped
<1>15. OneTask' /\ Untouched'
    BY <1>2, <1>5, <1>9, <1>12 DEF OneTask, Untouched, Working
<1>16. AllDone'
    <2> SUFFICES ASSUME catalogue' = "downloaded", NEW r \in Files!Files
                 PROVE  content'[r] = Files!Whole /\ Says(r)' = "done"
        BY DEF AllDone
    <2>1. Says(r) = "done"
        BY <1>12
    <2>2. QED
        BY <1>2, <1>6, <1>9, <1>11, <2>1 DEF FilesFit, ToldTrue, Says
<1>17. ToldTrue'
    <2> SUFFICES ASSUME NEW r \in Files!Files
                 PROVE  /\ Says(r)' = "done" => content'[r] = Files!Whole
                        /\ Says(r)' = "paused" => Part(r)'
        BY <1>2, <1>9 DEF ToldTrue
    <2>1. Part(r)' <=> Part(r)
        BY <1>9 DEF Part
    <2>2. Says(r)' = Says(r) \/ Says(r)' = "cancelled"
        BY <1>6, <1>11 DEF Says
    <2>3. QED
        BY <1>2, <1>9, <2>1, <2>2 DEF FilesFit, ToldTrue
<1>18. Settled'
    BY <1>13 DEF Settled, Files!Active
<1>19. Walked' /\ \A r \in Tasks : Fetched(r)'
    BY <1>5 DEF Walked, Fetched, Working
<1>20. QED
    BY <1>14, <1>15, <1>16, <1>17, <1>18, <1>19 DEF FilesFit

LEMMA Resumes ==
    ASSUME FilesSetting, FilesFit, NEW t \in Tasks, Files!Resumes(t)
    PROVE  FilesFit'
<1>0. PICK s : s = fetch[t].shard
    OBVIOUS
<1>1. Working(t) /\ fetch[t].pc = "returned"
    BY DEF Files!Resumes, Working
<1>2. /\ catalogue = "known" /\ ~ removing /\ listed \in 1 .. Generations
      /\ fetch[t].gen = listed /\ \A r \in Tasks \ {t} : fetch[r].pc = "idle"
      /\ fetch[t] \in Fetches /\ s \in Files!Files
      /\ told[listed] \in [Files!Files -> States]
      /\ \A r \in Files!Files : told[listed][r] \in States
    BY <1>0, <1>1, AtWork
<1>3. UNCHANGED <<catalogue, content, listed, removing>>
    BY DEF Files!Resumes
<1>4. ~ fetch[t].failed => Says(s) \in {"paused", "cancelled", "done"}
    BY <1>0, <1>1 DEF FilesFit, Fetched
<1>5. \A r \in Files!Files :
        /\ r < s => Says(r) \notin Files!Active
        /\ r > s => Says(r) \notin {"downloading", "verifying"}
    BY <1>0, <1>1 DEF FilesFit, Walked
<1>6. \A r \in Files!Files : r \in Int /\ s \in Int
    BY <1>2 DEF Files!Files
<1>7. Files!Idle \in Fetches /\ Files!Idle.pc = "idle"
    BY Idles DEF FilesSetting
<1>8. CASE fetch[t].failed \/ Says(s) = "cancelled"
    <2> DEFINE c(r) == [told[listed][r] EXCEPT !.status = "cancelled"]
               ended == [r \in Files!Files |-> IF told[listed][r].status = "queued" THEN c(r)
                                               ELSE told[listed][r]]
               v == IF fetch[t].failed THEN "failed" ELSE ended[s].status
    <2>1. \A r \in Files!Files : c(r) \in States /\ c(r).status = "cancelled"
        BY <1>2, Restated DEF Statuses
    <2>2. told' = [told EXCEPT ![listed] = [ended EXCEPT ![s].status = v]]
        BY <1>0, <1>2, <1>8 DEF Files!Resumes, Says
    <2>3. fetch' = [fetch EXCEPT ![t] = Files!Idle]
        BY <1>0, <1>2, <1>8 DEF Files!Resumes, Says
    <2> HIDE DEF c
    <2>4. /\ ended \in [Files!Files -> States]
          /\ \A r \in Files!Files :
                /\ ended[r].status # "queued"
                /\ ended[r].status = Says(r) \/ ended[r].status = "cancelled"
        BY <1>2, <2>1 DEF Says
    <2>5. v \in {"failed", "cancelled"}
        BY <1>2, <1>8, <2>4
    <2> HIDE DEF ended, v
    <2>6. /\ [ended[s] EXCEPT !.status = v] \in States
          /\ [ended[s] EXCEPT !.status = v].status = v
        BY <1>2, <2>4, <2>5, Restated DEF Statuses
    <2> DEFINE w == [ended EXCEPT ![s].status = v]
    <2>7. /\ w \in [Files!Files -> States] /\ w[s].status = v
          /\ \A r \in Files!Files \ {s} : w[r].status = ended[r].status
        BY <1>2, <2>4, <2>6
    <2> HIDE DEF w
    <2>8. told' \in [1 .. Generations -> [Files!Files -> States]] /\ told'[listed] = w
        BY <1>2, <2>2, <2>7 DEF FilesFit, FilesTyped, w
    <2>9. \A r \in Files!Files : /\ Says(r)' \notin Files!Active
                                 /\ Says(r)' \in {Says(r), "cancelled", "failed"}
        <3> TAKE r \in Files!Files
        <3>1. Says(r)' = w[r].status
            BY <1>3, <2>8 DEF Says
        <3>2. CASE r = s
            BY <2>5, <2>7, <3>1, <3>2 DEF Files!Active
        <3>3. CASE r # s
            BY <1>5, <1>6, <2>4, <2>7, <3>1, <3>3 DEF Files!Active
        <3>4. QED
            BY <3>2, <3>3
    <2>10. fetch' \in [Tasks -> Fetches] /\ \A r \in Tasks : fetch'[r].pc = "idle"
        <3>1. /\ fetch' \in [Tasks -> Fetches] /\ fetch'[t] = Files!Idle
              /\ \A r \in Tasks \ {t} : fetch'[r] = fetch[r]
            BY <1>7, <2>3, Fetching DEF FilesFit
        <3>2. QED
            BY <1>2, <1>7, <3>1
    <2>11. FilesTyped'
        BY <1>3, <2>8, <2>10 DEF FilesFit, FilesTyped
    <2>12. OneTask' /\ Untouched' /\ AllDone'
        BY <1>2, <1>3, <2>10 DEF OneTask, Untouched, AllDone, Working
    <2>13. ToldTrue'
        <3> SUFFICES ASSUME NEW r \in Files!Files
                     PROVE  /\ Says(r)' = "done" => content'[r] = Files!Whole
                            /\ Says(r)' = "paused" => Part(r)'
            BY <1>2, <1>3 DEF ToldTrue
        <3>1. Part(r)' <=> Part(r)
            BY <1>3 DEF Part
        <3>2. QED
            BY <1>2, <1>3, <2>9, <3>1 DEF FilesFit, ToldTrue
    <2>14. Settled'
        BY <2>9 DEF Settled, Files!Active
    <2>15. Walked' /\ \A r \in Tasks : Fetched(r)'
        BY <2>10 DEF Walked, Fetched, Working
    <2>16. QED
        BY <2>11, <2>12, <2>13, <2>14, <2>15 DEF FilesFit
<1>9. CASE ~ fetch[t].failed /\ Says(s) # "cancelled"
    <2>1. told' = told /\ Says(s) \in {"paused", "done"}
        BY <1>0, <1>2, <1>4, <1>9 DEF Files!Resumes, Says
    <2> DEFINE k == IF Says(s) = "paused" THEN Files!Idle ELSE [fetch[t] EXCEPT !.pc = "next"]
    <2>2. fetch' = [fetch EXCEPT ![t] = k]
        BY <1>0, <1>2, <1>9 DEF Files!Resumes, Says
    <2>3. /\ k \in Fetches
          /\ Says(s) = "paused" => k.pc = "idle"
          /\ Says(s) # "paused" => k.pc = "next" /\ k.gen = listed /\ k.shard = s
        BY <1>0, <1>2, <1>7, Onward
    <2> HIDE DEF k
    <2>4. /\ fetch' \in [Tasks -> Fetches] /\ fetch'[t] = k
          /\ \A r \in Tasks \ {t} : fetch'[r] = fetch[r]
        BY <2>2, <2>3, Fetching DEF FilesFit
    <2>5. \A r \in Files!Files : Says(r)' = Says(r) /\ (Part(r)' <=> Part(r))
        BY <1>3, <2>1 DEF Says, Part
    <2>6. FilesTyped'
        BY <1>3, <2>1, <2>4, <2>3 DEF FilesFit, FilesTyped
    <2>7. OneTask' /\ Untouched' /\ AllDone'
        BY <1>2, <1>3, <2>3, <2>4 DEF OneTask, Untouched, AllDone, Working
    <2>8. ToldTrue'
        <3> SUFFICES ASSUME NEW r \in Files!Files
                     PROVE  /\ Says(r)' = "done" => content'[r] = Files!Whole
                            /\ Says(r)' = "paused" => Part(r)'
            BY <1>2, <1>3 DEF ToldTrue
        <3>1. QED
            BY <1>2, <1>3, <2>5 DEF FilesFit, ToldTrue
    <2>9. Settled'
        <3> SUFFICES ASSUME \A r \in Tasks : ~ Working(r)', NEW r \in Files!Files
                     PROVE  /\ Says(r)' \notin {"downloading", "verifying"}
                            /\ Says(r)' = "queued" => \E q \in 1 .. r : Says(q)' = "paused"
            BY DEF Settled
        <3>1. Says(s) = "paused"
            BY <2>1, <2>3, <2>4 DEF Working
        <3>2. Says(s)' = "paused" /\ Says(r)' = Says(r)
            BY <1>2, <2>5, <3>1
        <3>3. r < s => Says(r) \notin Files!Active
            BY <1>5
        <3>4. CASE r < s
            BY <3>2, <3>3, <3>4 DEF Files!Active
        <3>5. CASE r >= s
            <4>1. s \in 1 .. r
                BY <1>2, <1>6, <3>5 DEF Files!Files
            <4>2. QED
                BY <1>5, <1>6, <3>1, <3>2, <3>5, <4>1
        <3>6. QED
            BY <1>6, <3>4, <3>5
    <2>10. Walked'
        <3> SUFFICES ASSUME NEW q \in Tasks, Working(q)', NEW r \in Files!Files
                     PROVE  /\ r < fetch'[q].shard
                               \/ (r = fetch'[q].shard /\ fetch'[q].pc = "next")
                                  => Says(r)' \notin Files!Active
                            /\ r > fetch'[q].shard => Says(r)' \notin {"downloading", "verifying"}
            BY DEF Walked, Files!Active
        <3>1. q = t /\ Says(s) = "done" /\ fetch'[q].shard = s
            BY <1>2, <2>1, <2>3, <2>4 DEF Working
        <3>2. Says(r)' = Says(r) /\ Says(s) \notin Files!Active
            BY <2>5, <3>1 DEF Files!Active
        <3>3. QED
            BY <1>5, <3>1, <3>2
    <2>11. \A r \in Tasks : Fetched(r)'
        <3>1. \A r \in Tasks : fetch'[r].pc \in {"idle", "next"}
            BY <1>2, <2>3, <2>4
        <3>2. QED
            BY <3>1 DEF Fetched
    <2>12. QED
        BY <2>6, <2>7, <2>8, <2>9, <2>10, <2>11 DEF FilesFit
<1>10. QED
    BY <1>8, <1>9

-----------------------------------------------------------------------------
LEMMA Spawns ==
    ASSUME FilesSetting, FilesFit, NEW t \in Tasks, NEW g \in 1 .. Generations,
           NEW b, b \in BOOLEAN, Files!Spawn(t, g, b), \A r \in Tasks : ~ Working(r),
           listed' = g, catalogue' = "known", ~ removing', content' = content,
           told' \in [1 .. Generations -> [Files!Files -> States]],
           \A s \in Files!Files :
               /\ told'[g][s].status \notin {"downloading", "verifying"}
               /\ told'[g][s].status = "done" => content[s] = Files!Whole
               /\ told'[g][s].status = "paused" => \E n \in 0 .. Chunks - 1 : content[s] = First(n)
    PROVE  FilesFit'
<1> DEFINE idle == Files!Idle
           k == [idle EXCEPT !.pc = "next", !.gen = g, !.first = b]
<1>1. /\ k \in Fetches /\ k.pc = "next" /\ k.gen = g /\ k.shard = 0
    <2>1. idle \in Fetches /\ idle.shard = 0
        BY Idles DEF FilesSetting
    <2>2. g \in 0 .. Generations
        BY DEF FilesSetting
    <2> HIDE DEF idle
    <2>3. QED
        BY <2>1, <2>2 DEF Fetches
<1>2. fetch' = [fetch EXCEPT ![t] = k]
    BY DEF Files!Spawn
<1> HIDE DEF k
<1>3. /\ fetch' \in [Tasks -> Fetches] /\ fetch'[t] = k
      /\ \A r \in Tasks \ {t} : fetch'[r] = fetch[r] /\ fetch'[r].pc = "idle"
    BY <1>1, <1>2, Fetching DEF FilesFit, Working
<1>4. FilesTyped'
    BY <1>3 DEF FilesFit, FilesTyped
<1>5. OneTask' /\ Untouched' /\ AllDone'
    BY <1>1, <1>3 DEF OneTask, Untouched, AllDone, Working
<1>6. \A s \in Files!Files : Says(s)' = told'[g][s].status
    BY DEF Says
<1>7. ToldTrue' /\ Settled'
    BY <1>1, <1>3, <1>6 DEF ToldTrue, Settled, Part, Working
<1>8. Walked'
    <2> SUFFICES ASSUME NEW q \in Tasks, Working(q)', NEW r \in Files!Files
                 PROVE  /\ r < fetch'[q].shard \/ (r = fetch'[q].shard /\ fetch'[q].pc = "next")
                              => Says(r)' \notin Files!Active
                        /\ r > fetch'[q].shard => Says(r)' \notin {"downloading", "verifying"}
        BY DEF Walked, Files!Active
    <2>1. fetch'[q].shard = 0 /\ r \in Nat \ {0}
        BY <1>1, <1>3 DEF Working, Files!Files
    <2>2. QED
        BY <1>6, <2>1
<1>9. \A r \in Tasks : Fetched(r)'
    <2>1. \A r \in Tasks : fetch'[r].pc \in {"idle", "next"}
        BY <1>1, <1>3
    <2>2. QED
        BY <2>1 DEF Fetched
<1>10. QED
    BY <1>4, <1>5, <1>7, <1>8, <1>9 DEF FilesFit

LEMMA AllQueued ==
    LET q == [s \in Files!Files |-> Files!Queued]
    IN  /\ q \in [Files!Files -> States]
        /\ \A s \in Files!Files : q[s].status = "queued"
BY DEF States, Statuses, Files!Active, Files!Queued

LEMMA Starts ==
    ASSUME FilesSetting, FilesFit, NEW t \in Tasks, Files!Start(t)
    PROVE  FilesFit'
<1>1. /\ catalogue = "absent" /\ catalogue' = "known" /\ listed' = 1 /\ Files!Spawn(t, 1, TRUE)
      /\ UNCHANGED <<content, told, removing>>
    BY DEF Files!Start
<1>2. /\ \A r \in Tasks : ~ Working(r)
      /\ ~ removing'
    BY <1>1 DEF FilesFit, OneTask
<1>3. told[1] = [s \in Files!Files |-> Files!Queued]
    BY <1>1 DEF FilesFit, Untouched
<1>4. \A s \in Files!Files : told'[1][s].status = "queued"
    BY <1>1, <1>3, AllQueued
<1>5. told' \in [1 .. Generations -> [Files!Files -> States]] /\ 1 \in 1 .. Generations
    BY <1>1 DEF FilesFit, FilesTyped, FilesSetting
<1>6. QED
    BY <1>1, <1>2, <1>4, <1>5, Spawns

LEMMA Retries ==
    ASSUME FilesSetting, FilesFit, NEW t \in Tasks, Files!Retry(t), excused' = {}
    PROVE  FilesFit'
<1>1. PICK g \in Files!Unused :
        /\ Files!Spawn(t, g, FALSE) /\ listed' = g
        /\ told' = [told EXCEPT ![g] = [s \in Files!Files |-> Files!Queued]]
    BY DEF Files!Retry
<1>2. g \in 1 .. Generations
    BY <1>1 DEF Files!Unused
<1>3. catalogue = "known" /\ UNCHANGED <<catalogue, content, removing>>
    BY DEF Files!Retry, Files!Known
<1>4. \A r \in Tasks : ~ Working(r)
    BY DEF Files!Retry, Files!Live, Working
<1>5. ~ removing'
    BY <1>3 DEF FilesFit, OneTask
<1> DEFINE q == [s \in Files!Files |-> Files!Queued]
<1>6. q \in [Files!Files -> States] /\ \A s \in Files!Files : q[s].status = "queued"
    BY AllQueued
<1>7. told' = [told EXCEPT ![g] = q]
    BY <1>1
<1> HIDE DEF q
<1>8. /\ told' \in [1 .. Generations -> [Files!Files -> States]]
      /\ \A s \in Files!Files : told'[g][s].status = "queued"
    BY <1>2, <1>6, <1>7 DEF FilesFit, FilesTyped
<1>9. QED
    BY <1>1, <1>2, <1>3, <1>4, <1>5, <1>8, Spawns

LEMMA TakenUp ==
    ASSUME FilesSetting, FilesFit, NEW t \in Tasks, Files!Resume(t), excused' = {}
    PROVE  FilesFit'
<1>1. /\ Files!Spawn(t, listed, FALSE) /\ listed > 0 /\ Files!Known
      /\ \E s \in Files!Files : Says(s) = "paused"
      /\ UNCHANGED <<catalogue, content, listed, told, removing>>
    BY DEF Files!Resume, Says
<1>2. \A r \in Tasks : ~ Working(r)
    BY DEF Files!Resume, Files!Request, Files!Live, Working
<1>3. listed \in 1 .. Generations /\ listed # 0
    BY <1>1 DEF FilesFit, FilesTyped, FilesSetting
<1>4. catalogue = "known" /\ ~ removing'
    BY <1>1, <1>3 DEF FilesFit, AllDone, Files!Known, OneTask
<1>5. \A s \in Files!Files :
        /\ told'[listed][s].status \notin {"downloading", "verifying"}
        /\ told'[listed][s].status = "done" => content[s] = Files!Whole
        /\ told'[listed][s].status = "paused" => \E n \in 0 .. Chunks - 1 : content[s] = First(n)
    BY <1>1, <1>2, <1>3 DEF FilesFit, Settled, ToldTrue, Part, Says
<1>6. told' \in [1 .. Generations -> [Files!Files -> States]]
    BY <1>1 DEF FilesFit, FilesTyped
<1>7. QED
    BY <1>1, <1>2, <1>3, <1>4, <1>5, <1>6, Spawns

LEMMA Flags ==
    ASSUME FilesSetting, FilesFit, NEW f \in {"cancel", "pause"}, Files!Flag(f)
    PROVE  FilesFit'
<1>1. UNCHANGED <<catalogue, content, listed, fetch, removing>> /\ listed > 0
    BY DEF Files!Flag
<1>2. listed \in 1 .. Generations
    BY <1>1 DEF FilesFit, FilesTyped, FilesSetting
<1>3. told[listed] \in [Files!Files -> States]
    BY <1>2 DEF FilesFit, FilesTyped
<1> DEFINE c(r) == [told[listed][r] EXCEPT ![f] = TRUE]
           w == [r \in Files!Files |-> IF told[listed][r].status \in Files!Active THEN c(r)
                                       ELSE told[listed][r]]
<1>4. \A r \in Files!Files : c(r) \in States /\ c(r).status = told[listed][r].status
    BY <1>3, Flagged
<1>5. told' = [told EXCEPT ![listed] = w]
    BY DEF Files!Flag
<1> HIDE DEF c
<1>6. w \in [Files!Files -> States] /\ \A r \in Files!Files : w[r].status = told[listed][r].status
    BY <1>3, <1>4
<1> HIDE DEF w
<1>7. /\ told' \in [1 .. Generations -> [Files!Files -> States]]
      /\ \A r \in Files!Files : told'[listed][r].status = told[listed][r].status
    BY <1>2, <1>5, <1>6 DEF FilesFit, FilesTyped
<1>8. \A r \in Files!Files : Says(r)' = Says(r) /\ (Part(r)' <=> Part(r))
    BY <1>1, <1>7 DEF Says, Part
<1>9. FilesTyped'
    BY <1>1, <1>7 DEF FilesFit, FilesTyped
<1>10. OneTask' /\ Untouched'
    BY <1>1, <1>2 DEF FilesFit, OneTask, Untouched, Working
<1>11. AllDone' /\ ToldTrue'
    BY <1>1, <1>8 DEF FilesFit, AllDone, ToldTrue
<1>12. Settled'
    <2>1. (\A t \in Tasks : ~ Working(t)') => \A t \in Tasks : ~ Working(t)
        BY <1>1 DEF Working
    <2>2. \A s \in Files!Files : \A r \in 1 .. s : r \in Files!Files
        BY DEF Files!Files, FilesSetting
    <2>3. QED
        BY <1>1, <1>8, <2>1, <2>2 DEF FilesFit, Settled
<1>13. Walked'
    BY <1>1, <1>8 DEF FilesFit, Walked, Working
<1>14. \A t \in Tasks : Fetched(t)'
    <2> TAKE t \in Tasks
    <2>1. fetch[t].pc \notin {"idle", "next"} => fetch[t].shard \in Files!Files
        BY DEF FilesFit, Fetched
    <2>2. QED
        BY <1>1, <1>8, <2>1 DEF FilesFit, Fetched
<1>15. QED
    BY <1>9, <1>10, <1>11, <1>12, <1>13, <1>14 DEF FilesFit

\* Without tasks and without a list little is left to say.
LEMMA Emptied ==
    ASSUME FilesSetting, FilesFit, FilesTyped', \A r \in Tasks : fetch'[r].pc = "idle",
           listed' = 0, ~ removing',
           \/ catalogue' = "archived"
           \/ UNCHANGED <<catalogue, content, told>>
    PROVE  FilesFit'
<1>1. OneTask' /\ Walked' /\ (\A t \in Tasks : Fetched(t)') /\ Settled' /\ ToldTrue'
    BY DEF OneTask, Walked, Fetched, Settled, ToldTrue, Working
<1>2. Untouched' /\ AllDone'
    BY DEF FilesFit, Untouched, AllDone
<1>3. QED
    BY <1>1, <1>2 DEF FilesFit

LEMMA Deletes ==
    ASSUME FilesSetting, FilesFit, Files!Delete \/ Files!Deleted
    PROVE  FilesFit'
<1>1. CASE Files!Delete
    <2>1. UNCHANGED <<catalogue, content, listed, told, fetch>> /\ catalogue = "downloaded"
        BY <1>1 DEF Files!Delete
    <2>2. FilesTyped' /\ OneTask'
        BY <2>1 DEF FilesFit, FilesTyped, OneTask, Working
    <2>3. Untouched' /\ AllDone' /\ ToldTrue' /\ Settled' /\ Walked'
          /\ \A t \in Tasks : Fetched(t)'
        BY <2>1 DEF FilesFit, Untouched, AllDone, ToldTrue, Settled, Walked, Fetched,
                    Says, Part, Working
    <2>4. QED
        BY <2>2, <2>3 DEF FilesFit
<1>2. CASE Files!Deleted
    <2>1. /\ removing /\ ~ removing' /\ catalogue' = "archived" /\ listed' = 0
          /\ content' = [s \in Files!Files |-> Files!Gone] /\ told' = told
          /\ fetch' = Files!Unlink(Files!Files)
        BY <1>2 DEF Files!Deleted
    <2>2. \A r \in Tasks : fetch[r].pc = "idle"
        BY <2>1 DEF FilesFit, OneTask, Working
    <2> DEFINE u(r) == [fetch[r] EXCEPT !.linked = FALSE]
               o(r) == IF fetch[r].shard \in Files!Files THEN u(r) ELSE fetch[r]
    <2>3. \A r \in Tasks : fetch[r] \in Fetches /\ u(r) \in Fetches /\ u(r).pc = fetch[r].pc
        BY Unlinked DEF FilesFit, FilesTyped
    <2>4. fetch' = [r \in Tasks |-> o(r)]
        BY <2>1 DEF Files!Unlink
    <2> HIDE DEF u
    <2>5. fetch' \in [Tasks -> Fetches] /\ \A r \in Tasks : fetch'[r].pc = "idle"
        BY <2>2, <2>3, <2>4
    <2>6. Files!Gone \in Seq(Int)
        BY DEF Files!Gone
    <2>7. FilesTyped'
        BY <2>1, <2>5, <2>6 DEF FilesFit, FilesTyped, FilesSetting
    <2>8. QED
        BY <2>1, <2>5, <2>7, Emptied
<1>3. QED
    BY <1>1, <1>2

LEMMA Restarts ==
    ASSUME FilesSetting, FilesFit, Files!Restart
    PROVE  FilesFit'
<1>1. /\ listed' = 0 /\ fetch' = [t \in Tasks |-> Files!Idle] /\ ~ removing'
      /\ UNCHANGED <<catalogue, content, told>>
    BY DEF Files!Restart
<1>2. Files!Idle \in Fetches /\ Files!Idle.pc = "idle"
    BY Idles DEF FilesSetting
<1>3. FilesTyped' /\ \A r \in Tasks : fetch'[r].pc = "idle"
    BY <1>1, <1>2 DEF FilesFit, FilesTyped, FilesSetting
<1>4. QED
    BY <1>1, <1>3, Emptied

-----------------------------------------------------------------------------
LEMMA FilesInit == FilesSetting /\ Files!Init => FilesInv
<1> SUFFICES ASSUME FilesSetting, Files!Init PROVE FilesFit
    BY DEF FilesInv
<1>1. /\ catalogue = "absent" /\ content = [s \in Files!Files |-> Files!Gone] /\ listed = 0
      /\ told = [g \in 1 .. Generations |-> [s \in Files!Files |-> Files!Queued]]
      /\ fetch = [t \in Tasks |-> Files!Idle] /\ removing = FALSE
    BY DEF Files!Init
<1>2. Files!Idle \in Fetches /\ Files!Idle.pc = "idle"
    BY Idles DEF FilesSetting
<1>3. Files!Gone \in Seq(Int)
    BY DEF Files!Gone
<1>4. FilesTyped
    BY <1>1, <1>2, <1>3, AllQueued DEF FilesTyped, FilesSetting
<1>5. \A t \in Tasks : fetch[t].pc = "idle"
    BY <1>1, <1>2
<1>6. Untouched
    BY <1>1 DEF Untouched, FilesSetting
<1>7. OneTask /\ AllDone /\ ToldTrue /\ Settled /\ Walked /\ \A t \in Tasks : Fetched(t)
    BY <1>1, <1>5 DEF OneTask, AllDone, ToldTrue, Settled, Walked, Fetched, Working
<1>8. QED
    BY <1>4, <1>6, <1>7 DEF FilesFit

LEMMA FilesStep ==
    FilesSetting /\ FilesInv /\ [Files!Next]_(Files!vars) => FilesInv'
<1> SUFFICES ASSUME FilesSetting, FilesInv, [Files!Next]_(Files!vars), excused' = {}
             PROVE  FilesFit'
    BY DEF FilesInv
<1>1. CASE UNCHANGED Files!vars
    <2>1. UNCHANGED <<catalogue, content, listed, told, fetch, removing, excused>>
        BY <1>1 DEF Files!vars
    <2>2. FilesFit
        BY <2>1 DEF FilesInv
    <2>3. FilesTyped' /\ OneTask' /\ Untouched'
        BY <2>1, <2>2 DEF FilesFit, FilesTyped, OneTask, Untouched, Working
    <2>4. AllDone' /\ ToldTrue' /\ Settled' /\ Walked' /\ \A t \in Tasks : Fetched(t)'
        BY <2>1, <2>2 DEF FilesFit, AllDone, ToldTrue, Settled, Walked, Fetched, Says, Part, Working
    <2>5. QED
        BY <2>3, <2>4 DEF FilesFit
<1>2. CASE Files!Next
    <2>1. excused = {}
        BY <1>2, ZenonT(60) DEF Files!Next, Files!Start, Files!Retry, Files!Resume, Files!Cancel, Files!Pause,
           Files!Flag, Files!Delete, Files!Deleted, Files!NextShard, Files!LoopEnds, Files!Begins,
           Files!Opens, Files!Unanswered, Files!Writes, Files!Cancelled, Files!Paused,
           Files!Breaks, Files!Removes, Files!Stumbles, Files!Lost, Files!Completes,
           Files!Resumes, Files!Restart,
           Files!Request
    <2>2. FilesFit
        BY <2>1 DEF FilesInv
    <2>3. CASE \E t \in Tasks : Files!Start(t) \/ Files!Retry(t) \/ Files!Resume(t)
        BY <2>2, <2>3, Starts, Retries, TakenUp
    <2>4. CASE Files!Cancel \/ Files!Pause
        BY <2>2, <2>4, Flags DEF Files!Cancel, Files!Pause
    <2>5. CASE Files!Delete \/ Files!Deleted
        BY <2>2, <2>5, Deletes
    <2>6. ASSUME NEW t \in Tasks,
                 \/ Files!NextShard(t) \/ Files!LoopEnds(t) \/ Files!Begins(t) \/ Files!Opens(t)
                 \/ Files!Unanswered(t) \/ Files!Writes(t) \/ Files!Cancelled(t)
                 \/ Files!Paused(t) \/ Files!Breaks(t) \/ Files!Stumbles(t)
                 \/ Files!Completes(t) \/ Files!Resumes(t)
          PROVE  FilesFit'
        BY <2>2, <2>6, NextShards, LoopsEnd, Begins, OpensFile, Unanswered, Writes, Cancels, Pauses,
           Breaks, Stumbles, Completes, Resumes
    <2>7. CASE Files!Restart
        BY <2>2, <2>7, Restarts
    <2>8. QED
        BY <1>2, <2>3, <2>4, <2>5, <2>6, <2>7 DEF Files!Next
<1>3. QED
    BY <1>1, <1>2

LEMMA FilesHold == FilesSetting /\ FilesInv => Files!DownloadsSound
<1> SUFFICES ASSUME FilesSetting, FilesFit
             PROVE  Files!WholeWhenDownloaded /\ Files!SettledWhenIdle
    BY DEF FilesInv, Files!DownloadsSound
<1>1. Files!WholeWhenDownloaded
    BY DEF FilesFit, AllDone, Files!WholeWhenDownloaded
<1>2. Files!SettledWhenIdle
    <2> SUFFICES ASSUME Files!Live = {}, listed > 0, NEW s \in Files!Files
                 PROVE  LET status == Says(s)
                        IN  /\ status \notin Files!Active \ {"queued"}
                            /\ status = "queued" => \E r \in 1 .. s : Says(r) = "paused"
                            /\ status = "paused" =>
                                  /\ content[s] # Files!Gone /\ Len(content[s]) < Chunks
                                  /\ \A i \in DOMAIN content[s] : content[s][i] = i
                            /\ status = "done" => content[s] = Files!Whole
        BY DEF Files!SettledWhenIdle, Says
    <2>1. listed # 0 /\ \A t \in Tasks : ~ Working(t)
        BY DEF Files!Live, Working
    <2>2. /\ Says(s) \notin {"downloading", "verifying"}
          /\ Says(s) = "queued" => \E r \in 1 .. s : Says(r) = "paused"
        BY <2>1 DEF FilesFit, Settled
    <2>3. /\ Says(s) = "done" => content[s] = Files!Whole
          /\ Says(s) = "paused" => Part(s)
        BY <2>1 DEF FilesFit, ToldTrue
    <2>4. ASSUME Part(s)
          PROVE  /\ content[s] # Files!Gone /\ Len(content[s]) < Chunks
                 /\ \A i \in DOMAIN content[s] : content[s][i] = i
        <3>1. PICK n \in 0 .. Chunks - 1 : content[s] = First(n)
            BY <2>4 DEF Part
        <3>2. n \in Nat /\ n < Chunks
            BY DEF FilesSetting
        <3>3. QED
            BY <3>1, <3>2, FirstIs
    <2>5. QED
        BY <2>2, <2>3, <2>4 DEF Files!Active
<1>3. QED
    BY <1>1, <1>2

LEMMA FilesMove ==
    /\ Init /\ focus = "files" => Files!Init
    /\ [Next]_vars /\ focus = "files" => [Files!Next]_(Files!vars)
BY DEF Init, Next, vars, Files!vars

\* Whatever is paused, resumed, cancelled, broken off, retried, deleted or restarted,
\* for any number of files and of chunks: a model the catalogue calls downloaded has
\* all its files whole, and when nothing runs what the list says of each of them is
\* so (api/discovery.py, core/downloader.py); except once two tasks ran at once, or a
\* model that was downloaded was retried, for which no lock and no check is there, or
\* once a task was lost to an error that nothing catches.
THEOREM DownloadsAreSound ==
    /\ Files!Spec => []Files!DownloadsSound
    /\ Spec => []DownloadsSound
<1> DEFINE InFocus == focus = "files" => FilesInv
<1>0. FilesSetting
    BY ServicesAssumption DEF FilesSetting
<1>1. Files!Init => FilesInv
    BY <1>0, FilesInit
<1>2. FilesInv /\ [Files!Next]_(Files!vars) => FilesInv'
    BY <1>0, FilesStep
<1>3. FilesInv => Files!DownloadsSound
    BY <1>0, FilesHold
<1>4. Init => InFocus
    BY <1>1, FilesMove
<1>5. InFocus /\ [Next]_vars => InFocus'
    BY <1>2, FilesMove, FocusStays
<1>6. InFocus => DownloadsSound
    BY <1>3 DEF DownloadsSound
<1> HIDE DEF InFocus
<1>7. Files!Spec => []Files!DownloadsSound
    BY <1>1, <1>2, <1>3, PTL DEF Files!Spec
<1>8. Spec => []DownloadsSound
    BY <1>4, <1>5, <1>6, PTL DEF Spec
<1>9. QED
    BY <1>7, <1>8

HIDE DEF catalogue, content, listed, told, fetch, removing, excused

=============================================================================
