-------------------------------- MODULE Client --------------------------------
(***************************************************************************)
(* A page of the browser at work (frontend/src/modules, its queries and    *)
(* mutations, auth/RoleContext.tsx and api/client.ts; react-query with its *)
(* default client, main.tsx:14): one query of one page, watched while the  *)
(* page is opened and left, the window regains the focus, a mutation of    *)
(* the page is sent, somebody else changes the row and the role switches.  *)
(*                                                                         *)
(* The cached answer and the one on its way are known by the worst they    *)
(* miss of what the server holds by now.  react-query's retries are part   *)
(* of a fetch; a page has one mutation in flight; the rows the activity    *)
(* log adds after a mutation was answered are left out.                    *)
(***************************************************************************)
EXTENDS Pages, Integers
LOCAL INSTANCE SequencesExt

CONSTANTS
  MaxMishaps,  \* answers of a server that may never come
  Nothing      \* absence of an offer, of a refusal

ASSUME ClientAssumption == MaxMishaps \in Nat

VARIABLES
  page,     \* the page by its name, for good
  watched,  \* the query of that page that is looked at, for good
  role,     \* the acting role, sent along with every request
  mounted,  \* the page is open
  entry,    \* the cached answer: whether there is one and what it misses
  fetch,    \* the request of the query on its way
  request,  \* the mutation on its way
  status,   \* of the row, at the server
  doubt,    \* the last time the answer was to be renewed, a fetch failed or was joined
  mishaps,  \* answers that never came
  refused   \* history: the last thing the page offered and the server would not have

clientVars == <<page, watched, role, mounted, entry, fetch, request, status, doubt, mishaps, refused>>

\* What an answer may miss, the worse the later: changes of others, of this page,
\* the acting role.
Missable  == {"nothing", "others", "own", "role"}
NoFetch   == [pc |-> "none", misses |-> "nothing"]
Asked     == [pc |-> "asked", misses |-> "nothing"]

\* A mutation: what is called, whether the role may, the status it asks for, whether
\* an up-to-date page offered it, and whether it makes the page forget the watched
\* query when it succeeds, when it fails.
NoRequest == [pc |-> "none", does |-> Nothing, may |-> FALSE, to |-> "=", fresh |-> FALSE,
              forgets |-> FALSE, anyway |-> FALSE]

Shown == App[page]

-----------------------------------------------------------------------------
\* What a mutation changes and does not forget: the schedules a page of an asset
\* keeps tell the asset's status, and an edit or a check-in forgets only the assets
\* (AssetDialogs.tsx).
LeftBehind == {<<"maintenance-schedules", "filters">>}

\* What a page offers and its own answer tells the server will refuse.
KnownRefusals ==
  \* The report's page is open to roles its route is not for (App.tsx, reports.controller.ts:20).
  {<<"getInventoryReport", "role">>} \cup
  \* Menus that know the column alone: CLOSED with a corrective action that is not COMPLETED
  \* (HseDetailPage.tsx:113-120, hse.service.ts:85-91), with an appraisal that is not
  \* (AppraisalCycleDetailPage.tsx:98-105, appraisals.service.ts:68-74).
  {<<"updateIncidentStatus", s, "CLOSED">> : s \in DOMAIN Undone \ {"CLOSED_UNDONE"}} \cup
  {<<"updateAppraisalCycleStatus", s, "CLOSED">> :
      s \in DOMAIN Unreviewed \ {"CLOSED_UNREVIEWED"}} \cup
  \* Buttons that are there for all: a decision for those who are not asked for one
  \* (DocumentDetailPage.tsx:121-133, document-control.service.ts:200-205), a payment of
  \* nothing that is left (InvoiceDetailPage.tsx:130, accounting.service.ts:158-162), the
  \* deletion of an item on stock (InventoryItemsListPage.tsx:321, inventory.service.ts:194-198),
  \* DECOMMISSIONED for an asset somebody holds (AssetDialogs.tsx:67, assets.service.ts:136),
  \* one's own account, an account without a role (UsersListPage.tsx:108-126,
  \* users.service.ts:140-143, 157-159).
  {<<"recordDecision", "IN_REVIEW_ASIDE", "any">>, <<"recordPayment", "APPROVED_SETTLED", "any">>,
   <<"deleteInventoryItem", "STOCKED", "any">>,    <<"updateAsset", "HELD", "DECOMMISSIONED">>,
   <<"disableUser", "ACTIVE_SELF", "any">>,        <<"enableUser", "DISABLED_ROLELESS", "any">>}

\* Keys match by prefix.
Matched(key, keys) == \E some \in keys : IsPrefix(some, key)

\* A page beside the API: whoever sees a query or an offer may call it, whatever the
\* service makes of a status the page can show, and an offer forgets the queries it
\* changes.
Fits(panel) ==
  /\ \A query \in Queries(panel) : \A r \in panel.for \cap query.for :
       Permits(r, query.by) \/ <<query.by, "role">> \in KnownRefusals
  /\ \A offer \in panel.offers :
       /\ \A r \in panel.for \cap offer.for :
            Permits(r, offer.does) \/ <<offer.does, "role">> \in KnownRefusals
       /\ \A from \in panel.statuses : Results(offer.does, from) \subseteq panel.statuses
       /\ \A query \in Queries(panel) : Touches[offer.does] \cap Touches[query.by] # {} =>
            Matched(query.key, offer.forgets) \/ query.key \in LeftBehind

\* Nothing but the tables is in it: TLC's evaluation of it is complete.
ASSUME PagesFit == \A name \in DOMAIN App : Fits(App[name])

-----------------------------------------------------------------------------

\* The roles a page, its query or its offers tell apart; staff is in no list.
Interested ==
  LET lists == {Shown.for, watched.for} \cup {offer.for : offer \in Shown.offers}
  IN  UNION (lists \ {Roles}) \cup {"admin", "staff"}

ClientInit ==
  /\ page \in DOMAIN App
  /\ watched \in Queries(Shown)
  /\ role \in Interested
  /\ mounted = FALSE
  /\ entry = [there |-> FALSE, misses |-> "nothing"]
  /\ fetch = NoFetch
  /\ request = NoRequest
  /\ status \in Shown.statuses
  /\ doubt = FALSE
  /\ mishaps = 0
  /\ refused = Nothing

-----------------------------------------------------------------------------
Wanted(r) == r \in Shown.for \cap watched.for
InFlight  == fetch.pc # "none"

\* Asks the server now; an older request is dropped.
Ask == fetch' = Asked /\ doubt' = FALSE

\* A change that an answer which is there, or on its way back, misses from now on.
Worse(misses, what) ==
  IF misses = "nothing" \/ what = "role" \/ (what = "own" /\ misses = "others") THEN what ELSE misses

Unseen(what, yes) ==
  /\ entry' = IF yes /\ entry.there THEN [entry EXCEPT !.misses = Worse(@, what)] ELSE entry
  /\ fetch' = IF yes /\ fetch.pc = "served" THEN [fetch EXCEPT !.misses = Worse(@, what)] ELSE fetch

Hits(keys) == Matched(watched.key, keys)

\* MUTANT of Invalidate: a fetch that is on its way is joined in any case.
Invalidate_Joining(hit) ==
  IF hit /\ mounted /\ Wanted(role) /\ ~InFlight THEN Ask ELSE UNCHANGED <<fetch, doubt>>

\* invalidateQueries: an answer that is shown is asked for again, and the request
\* on its way is dropped; but the first fetch of all is joined, and one whose page
\* has gone is left alone.
Invalidate(hit) ==
  IF hit /\ mounted /\ Wanted(role) /\ (entry.there \/ ~InFlight) THEN Ask
  ELSE doubt' = (doubt \/ (hit /\ InFlight)) /\ UNCHANGED fetch

-----------------------------------------------------------------------------
\* The page is opened; what is cached is shown and asked for again.
Visit ==
  /\ ~mounted /\ role \in Shown.for
  /\ mounted' = TRUE
  /\ IF Wanted(role) /\ ~InFlight THEN Ask ELSE UNCHANGED <<fetch, doubt>>
  /\ UNCHANGED <<page, watched, role, entry, request, status, mishaps, refused>>

Depart ==
  /\ mounted
  /\ mounted' = FALSE
  /\ UNCHANGED <<page, watched, role, entry, fetch, request, status, doubt, mishaps, refused>>

\* The window has the focus again, or the bell's interval is over.
Refocus ==
  /\ mounted /\ Wanted(role) /\ ~InFlight
  /\ Ask
  /\ UNCHANGED <<page, watched, role, mounted, entry, request, status, mishaps, refused>>

\* The server answers a fetch: 403 unless the route is the role's.  What was asked
\* in another role may be answered either way.
ServeFetch ==
  /\ fetch.pc = "asked"
  /\ \/ /\ Permits(role, watched.by) \/ fetch.misses = "role"
        /\ fetch' = [fetch EXCEPT !.pc = "served"]
        /\ UNCHANGED <<doubt, refused>>
     \/ /\ ~Permits(role, watched.by) \/ fetch.misses = "role"
        /\ fetch' = NoFetch
        /\ doubt' = TRUE
        /\ refused' = IF mounted /\ Wanted(role) /\ fetch.misses # "role"
                      THEN <<watched.by, "role">> ELSE refused
  /\ UNCHANGED <<page, watched, role, mounted, entry, request, status, mishaps>>

LoseFetch ==
  /\ InFlight /\ mishaps < MaxMishaps
  /\ fetch' = NoFetch
  /\ doubt' = TRUE
  /\ mishaps' = mishaps + 1
  /\ UNCHANGED <<page, watched, role, mounted, entry, request, status, refused>>

Arrive ==
  /\ fetch.pc = "served"
  /\ entry' = [there |-> TRUE, misses |-> fetch.misses]
  /\ fetch' = NoFetch
  /\ UNCHANGED <<page, watched, role, mounted, request, status, doubt, mishaps, refused>>

-----------------------------------------------------------------------------
\* MUTANT of Click: what a page offers is shown to every role.
Click_ToAnyone(offer, from, to) ==
  LET fresh == watched = Shown.query /\ entry = [there |-> TRUE, misses |-> "nothing"]
  IN  /\ request = NoRequest
      /\ mounted
      /\ entry.there \/ Shown.statuses = NoStatus
      /\ fresh => from = status
      /\ to \in offer.moves[from]
      /\ request' = [pc |-> "sent", does |-> offer.does, may |-> Permits(role, offer.does), to |-> to,
                      fresh |-> fresh, forgets |-> Hits(offer.forgets), anyway |-> Hits(offer.anyway)]
      /\ UNCHANGED <<page, watched, role, mounted, entry, fetch, status, doubt, mishaps, refused>>

\* An offer the page shows is taken up.  A page that is up to date shows the
\* status the row has; any other may show whatever it once was.
Click(offer, from, to) ==
  LET fresh == watched = Shown.query /\ entry = [there |-> TRUE, misses |-> "nothing"]
  IN  /\ request = NoRequest
      /\ mounted /\ role \in offer.for
      /\ entry.there \/ Shown.statuses = NoStatus
      /\ fresh => from = status
      /\ to \in offer.moves[from]
      /\ request' = [pc |-> "sent", does |-> offer.does, may |-> Permits(role, offer.does), to |-> to,
                      fresh |-> fresh, forgets |-> Hits(offer.forgets), anyway |-> Hits(offer.anyway)]
      /\ UNCHANGED <<page, watched, role, mounted, entry, fetch, status, doubt, mishaps, refused>>

Refuse(why) ==
  /\ request' = [request EXCEPT !.pc = "refused"]
  /\ refused' = why
  /\ UNCHANGED <<entry, fetch, status>>

\* The server looks at the role, at the status and the rows it tells of, and at times
\* at what was typed into a form, or at rows that are not in the page's answer.
ServeRequest ==
  LET does == request.does
      to   == request.to
  IN  /\ request.pc = "sent"
      /\ IF ~request.may THEN Refuse(<<does, "role">>)
         ELSE IF ~Takes(does, status, to)
              THEN Refuse(IF request.fresh THEN <<does, status, to>> ELSE refused)
         ELSE \/ Refuse(refused)
              \/ /\ request' = [request EXCEPT !.pc = "done"]
                 /\ \E s \in Outcomes(does, status, to) : status' = s
                 /\ Unseen("own", Touches[does] \cap Touches[watched.by] # {})
                 /\ UNCHANGED refused
      /\ UNCHANGED <<page, watched, role, mounted, doubt, mishaps>>

\* onSuccess and onError run even if the page has gone.
Answer ==
  /\ request.pc \in {"done", "refused"}
  /\ request' = NoRequest
  /\ Invalidate(IF request.pc = "done" THEN request.forgets ELSE request.anyway)
  /\ UNCHANGED <<page, watched, role, mounted, entry, status, mishaps, refused>>

\* To the page, a mutation whose answer never comes has failed; if it is served
\* later on, it is somebody else's.
LoseRequest ==
  LET Others(misses) == IF misses = "own" THEN "others" ELSE misses
  IN  /\ request.pc \in {"sent", "done"} /\ mishaps < MaxMishaps
      /\ request' = NoRequest
      /\ mishaps' = mishaps + 1
      /\ entry' = [entry EXCEPT !.misses = Others(@)]
      /\ IF request.anyway THEN Invalidate(request.anyway)
         ELSE fetch' = [fetch EXCEPT !.misses = Others(@)] /\ UNCHANGED doubt
      /\ UNCHANGED <<page, watched, role, mounted, status, refused>>

\* Somebody else changes the row or what the answer is made of.
OthersWrite(to) ==
  /\ status' = to
  /\ Unseen("others", TRUE)
  /\ request' = [request EXCEPT !.fresh = FALSE]
  /\ UNCHANGED <<page, watched, role, mounted, doubt, mishaps, refused>>

\* RoleContext.setRole: the role first, then every query is invalidated, then the
\* page is drawn anew and may be gone, or its query be enabled.
SwitchRole(r) ==
  LET again   == mounted /\ Wanted(role)
      enabled == mounted /\ ~Wanted(role) /\ Wanted(r)
  IN  /\ r # role
      /\ role' = r
      /\ mounted' = (mounted /\ r \in Shown.for)
      /\ entry' = IF entry.there THEN [entry EXCEPT !.misses = "role"] ELSE entry
      /\ IF ((again \/ enabled) /\ ~InFlight) \/ (again /\ entry.there) THEN Ask
         ELSE IF InFlight
              THEN fetch' = [fetch EXCEPT !.misses = "role"] /\ doubt' = TRUE
              ELSE UNCHANGED <<fetch, doubt>>
      /\ UNCHANGED <<page, watched, request, status, mishaps, refused>>

ClientNext ==
  \/ Visit
  \/ Depart
  \/ Refocus
  \/ ServeFetch
  \/ LoseFetch
  \/ Arrive
  \/ \E offer \in Shown.offers : \E from \in Shown.statuses : \E to \in offer.moves[from] :
        Click(offer, from, to)
  \/ ServeRequest
  \/ Answer
  \/ LoseRequest
  \/ \E to \in Shown.statuses : OthersWrite(to)
  \/ \E r \in Interested : SwitchRole(r)

ClientSpec == ClientInit /\ [][ClientNext]_clientVars

-----------------------------------------------------------------------------
(***************************************************************************)
(* Properties.                                                             *)
(***************************************************************************)

\* What every variable may hold.
ClientTypeOK ==
  /\ page \in DOMAIN App /\ watched \in Queries(Shown)
  /\ role \in Interested
  /\ mounted \in BOOLEAN
  /\ entry \in [there : BOOLEAN, misses : Missable]
  /\ fetch \in [pc : {"none", "asked", "served"}, misses : Missable]
  /\ request.pc \in {"none", "sent", "done", "refused"}
  /\ request.does \in {offer.does : offer \in Shown.offers} \cup {Nothing}
  /\ status \in Shown.statuses
  /\ doubt \in BOOLEAN
  /\ mishaps \in 0..MaxMishaps

\* "Switching roles makes every cached query stale" (RoleContext.tsx:22-23), and a
\* mutation forgets what it changed: when nothing is on its way, no fetch has
\* failed and none was joined, an open page shows its own changes and the acting
\* role's answer, but for what is left behind.
ReadYourWrites ==
  mounted /\ Wanted(role) /\ ~InFlight /\ request = NoRequest /\ ~doubt
    => /\ entry.there
       /\ entry.misses # "role"
       /\ entry.misses = "own" => watched.key \in LeftBehind

\* "The menu only ever offers moves the API will actually accept"
\* (StatusMenu.tsx:6-8), and a role sees what its routes allow (roleStore.ts:41): not
\* so for the known refusals, and for nothing else.  Beyond them no page that is up to
\* date offers what the server refuses for the role or for the rows of its answer.
OffersAccepted == refused \in KnownRefusals \cup {Nothing}

=============================================================================
