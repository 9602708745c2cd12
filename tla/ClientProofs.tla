----------------------------- MODULE ClientProofs -----------------------------
(***************************************************************************)
(* The browser in front of the API.  That the tables of the pages fit those*)
(* of the API is PagesFit, which holds nothing but constants and which TLC *)
(* evaluates; here it is proved that a page whose tables fit never keeps   *)
(* showing what it should not, in whatever order fetches, mutations, other *)
(* people's writes, lost answers and switches of the role come, for any    *)
(* number of lost answers.  And the offices together keep their types.     *)
(***************************************************************************)
EXTENDS MCOffice, OfficeProofs

-----------------------------------------------------------------------------
(***************************************************************************)
(* A page at work.                                                         *)
(***************************************************************************)

Answers  == [there : BOOLEAN, misses : Missable]
Fetches  == [pc : {"none", "asked", "served"}, misses : Missable]
Does      == {offer.does : offer \in Shown.offers}
Asks      == UNION {UNION {offer.moves[from] : from \in Shown.statuses} : offer \in Shown.offers}
Mutations ==
  [pc : {"none", "sent", "done", "refused"}, does : Does \cup {Nothing}, may : BOOLEAN,
   to : Asks \cup {"="}, fresh : BOOLEAN, forgets : BOOLEAN, anyway : BOOLEAN]

ClientTypes ==
  /\ page \in DOMAIN App /\ watched \in Queries(Shown)
  /\ role \in Interested /\ mounted \in BOOLEAN
  /\ entry \in Answers /\ fetch \in Fetches /\ request \in Mutations
  /\ status \in Shown.statuses /\ doubt \in BOOLEAN
  /\ mishaps \in 0..MaxMishaps

\* A mutation on its way is one of the page's offers, and forgets what it changes.
Promised ==
  request.pc = "sent" =>
    /\ request.does \in Does
    /\ Touches[request.does] \cap Touches[watched.by] # {} =>
         request.forgets \/ watched.key \in LeftBehind

\* The page's own change is missing only until its answer is in, and the change of the
\* role only where the answer is in doubt or about to be asked for.
OwnChange == request.pc = "done" /\ request.forgets

UpToDate ==
  /\ ~entry.there => entry.misses = "nothing"
  /\ ~InFlight => fetch.misses = "nothing"
  /\ fetch.misses = "role" => doubt
  /\ fetch.misses = "own" /\ ~doubt => OwnChange \/ watched.key \in LeftBehind
  /\ mounted /\ Wanted(role) /\ ~InFlight /\ ~doubt =>
       /\ entry.there /\ entry.misses # "role"
       /\ entry.misses = "own" => OwnChange \/ watched.key \in LeftBehind

ClientInv ==
  /\ ClientTypes
  /\ mounted => role \in Shown.for
  /\ Promised /\ UpToDate

-----------------------------------------------------------------------------
LEMMA StartingValues ==
  /\ NoFetch \in Fetches /\ NoFetch.pc = "none" /\ NoFetch.misses = "nothing"
  /\ Asked \in Fetches /\ Asked.pc = "asked" /\ Asked.misses = "nothing"
  /\ NoRequest \in Mutations /\ NoRequest.pc = "none"
  BY DEF NoFetch, Asked, NoRequest, Fetches, Missable, Mutations

LEMMA ShownFits == ClientInv => Fits(Shown) /\ watched \in Queries(Shown)
  BY PagesFit DEF ClientInv, ClientTypes, Shown

LEMMA ClientStarts == ClientInit => ClientInv
  <1> SUFFICES ASSUME ClientInit PROVE ClientInv
    OBVIOUS
  <1>1. ClientTypes
    <2>1. [there |-> FALSE, misses |-> "nothing"] \in Answers
      BY DEF Answers, Missable
    <2>2. entry \in Answers /\ fetch \in Fetches /\ request \in Mutations
      BY <2>1, StartingValues DEF ClientInit
    <2>3. mishaps \in 0..MaxMishaps
      BY ClientAssumption DEF ClientInit
    <2> QED
      BY <2>2, <2>3 DEF ClientInit, ClientTypes
  <1>2. Promised /\ UpToDate
    BY StartingValues DEF ClientInit, Promised, UpToDate, InFlight
  <1> QED
    BY <1>1, <1>2 DEF ClientInv, ClientInit

\* The page and its query stay what they are, and what they are known by with them.
LEMMA SamePage ==
  ASSUME UNCHANGED <<page, watched>>
  PROVE  /\ Shown' = Shown /\ Interested' = Interested
         /\ Does' = Does /\ Mutations' = Mutations
         /\ \A r : Wanted(r)' <=> Wanted(r)
  <1>1. Shown' = Shown
    BY DEF Shown
  <1> QED
    BY <1>1 DEF Interested, Does, Asks, Mutations, Wanted

LEMMA StaysWell ==
  ASSUME ClientInv, UNCHANGED <<page, watched>>,
         role' \in Interested, mounted' \in BOOLEAN, entry' \in Answers, fetch' \in Fetches,
         request' \in Mutations, status' \in Shown.statuses, doubt' \in BOOLEAN,
         mishaps' \in 0..MaxMishaps, mounted' => role' \in Shown.for,
         Promised', UpToDate'
  PROVE  ClientInv'
  <1>1. Shown' = Shown /\ Interested' = Interested /\ Mutations' = Mutations
    BY SamePage
  <1>2. Queries(Shown)' = Queries(Shown)
    BY <1>1 DEF Queries
  <1>3. ClientTypes'
    BY <1>1, <1>2 DEF ClientInv, ClientTypes
  <1> QED
    BY <1>1, <1>3 DEF ClientInv

\* What is on its way has been before.
LEMMA PromiseKept ==
  ASSUME ClientInv, UNCHANGED <<page, watched>>, request'.pc = "sent" => UNCHANGED request
  PROVE  Promised'
  BY SamePage DEF ClientInv, Promised

-----------------------------------------------------------------------------
\* The page is opened, left or looked at again.
LEMMA LookKeeps ==
  ASSUME ClientInv, Visit \/ Depart \/ Refocus
  PROVE  ClientInv'
  <1>1. /\ UNCHANGED <<page, watched, role, entry, request, status, mishaps, refused>>
        /\ mounted' \in BOOLEAN /\ (mounted' => role \in Shown.for)
        /\ \/ fetch' = Asked /\ doubt' = FALSE
           \/ /\ UNCHANGED <<fetch, doubt>>
              /\ mounted' /\ Wanted(role) /\ ~InFlight => mounted
    BY DEF Visit, Depart, Refocus, Ask, ClientInv, ClientTypes
  <1>2. UpToDate'
    <2>1. UpToDate /\ (Wanted(role)' <=> Wanted(role))
      BY <1>1, SamePage DEF ClientInv
    <2>2. CASE fetch' = Asked /\ doubt' = FALSE
      BY <1>1, <2>1, <2>2, StartingValues DEF UpToDate, InFlight, OwnChange
    <2>3. CASE UNCHANGED <<fetch, doubt>> /\ (mounted' /\ Wanted(role) /\ ~InFlight => mounted)
      BY <1>1, <2>1, <2>3 DEF UpToDate, InFlight, OwnChange
    <2> QED
      BY <1>1, <2>2, <2>3
  <1>3. fetch' \in Fetches /\ doubt' \in BOOLEAN
    BY <1>1, StartingValues DEF ClientInv, ClientTypes
  <1>4. Promised'
    BY <1>1, PromiseKept DEF ClientInv
  <1>5. /\ role' \in Interested /\ mounted' \in BOOLEAN /\ entry' \in Answers
        /\ request' \in Mutations /\ status' \in Shown.statuses /\ mishaps' \in 0..MaxMishaps
        /\ mounted' => role' \in Shown.for
    BY <1>1 DEF ClientInv, ClientTypes
  <1>6. UNCHANGED <<page, watched>>
    BY <1>1
  <1> QED
    BY <1>2, <1>3, <1>4, <1>5, <1>6, StaysWell

\* The server answers, and the answer comes or does not.
LEMMA FetchKeeps ==
  ASSUME ClientInv, ServeFetch \/ LoseFetch \/ Arrive
  PROVE  ClientInv'
  <1>1. /\ UNCHANGED <<page, watched, role, mounted, request, status>>
        /\ entry \in Answers /\ fetch \in Fetches /\ doubt \in BOOLEAN
    BY DEF ServeFetch, LoseFetch, Arrive, ClientInv, ClientTypes
  <1>2. UpToDate /\ (Wanted(role)' <=> Wanted(role))
    BY <1>1, SamePage DEF ClientInv
  <1>3. Promised'
    BY <1>1, PromiseKept
  <1>4. CASE ServeFetch
    <2>1. UNCHANGED <<entry, mishaps>> /\ fetch.pc = "asked"
      BY <1>4 DEF ServeFetch
    <2>2. CASE fetch' = [fetch EXCEPT !.pc = "served"] /\ UNCHANGED <<doubt, refused>>
      <3>1. fetch' \in Fetches /\ fetch'.pc = "served" /\ fetch'.misses = fetch.misses
        BY <1>1, <2>2 DEF Fetches
      <3>2. UpToDate'
        BY <1>1, <1>2, <2>1, <2>2, <3>1 DEF UpToDate, InFlight, OwnChange
      <3> QED
        BY <1>1, <1>3, <2>1, <2>2, <3>1, <3>2, StaysWell
           DEF ClientInv, ClientTypes
    <2>3. CASE fetch' = NoFetch /\ doubt' = TRUE
      <3>1. UpToDate'
        BY <1>1, <1>2, <2>1, <2>3, StartingValues DEF UpToDate
      <3> QED
        BY <1>1, <1>3, <2>1, <2>3, <3>1, StartingValues, StaysWell DEF ClientInv, ClientTypes
    <2> QED
      BY <1>4, <2>2, <2>3 DEF ServeFetch
  <1>5. CASE LoseFetch
    <2>1. /\ UNCHANGED <<entry, refused>> /\ fetch' = NoFetch /\ doubt' = TRUE
          /\ mishaps' = mishaps + 1 /\ mishaps < MaxMishaps
      BY <1>5 DEF LoseFetch
    <2>2. UpToDate'
      BY <1>1, <1>2, <2>1, StartingValues DEF UpToDate
    <2>3. mishaps' \in 0..MaxMishaps
      BY <2>1, ClientAssumption DEF ClientInv, ClientTypes
    <2> QED
      BY <1>1, <1>3, <2>1, <2>2, <2>3, StartingValues, StaysWell
         DEF ClientInv, ClientTypes
  <1>6. CASE Arrive
    <2>1. /\ UNCHANGED <<doubt, mishaps, refused>> /\ fetch' = NoFetch
          /\ entry' = [there |-> TRUE, misses |-> fetch.misses]
      BY <1>6 DEF Arrive
    <2>2. entry' \in Answers /\ entry'.there = TRUE /\ entry'.misses = fetch.misses
      BY <1>1, <2>1 DEF Answers, Fetches
    <2>3. UpToDate'
      BY <1>1, <1>2, <2>1, <2>2, StartingValues DEF UpToDate, InFlight, OwnChange
    <2> QED
      BY <1>1, <1>3, <2>1, <2>2, <2>3, StartingValues, StaysWell
         DEF ClientInv, ClientTypes
  <1> QED
    BY <1>4, <1>5, <1>6

-----------------------------------------------------------------------------
LEMMA ClickKeepsPage ==
  ASSUME ClientInv, NEW offer \in Shown.offers, NEW from \in Shown.statuses,
         NEW to \in offer.moves[from], Click(offer, from, to)
  PROVE  ClientInv'
  <1> DEFINE fresh == watched = Shown.query /\ entry = [there |-> TRUE, misses |-> "nothing"]
             may == Permits(role, offer.does)
             forgets == Hits(offer.forgets)
             anyway == Hits(offer.anyway)
  <1>1. /\ fresh \in BOOLEAN /\ may \in BOOLEAN /\ forgets \in BOOLEAN /\ anyway \in BOOLEAN
    BY DEF Permits, Hits, Matched
  <1>2. /\ request' = [pc |-> "sent", does |-> offer.does, may |-> may, to |-> to,
                       fresh |-> fresh, forgets |-> forgets, anyway |-> anyway]
        /\ request = NoRequest /\ mounted /\ role \in offer.for
        /\ UNCHANGED <<page, watched, role, mounted, entry, fetch, status, doubt, mishaps, refused>>
    BY DEF Click
  <1>3. offer.does \in Does /\ to \in Asks
    BY DEF Does, Asks
  <1>4. Touches[offer.does] \cap Touches[watched.by] # {} =>
          forgets \/ watched.key \in LeftBehind
    BY ShownFits DEF Fits, Hits
  <1> HIDE DEF fresh, may, forgets, anyway
  <1>5. /\ request' \in Mutations /\ request'.pc = "sent" /\ request'.does = offer.does
        /\ request'.forgets = forgets
    BY <1>1, <1>2, <1>3 DEF Mutations
  <1>6. Promised'
    BY <1>2, <1>3, <1>4, <1>5, SamePage DEF Promised
  <1>7. UpToDate'
    <2>1. UpToDate /\ (Wanted(role)' <=> Wanted(role)) /\ ~OwnChange
      BY <1>2, SamePage, StartingValues DEF ClientInv, OwnChange
    <2> QED
      BY <1>2, <2>1 DEF UpToDate, InFlight
  <1> QED
    BY <1>2, <1>5, <1>6, <1>7, StaysWell DEF ClientInv, ClientTypes

\* A change that others or the page have made: it is never the role that is missing, and
\* the page's own only if it is the page's.
LEMMA UnseenFacts ==
  ASSUME ClientInv, NEW what \in {"own", "others"}, NEW yes \in BOOLEAN, Unseen(what, yes)
  PROVE  /\ entry' \in Answers /\ fetch' \in Fetches
         /\ entry'.there = entry.there /\ fetch'.pc = fetch.pc
         /\ ~entry.there => entry'.misses = entry.misses
         /\ fetch.pc # "served" => fetch'.misses = fetch.misses
         /\ entry'.misses = "role" => entry.misses = "role"
         /\ fetch'.misses = "role" => fetch.misses = "role"
         /\ entry'.misses = "own" => entry.misses = "own" \/ (what = "own" /\ yes)
         /\ fetch'.misses = "own" => fetch.misses = "own" \/ (what = "own" /\ yes)
  <1>1. entry \in Answers /\ fetch \in Fetches
    BY DEF ClientInv, ClientTypes
  <1>2. \A misses \in Missable : /\ Worse(misses, what) \in Missable
                                 /\ Worse(misses, what) \in {misses, what}
    BY DEF Worse, Missable
  <1>3. /\ entry'.there = entry.there /\ entry' \in Answers
        /\ entry'.misses \in {entry.misses, what}
        /\ ~(yes /\ entry.there) => entry'.misses = entry.misses
    <2>1. CASE yes /\ entry.there
      <3>1. PICK worse \in Missable : worse = Worse(entry.misses, what) /\ worse \in {entry.misses, what}
        BY <1>1, <1>2 DEF Answers
      <3>2. entry' = [entry EXCEPT !.misses = worse]
        BY <2>1, <3>1 DEF Unseen
      <3> QED
        BY <1>1, <2>1, <3>1, <3>2 DEF Answers
    <2>2. CASE ~(yes /\ entry.there)
      BY <1>1, <2>2 DEF Unseen
    <2> QED
      BY <2>1, <2>2
  <1>4. /\ fetch'.pc = fetch.pc /\ fetch' \in Fetches
        /\ fetch'.misses \in {fetch.misses, what}
        /\ ~(yes /\ fetch.pc = "served") => fetch'.misses = fetch.misses
    <2>1. CASE yes /\ fetch.pc = "served"
      <3>1. PICK worse \in Missable : worse = Worse(fetch.misses, what) /\ worse \in {fetch.misses, what}
        BY <1>1, <1>2 DEF Fetches
      <3>2. fetch' = [fetch EXCEPT !.misses = worse]
        BY <2>1, <3>1 DEF Unseen
      <3> QED
        BY <1>1, <2>1, <3>1, <3>2 DEF Fetches
    <2>2. CASE ~(yes /\ fetch.pc = "served")
      BY <1>1, <2>2 DEF Unseen
    <2> QED
      BY <2>1, <2>2
  <1> QED
    BY <1>3, <1>4

\* The keys of a mutation are forgotten: the query is asked for again, or the answer on its
\* way is in doubt.
LEMMA InvalidateFacts ==
  ASSUME ClientInv, NEW hit \in BOOLEAN, Invalidate(hit)
  PROVE  \/ fetch' = Asked /\ doubt' = FALSE
         \/ /\ fetch' = fetch /\ doubt' = (doubt \/ (hit /\ InFlight))
            /\ hit /\ mounted /\ Wanted(role) => InFlight
  BY DEF Invalidate, Ask

LEMMA ServeRequestKeeps ==
  ASSUME ClientInv, ServeRequest
  PROVE  ClientInv'
  <1>1. /\ UNCHANGED <<page, watched, role, mounted, doubt, mishaps>>
        /\ request.pc = "sent" /\ request \in Mutations
    BY DEF ServeRequest, ClientInv, ClientTypes
  <1>2. UpToDate /\ (Wanted(role)' <=> Wanted(role)) /\ ~OwnChange /\ Promised
    BY <1>1, SamePage DEF ClientInv, OwnChange
  <1>3. ASSUME NEW why, Refuse(why)
        PROVE  ClientInv'
    <2>1. /\ request' \in Mutations /\ request'.pc = "refused"
          /\ UNCHANGED <<entry, fetch, status>>
      BY <1>1, <1>3, SamePage DEF Refuse, Mutations
    <2>2. Promised'
      BY <2>1 DEF Promised
    <2>3. UpToDate'
      BY <1>1, <1>2, <2>1 DEF UpToDate, InFlight
    <2>4. /\ role' \in Interested /\ mounted' \in BOOLEAN /\ entry' \in Answers
          /\ fetch' \in Fetches /\ status' \in Shown.statuses /\ doubt' \in BOOLEAN
          /\ mishaps' \in 0..MaxMishaps
          /\ mounted' => role' \in Shown.for
      BY <1>1, <2>1 DEF ClientInv, ClientTypes
    <2>5. UNCHANGED <<page, watched>>
      BY <1>1
    <2> QED
      BY <2>1, <2>2, <2>3, <2>4, <2>5, StaysWell
  <1>4. CASE /\ request' = [request EXCEPT !.pc = "done"]
             /\ \E s \in Outcomes(request.does, status, request.to) : status' = s
             /\ Unseen("own", Touches[request.does] \cap Touches[watched.by] # {})
    <2>1. /\ request' \in Mutations /\ request'.pc = "done" /\ request'.forgets = request.forgets
      BY <1>1, <1>4 DEF Mutations
    <2>2. PICK yes \in BOOLEAN : /\ yes <=> Touches[request.does] \cap Touches[watched.by] # {}
                                 /\ Unseen("own", yes)
      BY <1>4
    <2>3. /\ entry' \in Answers /\ fetch' \in Fetches
          /\ entry'.there = entry.there /\ fetch'.pc = fetch.pc
          /\ ~entry.there => entry'.misses = entry.misses
          /\ fetch.pc # "served" => fetch'.misses = fetch.misses
          /\ entry'.misses = "role" => entry.misses = "role"
          /\ fetch'.misses = "role" => fetch.misses = "role"
          /\ entry'.misses = "own" => entry.misses = "own" \/ yes
          /\ fetch'.misses = "own" => fetch.misses = "own" \/ yes
      BY <2>2, UnseenFacts
    <2>4. yes => request.forgets \/ watched.key \in LeftBehind
      BY <1>1, <1>2, <2>2 DEF Promised
    <2>5. UpToDate'
      <3>1. OwnChange' <=> request.forgets
        BY <2>1 DEF OwnChange
      <3> QED
        BY <1>1, <1>2, <2>3, <2>4, <3>1 DEF UpToDate, InFlight
    <2>6. Promised'
      BY <1>2, <1>4, <2>1 DEF Promised
    <2>7. status' \in Shown.statuses
      <3>1. status' \in Results(request.does, status)
        BY <1>4 DEF Outcomes
      <3>2. PICK offer \in Shown.offers : request.does = offer.does
        BY <1>1, <1>2 DEF Promised, Does
      <3>3. Results(offer.does, status) \subseteq Shown.statuses
        BY ShownFits DEF Fits, ClientInv, ClientTypes
      <3> QED
        BY <3>1, <3>2, <3>3
    <2>8. /\ role' \in Interested /\ mounted' \in BOOLEAN /\ doubt' \in BOOLEAN
          /\ mishaps' \in 0..MaxMishaps
          /\ mounted' => role' \in Shown.for
      BY <1>1 DEF ClientInv, ClientTypes
    <2>9. UNCHANGED <<page, watched>> /\ entry' \in Answers /\ fetch' \in Fetches
      BY <1>1, <2>3
    <2> QED
      BY <2>1, <2>5, <2>6, <2>7, <2>8, <2>9, StaysWell
  <1> QED
    BY <1>1, <1>3, <1>4 DEF ServeRequest

\* The mutation is over for the page.
LEMMA AnswerKeeps ==
  ASSUME ClientInv, Answer
  PROVE  ClientInv'
  <1>1. /\ UNCHANGED <<page, watched, role, mounted, entry, status, mishaps, refused>>
        /\ request' = NoRequest /\ request \in Mutations
    BY DEF Answer, ClientInv, ClientTypes
  <1>2. PICK hit \in BOOLEAN : /\ Invalidate(hit)
                               /\ OwnChange => hit
    <2>1. request.forgets \in BOOLEAN /\ request.anyway \in BOOLEAN
      BY <1>1 DEF Mutations
    <2>2. CASE request.pc = "done"
      <3>1. Invalidate(request.forgets)
        BY <2>2 DEF Answer
      <3> QED
        BY <2>1, <3>1 DEF OwnChange
    <2>3. CASE request.pc # "done"
      <3>1. Invalidate(request.anyway)
        BY <2>3 DEF Answer
      <3> QED
        BY <2>1, <2>3, <3>1 DEF OwnChange
    <2> QED
      BY <2>2, <2>3
  <1>3. \/ fetch' = Asked /\ doubt' = FALSE
        \/ /\ fetch' = fetch /\ doubt' = (doubt \/ (hit /\ InFlight))
           /\ hit /\ mounted /\ Wanted(role) => InFlight
    BY <1>2, InvalidateFacts
  <1>4. UpToDate /\ (Wanted(role)' <=> Wanted(role)) /\ doubt \in BOOLEAN /\ fetch \in Fetches
    BY <1>1, SamePage DEF ClientInv, ClientTypes
  <1>5. UpToDate'
    <2>1. CASE fetch' = Asked /\ doubt' = FALSE
      BY <1>1, <1>4, <2>1, StartingValues DEF UpToDate, InFlight
    <2>2. CASE /\ fetch' = fetch /\ doubt' = (doubt \/ (hit /\ InFlight))
               /\ hit /\ mounted /\ Wanted(role) => InFlight
      BY <1>1, <1>2, <1>4, <2>2 DEF UpToDate, InFlight
    <2> QED
      BY <1>3, <2>1, <2>2
  <1>6. /\ request' \in Mutations /\ fetch' \in Fetches /\ doubt' \in BOOLEAN
        /\ Promised'
    BY <1>1, <1>3, <1>4, StartingValues DEF ClientInv, Promised, InFlight
  <1>7. /\ role' \in Interested /\ mounted' \in BOOLEAN /\ entry' \in Answers
        /\ status' \in Shown.statuses /\ mishaps' \in 0..MaxMishaps
        /\ mounted' => role' \in Shown.for
    BY <1>1 DEF ClientInv, ClientTypes
  <1> QED
    BY <1>1, <1>5, <1>6, <1>7, StaysWell

LEMMA LoseRequestKeeps ==
  ASSUME ClientInv, LoseRequest
  PROVE  ClientInv'
  <1> DEFINE Others(misses) == IF misses = "own" THEN "others" ELSE misses
  <1>1. /\ UNCHANGED <<page, watched, role, mounted, status, refused>>
        /\ request' = NoRequest /\ request \in Mutations
        /\ mishaps' = mishaps + 1 /\ mishaps < MaxMishaps
        /\ entry' = [entry EXCEPT !.misses = Others(@)]
        /\ \/ request.anyway = TRUE /\ Invalidate(TRUE)
           \/ fetch' = [fetch EXCEPT !.misses = Others(@)] /\ UNCHANGED doubt
    <2>1. request.anyway \in BOOLEAN /\ request \in Mutations
      BY DEF ClientInv, ClientTypes, Mutations
    <2>2. request.anyway => request.anyway = TRUE /\ Invalidate(TRUE)
      BY <2>1 DEF LoseRequest, Invalidate
    <2> QED
      BY <2>1, <2>2 DEF LoseRequest
  <1>2. /\ UpToDate /\ (Wanted(role)' <=> Wanted(role)) /\ doubt \in BOOLEAN
        /\ fetch \in Fetches /\ entry \in Answers
    BY <1>1, SamePage DEF ClientInv, ClientTypes
  <1>3. /\ entry' \in Answers /\ entry'.there = entry.there /\ entry'.misses # "own"
        /\ entry'.misses \in {entry.misses, "others"}
        /\ entry.misses = "nothing" => entry'.misses = "nothing"
    BY <1>1, <1>2 DEF Answers, Missable
  <1>4. \/ fetch' = Asked /\ doubt' = FALSE
        \/ /\ fetch' = fetch /\ doubt' = (doubt \/ InFlight)
        \/ /\ fetch' = [fetch EXCEPT !.misses = Others(@)] /\ doubt' = doubt
    BY <1>1, InvalidateFacts
  <1>5. UpToDate' /\ fetch' \in Fetches /\ doubt' \in BOOLEAN
    <2>1. CASE fetch' = Asked /\ doubt' = FALSE
      BY <1>1, <1>2, <1>3, <2>1, StartingValues DEF UpToDate, InFlight
    <2>2. CASE fetch' = fetch /\ doubt' = (doubt \/ InFlight)
      <3>1. doubt' \in BOOLEAN /\ (~doubt' => ~doubt /\ ~InFlight)
        BY <1>2, <2>2 DEF InFlight
      <3> QED
        BY <1>1, <1>2, <1>3, <2>2, <3>1 DEF UpToDate, InFlight
    <2>3. CASE fetch' = [fetch EXCEPT !.misses = Others(@)] /\ doubt' = doubt
      <3>1. /\ fetch' \in Fetches /\ fetch'.pc = fetch.pc /\ fetch'.misses # "own"
            /\ fetch'.misses \in {fetch.misses, "others"}
            /\ fetch.misses = "nothing" => fetch'.misses = "nothing"
        BY <1>2, <2>3 DEF Fetches, Missable
      <3> QED
        BY <1>1, <1>2, <1>3, <2>3, <3>1 DEF UpToDate, InFlight
    <2> QED
      BY <1>4, <2>1, <2>2, <2>3
  <1>6. /\ request' \in Mutations /\ Promised'
    BY <1>1, StartingValues DEF ClientInv, Promised
  <1>7. mishaps' \in 0..MaxMishaps
    BY <1>1, ClientAssumption DEF ClientInv, ClientTypes
  <1>8. /\ role' \in Interested /\ mounted' \in BOOLEAN
        /\ status' \in Shown.statuses
        /\ mounted' => role' \in Shown.for
    BY <1>1 DEF ClientInv, ClientTypes
  <1>9. UNCHANGED <<page, watched>> /\ entry' \in Answers
    BY <1>1, <1>3
  <1> QED
    BY <1>5, <1>6, <1>7, <1>8, <1>9, StaysWell

LEMMA OthersWriteKeeps ==
  ASSUME ClientInv, NEW to \in Shown.statuses, OthersWrite(to)
  PROVE  ClientInv'
  <1>1. /\ UNCHANGED <<page, watched, role, mounted, doubt, mishaps, refused>>
        /\ status' = to /\ Unseen("others", TRUE)
        /\ request' = [request EXCEPT !.fresh = FALSE] /\ request \in Mutations
    BY DEF OthersWrite, ClientInv, ClientTypes
  <1>2. /\ request' \in Mutations /\ request'.fresh = FALSE /\ request'.pc = request.pc
        /\ request'.does = request.does /\ request'.may = request.may
        /\ request'.forgets = request.forgets
    BY <1>1 DEF Mutations
  <1>3. /\ entry' \in Answers /\ fetch' \in Fetches
        /\ entry'.there = entry.there /\ fetch'.pc = fetch.pc
        /\ ~entry.there => entry'.misses = entry.misses
        /\ fetch.pc # "served" => fetch'.misses = fetch.misses
        /\ entry'.misses = "role" => entry.misses = "role"
        /\ fetch'.misses = "role" => fetch.misses = "role"
        /\ entry'.misses = "own" => entry.misses = "own"
        /\ fetch'.misses = "own" => fetch.misses = "own"
    BY <1>1, UnseenFacts
  <1>4. UpToDate'
    <2>1. UpToDate /\ (Wanted(role)' <=> Wanted(role))
      BY <1>1, SamePage DEF ClientInv
    <2>2. OwnChange' <=> OwnChange
      BY <1>2 DEF OwnChange
    <2> QED
      BY <1>1, <1>3, <2>1, <2>2 DEF UpToDate, InFlight
  <1>5. Promised'
    BY <1>1, <1>2, SamePage DEF ClientInv, Promised
  <1>6. /\ role' \in Interested /\ mounted' \in BOOLEAN /\ doubt' \in BOOLEAN
        /\ status' \in Shown.statuses
        /\ mishaps' \in 0..MaxMishaps
        /\ mounted' => role' \in Shown.for
    BY <1>1 DEF ClientInv, ClientTypes
  <1>7. /\ UNCHANGED <<page, watched>>
        /\ entry' \in Answers /\ fetch' \in Fetches /\ request' \in Mutations
    BY <1>1, <1>2, <1>3
  <1> QED
    BY <1>4, <1>5, <1>6, <1>7, StaysWell

\* Whatever was cached is stale, and what is on its way in doubt.
LEMMA SwitchRoleKeeps ==
  ASSUME ClientInv, NEW r \in Interested, SwitchRole(r)
  PROVE  ClientInv'
  <1> DEFINE again   == mounted /\ Wanted(role)
             wanted == mounted /\ ~Wanted(role) /\ Wanted(r)
  <1>1. /\ UNCHANGED <<page, watched, request, status, mishaps, refused>>
        /\ role' = r /\ mounted' = (mounted /\ r \in Shown.for)
        /\ entry' = IF entry.there THEN [entry EXCEPT !.misses = "role"] ELSE entry
        /\ IF ((again \/ wanted) /\ ~InFlight) \/ (again /\ entry.there) THEN Ask
           ELSE IF InFlight
                THEN fetch' = [fetch EXCEPT !.misses = "role"] /\ doubt' = TRUE
                ELSE UNCHANGED <<fetch, doubt>>
    BY DEF SwitchRole
  <1>2. /\ UpToDate /\ fetch \in Fetches /\ entry \in Answers /\ mounted \in BOOLEAN
        /\ doubt \in BOOLEAN /\ (Wanted(role)' <=> Wanted(r))
    BY <1>1, SamePage DEF ClientInv, ClientTypes, Wanted, Shown
  <1>3. /\ entry' \in Answers /\ entry'.there = entry.there
        /\ entry'.misses # "nothing" => entry.there
        /\ ~entry.there => entry'.misses = "nothing"
    BY <1>1, <1>2 DEF Answers, Missable, UpToDate
  <1>4. \/ fetch' = Asked /\ doubt' = FALSE
        \/ fetch' = [fetch EXCEPT !.misses = "role"] /\ doubt' = TRUE /\ InFlight
        \/ UNCHANGED <<fetch, doubt>> /\ ~InFlight /\ ~(mounted' /\ Wanted(r))
    BY <1>1 DEF Ask, Wanted
  <1>5. UpToDate' /\ fetch' \in Fetches /\ doubt' \in BOOLEAN
    <2>1. CASE fetch' = Asked /\ doubt' = FALSE
      BY <1>3, <2>1, StartingValues DEF UpToDate, InFlight
    <2>2. CASE fetch' = [fetch EXCEPT !.misses = "role"] /\ doubt' = TRUE /\ InFlight
      <3>1. fetch' \in Fetches /\ fetch'.pc = fetch.pc /\ fetch'.misses = "role"
        BY <1>2, <2>2 DEF Fetches, Missable
      <3> QED
        BY <1>3, <2>2, <3>1 DEF UpToDate, InFlight
    <2>3. CASE UNCHANGED <<fetch, doubt>> /\ ~InFlight /\ ~(mounted' /\ Wanted(r))
      BY <1>2, <1>3, <2>3 DEF UpToDate, InFlight
    <2> QED
      BY <1>4, <2>1, <2>2, <2>3
  <1>6. Promised'
    BY <1>1, PromiseKept DEF ClientInv
  <1>7. /\ role' \in Interested /\ mounted' \in BOOLEAN /\ request' \in Mutations
        /\ status' \in Shown.statuses
        /\ mishaps' \in 0..MaxMishaps
        /\ mounted' => role' \in Shown.for
    BY <1>1, <1>2 DEF ClientInv, ClientTypes
  <1>8. UNCHANGED <<page, watched>> /\ entry' \in Answers
    BY <1>1, <1>3
  <1> QED
    BY <1>5, <1>6, <1>7, <1>8, StaysWell

-----------------------------------------------------------------------------
LEMMA ClientStep == ClientInv /\ [ClientNext]_clientVars => ClientInv'
  <1> SUFFICES ASSUME ClientInv, [ClientNext]_clientVars PROVE ClientInv'
    OBVIOUS
  <1>1. CASE UNCHANGED clientVars
    <2>1. UNCHANGED <<page, watched, role, mounted, entry, fetch, request, status, doubt,
                      mishaps, refused>>
      BY <1>1 DEF clientVars
    <2>2. (Wanted(role)' <=> Wanted(role)) /\ UpToDate
      BY <2>1, SamePage DEF ClientInv
    <2>3. UpToDate'
      BY <2>1, <2>2 DEF UpToDate, InFlight, OwnChange
    <2>4. Promised'
      BY <2>1, PromiseKept DEF ClientInv
    <2>5. /\ role' \in Interested /\ mounted' \in BOOLEAN /\ entry' \in Answers
          /\ fetch' \in Fetches /\ request' \in Mutations /\ status' \in Shown.statuses
          /\ doubt' \in BOOLEAN /\ mishaps' \in 0..MaxMishaps
          /\ mounted' => role' \in Shown.for
      BY <2>1 DEF ClientInv, ClientTypes
    <2> QED
      BY <2>1, <2>3, <2>4, <2>5, StaysWell
  <1>2. CASE ClientNext
    BY <1>2, LookKeeps, FetchKeeps, ClickKeepsPage, ServeRequestKeeps, AnswerKeeps,
       LoseRequestKeeps, OthersWriteKeeps, SwitchRoleKeeps DEF ClientNext
  <1> QED
    BY <1>1, <1>2

THEOREM ClientInvariant == ClientSpec => []ClientInv
  BY ClientStarts, ClientStep, PTL DEF ClientSpec

\* However many answers are lost: when nothing is on its way and nothing is in doubt,
\* an open page shows its own changes, and the answer the acting role gets.
THEOREM OwnWritesAreRead == ClientSpec => []ReadYourWrites
  <1>1. ASSUME ClientInv PROVE ReadYourWrites
    <2>1. request = NoRequest => ~OwnChange
      BY StartingValues DEF OwnChange
    <2> QED
      BY <1>1, <2>1 DEF ClientInv, UpToDate, ReadYourWrites
  <1> QED
    BY <1>1, ClientInvariant, PTL

-----------------------------------------------------------------------------
(***************************************************************************)
(* The offices side by side: a behaviour of all of them is a behaviour of  *)
(* each, and so keeps its types.                                           *)
(***************************************************************************)

LEMMA EachByItself ==
  OfficeSpec => /\ AccountingSpec /\ HseSpec /\ WorkflowSpec /\ AppraisalsSpec
                /\ AttendanceSpec /\ RemindersSpec /\ ScheduleSpec /\ ClientSpec
  <1>1. OfficeInit => /\ AccountingInit /\ HseInit /\ WorkflowInit /\ AppraisalsInit
                      /\ AttendanceInit /\ RemindersInit /\ ScheduleInit /\ ClientInit
    BY DEF OfficeInit
  <1>2. [OfficeNext]_officeVars =>
          /\ [AccountingNext]_accountingVars /\ [HseNext]_hseVars
          /\ [WorkflowNext]_workflowVars /\ [AppraisalsNext]_appraisalsVars
          /\ [AttendanceNext]_attendanceVars /\ [RemindersNext]_remindersVars
          /\ [ScheduleNext]_scheduleVars /\ [ClientNext]_clientVars
    BY DEF OfficeNext, officeVars
  <1> QED
    BY <1>1, <1>2, PTL
       DEF OfficeSpec, AccountingSpec, HseSpec, WorkflowSpec, AppraisalsSpec, AttendanceSpec,
           RemindersSpec, ScheduleSpec, ClientSpec

\* In whichever office the behaviour runs, all of them keep the types of their rows, of
\* what their requests have read, and of the page of the browser.
THEOREM OfficeTypeCorrect == OfficeSpec => []OfficeTypeOK
  <1>1. OfficeInit => part \in Parts
    BY DEF OfficeInit
  <1>2. part \in Parts /\ [OfficeNext]_officeVars => (part \in Parts)'
    BY DEF OfficeNext, officeVars
  <1>3. OfficeSpec => [](part \in Parts)
    BY <1>1, <1>2, PTL DEF OfficeSpec
  <1>4. ASSUME ClientInv PROVE ClientTypeOK
    BY <1>4 DEF ClientInv, ClientTypes, ClientTypeOK, Answers, Fetches, Does, Mutations
  <1>5. /\ HseInv => HseTypeOK
        /\ WorkflowInv => WorkflowTypeOK
        /\ AppraisalsInv => AppraisalsTypeOK
        /\ AttendanceInv => AttendanceTypeOK
        /\ RemindersInv => RemindersTypeOK
    BY DEF HseInv, WorkflowInv, AppraisalsInv, AttendanceInv, RemindersInv
  <1>6. /\ part \in Parts /\ AccountingTypeOK /\ HseTypeOK /\ WorkflowTypeOK /\ AppraisalsTypeOK
        /\ AttendanceTypeOK /\ RemindersTypeOK /\ ScheduleTypeOK /\ ClientTypeOK
        => OfficeTypeOK
    BY DEF OfficeTypeOK
  <1> QED
    BY <1>3, <1>4, <1>5, <1>6, EachByItself, AccountingTypeCorrect, HseInvariant,
       WorkflowInvariant, AppraisalsInvariant, AttendanceInvariant, RemindersInvariant,
       ScheduleTypeCorrect, ClientInvariant, PTL

=============================================================================
